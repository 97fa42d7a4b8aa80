--------------------------- MODULE Session_proofs ---------------------------
(***************************************************************************)
(* What holds over any number of edits of config.toml, of changes of the   *)
(* positions and of crashes, for any settings, trades and coins.           *)
(***************************************************************************)
EXTENDS Session, TLAPS

-----------------------------------------------------------------------------
(***************************************************************************)
(* The settings.  A round of the watcher that has read an older file has   *)
(* been told of the newer one.                                             *)
(***************************************************************************)
WatchInv ==
  /\ SettingsTypeOK
  /\ ~Running => ~notified /\ ~watched
  /\ watchPc = "starting" /\ ~untold => inForce = config
  /\ watchPc = "storing" /\ ~notified /\ ~untold => seen = config
  /\ FileInForce

LEMMA WatchInit == Init => WatchInv
<1> SUFFICES ASSUME SettingsInit PROVE WatchInv
  BY DEF Init
<1>1. edits \in 0 .. MaxEdits
  BY SettingsAssumption DEF SettingsInit
<1>2. /\ notified \in BOOLEAN /\ untold \in BOOLEAN /\ watched \in BOOLEAN
      /\ ~notified /\ ~watched
  BY DEF SettingsInit
<1>3. watchPc \in WatchPhases /\ watchPc \notin {"starting", "storing", "waiting"}
  BY DEF SettingsInit, WatchPhases
<1> QED
  BY <1>1, <1>2, <1>3 DEF SettingsInit, WatchInv, SettingsTypeOK, FileInForce

\* the settings leave the rest alone, and the rest leaves the settings alone
LEMMA WatchSteps ==
  ASSUME [Next]_vars
  PROVE  UNCHANGED settingsVars \/ Edit \/ Replace \/ LoadSettings \/ WatchStep \/ SettingsCrash
BY DEF Next, Detect, Decide, Bought, NotBought, Positioned, Configured, Crash, vars

LEMMA WatchKept == WatchInv /\ [Next]_vars => WatchInv'
<1> SUFFICES ASSUME WatchInv, [Next]_vars PROVE WatchInv'
  OBVIOUS
<1> USE SettingsAssumption
    DEF WatchInv, SettingsTypeOK, WatchPhases, Running, FileInForce
<1>1. CASE UNCHANGED settingsVars
  BY <1>1 DEF settingsVars
<1>2. CASE Edit \/ Replace
  <2>1. PICK told \in {FALSE, watched} : Changed(told) /\ watched' \in {FALSE, watched}
    BY <1>2 DEF Edit, Replace
  <2>2. config' \in Files \cup {Unreadable} /\ edits' \in 0 .. MaxEdits
    BY <2>1 DEF Changed
  <2>3. notified' \in BOOLEAN /\ untold' \in BOOLEAN /\ watched' \in BOOLEAN
    BY <2>1, Zenon DEF Changed
  <2>4. /\ ~Running => ~notified' /\ ~watched'
        /\ told => notified'
        /\ ~told => untold'
    <3>1. notified' = (notified \/ told) /\ untold' = (untold \/ ~told)
      BY <2>1 DEF Changed
    <3>2. told \in {FALSE, watched} /\ watched' \in {FALSE, watched}
      BY <2>1
    <3>3. ~Running => ~notified /\ ~watched
      OBVIOUS
    <3>4. told => notified'
      BY <3>1, Zenon
    <3>5. ~told => untold'
      BY <3>1, Zenon
    <3>6. ~Running => ~told /\ ~watched'
      BY <3>2, <3>3, Zenon
    <3>7. ~Running => ~notified'
      BY <3>1, <3>3, <3>6, Zenon
    <3> QED BY <3>4, <3>5, <3>6, <3>7, Zenon
  <2> QED BY <2>1, <2>2, <2>3, <2>4 DEF Changed
<1>3. CASE LoadSettings
  BY <1>3 DEF LoadSettings, Accepted
<1>4. CASE StartWatching
  BY <1>4 DEF StartWatching
<1>5. CASE Wake \/ Drain
  BY <1>5 DEF Wake, Drain
<1>6. CASE Read
  BY <1>6 DEF Read
<1>7. CASE Store
  BY <1>7 DEF Store, Accepted
<1>8. CASE SettingsCrash
  BY <1>8 DEF SettingsCrash
<1> QED
  BY <1>1, <1>2, <1>3, <1>4, <1>5, <1>6, <1>7, <1>8, WatchSteps DEF WatchStep

(***************************************************************************)
(* run_config_watcher: once the watcher rests, an acceptable file whose    *)
(* last changes it was told of is in force, however the writing and the    *)
(* rounds of the watcher were interleaved, and whatever it missed before.  *)
(***************************************************************************)
THEOREM FileComesIntoForce == Spec => []FileInForce
<1>1. WatchInv => FileInForce
  BY DEF WatchInv
<1> QED BY <1>1, WatchInit, WatchKept, PTL DEF Spec

-----------------------------------------------------------------------------
(***************************************************************************)
(* The file of the positions.  A file is up to date when it holds the last *)
(* change or is being written; whoever writes writes the last change.  The *)
(* file that the next rename leaves is up to date, unless a save that was  *)
(* given up among the present ones has left it empty.                      *)
(***************************************************************************)
UpToDate(i) ==
  content[i] = positions \/ \E s \in Savers : savePc[s] = "write" /\ fd[s] = i

SavesLast == \A s \in Savers : savePc[s] \in {"open", "write"} => snapshot[s] = positions

RenameLeavesLast ==
  (\E s \in Savers : savePc[s] \in {"write", "rename"}) /\ ~failed =>
    UpToDate(IF tmp # NoFile THEN tmp ELSE file)

FileInv ==
  /\ PositionFileTypeOK
  /\ tmp # file
  /\ SavesLast
  /\ RenameLeavesLast
  /\ Latest

LEMMA FileInit == Init => FileInv
<1> SUFFICES ASSUME PositionFileInit PROVE FileInv
  BY DEF Init
<1>1. failed \in BOOLEAN
  BY DEF PositionFileInit
<1> QED
  BY <1>1, PositionFileAssumption
  DEF PositionFileInit, FileInv, PositionFileTypeOK, SavePhases, Inodes, NoFile,
      SavesLast, RenameLeavesLast, Latest, Loaded

LEMMA FileSteps ==
  ASSUME [Next]_vars
  PROVE  \/ UNCHANGED fileVars
         \/ \E s \in Savers : Change(s) \/ ChangeAndSave(s) \/ SaveStep(s)
         \/ LosePositions
BY DEF Next, Detect, Decide, Bought, NotBought, Positioned, Configured, Crash, vars, Savers

LEMMA ChangeKeepsFile ==
  ASSUME FileInv, NEW s \in Savers, Change(s) \/ ChangeAndSave(s)
  PROVE  FileInv'
<1>1. savePc' \in [Savers -> SavePhases] /\ snapshot' \in [Savers -> 0 .. MaxChanges]
      /\ positions' \in 0 .. MaxChanges /\ changes' \in 0 .. MaxChanges
  BY PositionFileAssumption
  DEF FileInv, PositionFileTypeOK, Change, ChangeAndSave, Goes, NextChange, SavePhases
<1>f. failed' \in BOOLEAN
  BY Zenon DEF FileInv, PositionFileTypeOK, Change, ChangeAndSave
<1>2. \A o \in Savers : savePc[o] \notin {"open", "write", "rename"}
  BY DEF Change, ChangeAndSave, Holding
<1>3. /\ savePc'[s] \in {"due", "open"}
      /\ savePc'[s] = "open" => snapshot'[s] = positions'
      /\ \A o \in Savers \ {s} : savePc'[o] = savePc[o]
  BY DEF FileInv, PositionFileTypeOK, Change, ChangeAndSave, Goes
<1> QED
  BY <1>1, <1>f, <1>2, <1>3
  DEF FileInv, PositionFileTypeOK, SavesLast, RenameLeavesLast, Latest,
      Change, ChangeAndSave

LEMMA SerialisingKeepsFile ==
  ASSUME FileInv, NEW s \in Savers, SaveUnderReadLock(s)
  PROVE  FileInv'
<1>1. savePc' = [savePc EXCEPT ![s] = "open"] /\ snapshot' = [snapshot EXCEPT ![s] = positions]
      /\ savePc[s] = "due"
  BY DEF SaveUnderReadLock, Goes
<1>2. \A i \in Inodes : UpToDate(i) => UpToDate(i)'
  BY <1>1 DEF UpToDate, FileInv, PositionFileTypeOK, SaveUnderReadLock
<1>r. Holding = {} => \A o \in Savers : savePc'[o] \notin {"write", "rename"}
  BY <1>1 DEF Holding, FileInv, PositionFileTypeOK
<1>f. /\ failed' \in BOOLEAN
      /\ ~failed' => ~failed \/ Holding = {}
  <2>1. failed' = (failed /\ Holding # {}) /\ failed \in BOOLEAN
    BY DEF SaveUnderReadLock, FileInv, PositionFileTypeOK
  <2> QED BY <2>1, Zenon
<1>3. PositionFileTypeOK'
  BY <1>1, <1>f DEF FileInv, PositionFileTypeOK, SaveUnderReadLock, SavePhases
<1>4. SavesLast' /\ Latest'
  BY <1>1 DEF FileInv, PositionFileTypeOK, SavesLast, Latest, SaveUnderReadLock
<1>5. RenameLeavesLast'
  BY <1>1, <1>2, <1>r, <1>f DEF FileInv, PositionFileTypeOK, RenameLeavesLast, SaveUnderReadLock
<1> QED BY <1>3, <1>4, <1>5 DEF FileInv, SaveUnderReadLock

LEMMA InodesHaveLeast ==
  ASSUME NEW F \in SUBSET Inodes, F # {}
  PROVE  \E i \in F : \A j \in F : i <= j
<1>1. CASE 0 \in F
  BY <1>1 DEF Inodes
<1>2. CASE 0 \notin F /\ 1 \in F
  BY <1>2 DEF Inodes
<1>3. CASE 0 \notin F /\ 1 \notin F /\ 2 \in F
  BY <1>3 DEF Inodes
<1>4. CASE 0 \notin F /\ 1 \notin F /\ 2 \notin F
  <2>1. \A i \in F : i = 3
    BY <1>4 DEF Inodes
  <2> QED BY <2>1
<1> QED BY <1>1, <1>2, <1>3, <1>4

\* two others can hold an inode open, positions.json is a third
LEMMA OneInodeFree ==
  ASSUME PositionFileTypeOK, NEW s \in Savers, savePc[s] = "open"
  PROVE  Inodes \ ({file} \cup {fd[o] : o \in {o \in Savers : savePc[o] = "write"}}) # {}
<1> DEFINE taken == {file} \cup {fd[o] : o \in {o \in Savers : savePc[o] = "write"}}
<1>1. PICK a \in Savers, b \in Savers : Savers \ {s} = {a, b}
  BY DEF Savers
<1>2. taken \subseteq {file, fd[a], fd[b]}
  BY <1>1
<1>3. \E i \in 0 .. 3 : i # file /\ i # fd[a] /\ i # fd[b]
  OBVIOUS
<1> QED BY <1>2, <1>3 DEF Inodes

LEMMA OpeningKeepsFile ==
  ASSUME FileInv, NEW s \in Savers, OpenTmp(s)
  PROVE  FileInv'
<1> DEFINE free == Inodes \ ({file} \cup {fd[o] : o \in {o \in Savers : savePc[o] = "write"}})
           least == CHOOSE i \in free : \A j \in free : i <= j
<1>1. savePc[s] = "open" /\ savePc' = [savePc EXCEPT ![s] = "write"]
  BY DEF OpenTmp, Goes
<1>2. least \in free
  BY <1>1, OneInodeFree, InodesHaveLeast DEF FileInv
<1>3. PICK inode \in Inodes :
        /\ inode # file
        /\ tmp' = inode
        /\ fd' = [fd EXCEPT ![s] = inode]
        /\ content' = [content EXCEPT ![inode] = Torn]
  BY <1>2 DEF OpenTmp, FileInv, PositionFileTypeOK
<1>u. UNCHANGED <<changes, positions, snapshot, file, failed>>
  BY DEF OpenTmp
<1>4. PositionFileTypeOK'
  BY <1>1, <1>3, <1>u DEF FileInv, PositionFileTypeOK, SavePhases
<1>5. tmp' # file'
  BY <1>3, <1>u
<1>6. SavesLast'
  BY <1>1 DEF FileInv, PositionFileTypeOK, SavesLast, OpenTmp
<1>7. RenameLeavesLast'
  BY <1>1, <1>3, <1>u
  DEF FileInv, PositionFileTypeOK, RenameLeavesLast, UpToDate, NoFile, Inodes
<1>8. Latest'
  BY <1>1 DEF FileInv, PositionFileTypeOK, Latest
<1> QED BY <1>4, <1>5, <1>6, <1>7, <1>8 DEF FileInv

LEMMA WritingKeepsFile ==
  ASSUME FileInv, NEW s \in Savers, WriteTmp(s)
  PROVE  FileInv'
<1>1. /\ savePc[s] = "write" /\ savePc' = [savePc EXCEPT ![s] = "rename"]
      /\ content' = [content EXCEPT ![fd[s]] = positions]
      /\ fd' = [fd EXCEPT ![s] = 0]
  BY DEF WriteTmp, Goes, FileInv, SavesLast
<1>2. PositionFileTypeOK'
  BY <1>1, PositionFileAssumption
  DEF FileInv, PositionFileTypeOK, WriteTmp, SavePhases, Inodes
<1>3. ASSUME NEW i \in Inodes, UpToDate(i) PROVE UpToDate(i)'
  <2>1. CASE i = fd[s]
    BY <1>1, <2>1 DEF FileInv, PositionFileTypeOK, UpToDate, WriteTmp
  <2>2. CASE i # fd[s]
    <3>1. content'[i] = content[i] /\ positions' = positions
      BY <1>1, <2>2 DEF FileInv, PositionFileTypeOK, WriteTmp
    <3>2. \A o \in Savers : savePc[o] = "write" /\ fd[o] = i => savePc'[o] = "write" /\ fd'[o] = i
      BY <1>1, <2>2 DEF FileInv, PositionFileTypeOK
    <3> QED BY <1>3, <3>1, <3>2 DEF UpToDate
  <2> QED BY <2>1, <2>2
<1>4. SavesLast'
  BY <1>1 DEF FileInv, PositionFileTypeOK, SavesLast, WriteTmp
<1>5. RenameLeavesLast'
  BY <1>1, <1>3 DEF FileInv, PositionFileTypeOK, RenameLeavesLast, WriteTmp
<1>6. Latest'
  BY <1>1 DEF FileInv, PositionFileTypeOK, Latest
<1> QED BY <1>2, <1>4, <1>5, <1>6 DEF FileInv, WriteTmp

LEMMA RenamingKeepsFile ==
  ASSUME FileInv, NEW s \in Savers, RenameTmp(s)
  PROVE  FileInv'
<1>1. savePc[s] = "rename" /\ savePc' = [savePc EXCEPT ![s] = "idle"]
  BY DEF RenameTmp, Goes
<1>2. ~failed => UpToDate(IF tmp # NoFile THEN tmp ELSE file)
  BY <1>1 DEF FileInv, RenameLeavesLast
<1>f. failed' = failed
  BY DEF RenameTmp
<1>3. PositionFileTypeOK' /\ tmp' # file'
  BY <1>1, PositionFileAssumption
  DEF FileInv, PositionFileTypeOK, RenameTmp, SavePhases, NoFile, Inodes
<1>4. tmp' = NoFile
  BY DEF RenameTmp
<1>5. content'[file'] = content[IF tmp # NoFile THEN tmp ELSE file]
      /\ file' = IF tmp # NoFile THEN tmp ELSE file
  BY DEF FileInv, PositionFileTypeOK, RenameTmp
<1>6. ~failed => UpToDate(file)'
  <2>1. \A o \in Savers : savePc[o] = "write" => savePc'[o] = "write" /\ fd'[o] = fd[o]
    BY <1>1 DEF FileInv, PositionFileTypeOK, RenameTmp
  <2> QED BY <1>2, <1>5, <2>1 DEF UpToDate, RenameTmp
<1>7. SavesLast'
  BY <1>1 DEF FileInv, PositionFileTypeOK, SavesLast, RenameTmp
<1>8. RenameLeavesLast'
  BY <1>4, <1>6, <1>f DEF RenameLeavesLast
<1>9. Latest'
  BY <1>3, <1>6, <1>f, PositionFileAssumption
  DEF UpToDate, Latest, Loaded, PositionFileTypeOK
<1> QED BY <1>3, <1>7, <1>8, <1>9 DEF FileInv

LEMMA FailingKeepsFile ==
  ASSUME FileInv, NEW s \in Savers, SaveFails(s)
  PROVE  FileInv'
BY PositionFileAssumption
DEF FileInv, PositionFileTypeOK, SaveFails, SavePhases, Inodes, SavesLast, RenameLeavesLast,
    Latest

LEMMA LosingKeepsFile == FileInv /\ LosePositions => FileInv'
<1> SUFFICES ASSUME FileInv, LosePositions PROVE FileInv'
  OBVIOUS
<1>1. failed' \in BOOLEAN /\ (~failed' => positions' = Loaded)
  BY DEF LosePositions
<1>2. positions' \in 0 .. MaxChanges
  BY PositionFileAssumption DEF FileInv, PositionFileTypeOK, LosePositions, Loaded
<1>3. UNCHANGED <<changes, tmp, file, content>> /\ \A s \in Savers : savePc'[s] = "idle"
  BY DEF LosePositions
<1>4. PositionFileTypeOK'
  BY <1>1, <1>2, <1>3, PositionFileAssumption
  DEF FileInv, PositionFileTypeOK, LosePositions, SavePhases, Inodes
<1> QED
  BY <1>1, <1>3, <1>4 DEF FileInv, SavesLast, RenameLeavesLast, Latest, Loaded

LEMMA FileKept == FileInv /\ [Next]_vars => FileInv'
<1> SUFFICES ASSUME FileInv, [Next]_vars PROVE FileInv'
  OBVIOUS
<1>1. CASE UNCHANGED fileVars
  BY <1>1
  DEF fileVars, FileInv, PositionFileTypeOK, SavesLast, RenameLeavesLast, UpToDate, Latest, Loaded
<1>2. ASSUME NEW s \in Savers, Change(s) \/ ChangeAndSave(s) \/ SaveStep(s) PROVE FileInv'
  BY <1>2, ChangeKeepsFile, SerialisingKeepsFile, OpeningKeepsFile, WritingKeepsFile,
     RenamingKeepsFile, FailingKeepsFile
  DEF SaveStep
<1> QED BY <1>1, <1>2, LosingKeepsFile, FileSteps

(***************************************************************************)
(* save_positions_to_file: when no save is due or under way, and none of   *)
(* the last to overlap has failed, positions.json is whole and holds the   *)
(* last change, although the writers share one temporary file, the saves   *)
(* under a read lock are not kept apart, and earlier ones may have been    *)
(* given up at any point.                                                  *)
(***************************************************************************)
THEOREM NothingLost == Spec => []Latest
<1>1. FileInv => Latest
  BY DEF FileInv
<1> QED BY <1>1, FileInit, FileKept, PTL DEF Spec
-----------------------------------------------------------------------------
(***************************************************************************)
(* The screen.  The arithmetic of the rules, then that what was sent has   *)
(* passed them.                                                            *)
(***************************************************************************)
LEMMA NarrowedBelow ==
  ASSUME NEW n \in Nat
  PROVE  Narrowed(n) \in Nat /\ Narrowed(n) <= n
BY DEF Narrowed

\* a replayed buy is capped, whatever it was computed from
LEMMA ReplayCapped ==
  ASSUME NEW s \in Files, NEW t \in Trades, Replays(s, t), s.maxPosition > 0
  PROVE  Spend(s, t) <= s.maxPosition
<1> DEFINE wanted == IF s.sizeMode = "one_to_one" THEN t.sol
                     ELSE IF s.mirrorPercent > 0 THEN Rounded(t.sol * s.mirrorPercent, 100)
                     ELSE s.buyAmount
<1>1. t.sol \in Nat /\ s.mirrorPercent \in Nat /\ s.buyAmount \in Nat /\ s.maxPosition \in Nat
  BY SessionAssumption DEF Replays
<1>2. \A x \in Int : Rounded(x, 100) \in Int
  BY DEF Rounded
<1>3. t.sol * s.mirrorPercent \in Int
  BY <1>1
<1>4. wanted \in Int
  BY <1>1, <1>2, <1>3
<1>5. \A w \in Int : AtLeastOne(Capped(w, s.maxPosition)) <= s.maxPosition
  BY <1>1 DEF AtLeastOne, Capped
<1>6. Spend(s, t) = AtLeastOne(Capped(wanted, s.maxPosition))
  BY DEF Spend, ReplaySol
<1> HIDE DEF wanted
<1> QED BY <1>4, <1>5, <1>6

\* the one entry there may be is the one that is compared
LEMMA FeeFound ==
  ASSUME NEW c \in Coins, Whole(c), NEW fee \in ActualFees(c)
  PROVE  fee \in Nat /\ fee = TransferFee(c)
<1>1. PICK n \in Nat : /\ DOMAIN c.extensions = 1 .. n
                       /\ \A i \in 1 .. n : c.extensions[i].fee \in Nat
  <2>1. c.extensions \in Seq(Entries)
    BY SessionAssumption
  <2>2. \A i \in 1 .. Len(c.extensions) :
          c.extensions[i] \in Entries
    BY <2>1
  <2>3. Len(c.extensions) \in Nat /\ DOMAIN c.extensions = 1 .. Len(c.extensions)
    BY <2>1
  <2>4. \A i \in 1 .. Len(c.extensions) : c.extensions[i].fee \in Nat
    BY <2>2 DEF Entries
  <2> QED BY <2>3, <2>4
<1>2. PICK i \in 1 .. n :
        c.token2022 /\ c.extensions[i].kind = "fee" /\ fee = c.extensions[i].fee
  BY <1>1 DEF ActualFees
<1> DEFINE fees == {j \in Reached(c.extensions) : c.extensions[j].kind = "fee"}
<1>3. Reached(c.extensions) = 1 .. n
  BY <1>1 DEF Whole, Reached
<1>4. fees = {i}
  BY <1>1, <1>2, <1>3, SessionAssumption
<1>5. Min(fees) = i
  BY <1>4 DEF Min
<1>6. TransferFee(c) = c.extensions[i].fee
  BY <1>2, <1>4, <1>5 DEF TransferFee
<1> QED BY <1>1, <1>2, <1>6, SessionAssumption

ScreenInv ==
  /\ inForce \in Files
  /\ task = "screening" => mine \in Files
  /\ task = "sent" =>
       /\ order.settings \in Files /\ order.trade \in Trades /\ order.coin \in Coins
       /\ LetThrough(order.settings, order.trade, order.coin, order.liquidity, FALSE)
       /\ order.lamports = Spend(order.settings, order.trade)

LEMMA ScreenInit == Init => ScreenInv
BY DEF Init, SettingsInit, ScreenInv

LEMMA ScreenKept == WatchInv /\ WatchInv' /\ ScreenInv /\ [Next]_vars => ScreenInv'
<1> SUFFICES ASSUME WatchInv, WatchInv', ScreenInv, [Next]_vars PROVE ScreenInv'
  OBVIOUS
<1>1. inForce' \in Files
  BY DEF WatchInv, SettingsTypeOK
<1>2. CASE UNCHANGED <<task, mine, order>>
  BY <1>1, <1>2 DEF ScreenInv
<1>3. CASE Detect
  BY <1>1, <1>3 DEF Detect, ScreenInv
<1>4. CASE Decide
  <2>1. PICK t \in Trades, c \in Coins, l \in Liquidities, listed \in BOOLEAN :
          IF LetThrough(mine, t, c, l, listed)
            THEN /\ task' = "sent"
                 /\ order' = [settings |-> mine, trade |-> t, coin |-> c,
                              liquidity |-> l, lamports |-> Spend(mine, t)]
            ELSE task' = "idle" /\ order' = order
    BY <1>4 DEF Decide
  <2>2. mine \in Files
    BY <1>4 DEF Decide, ScreenInv
  <2>3. LetThrough(mine, t, c, l, listed) => LetThrough(mine, t, c, l, FALSE)
    BY DEF LetThrough
  <2>4. task' # "screening"
    BY <2>1
  <2>5. CASE LetThrough(mine, t, c, l, listed)
    <3>1. LetThrough(mine, t, c, l, FALSE)
      BY <2>3, <2>5
    <3>2. /\ order'.settings = mine /\ order'.trade = t /\ order'.coin = c
          /\ order'.liquidity = l /\ order'.lamports = Spend(mine, t)
      BY <2>1, <2>5
    <3> QED BY <1>1, <2>2, <2>4, <3>1, <3>2 DEF ScreenInv
  <2>6. CASE ~ LetThrough(mine, t, c, l, listed)
    BY <1>1, <2>1, <2>4, <2>6 DEF ScreenInv
  <2> QED BY <2>5, <2>6
<1>5. CASE Bought \/ NotBought \/ Crash
  BY <1>1, <1>5 DEF Bought, NotBought, Crash, ScreenInv
<1> QED
  BY <1>2, <1>3, <1>4, <1>5 DEF Next, Positioned, Configured, vars

LEMMA ScreenIsStrict == ScreenInv => NeverLax
<1> SUFFICES ASSUME ScreenInv, task = "sent" PROVE NeverLax
  BY DEF NeverLax
<1> DEFINE s == order.settings
           c == order.coin
           t == order.trade
<1>1. /\ s \in Files /\ t \in Trades /\ c \in Coins
      /\ c.readable => CoinPasses(s, c) /\ TradePasses(s, t, order.liquidity)
      /\ order.lamports = Spend(s, t)
  BY DEF ScreenInv, LetThrough
<1> HIDE DEF s, c, t
<1>2. ASSUME c.readable, s.rejectFee, Whole(c), NEW fee \in ActualFees(c)
      PROVE  fee <= s.maxFee
  <2>1. s.maxFee \in Nat
    BY <1>1, SessionAssumption
  <2>2. fee \in Nat /\ fee = TransferFee(c)
    BY <1>1, <1>2, FeeFound
  <2>3. ~ (fee > Narrowed(s.maxFee))
    BY <1>1, <1>2, <2>2 DEF CoinPasses
  <2> QED BY <2>1, <2>2, <2>3, NarrowedBelow
<1>3. Replays(s, t) /\ s.maxPosition > 0 => order.lamports <= s.maxPosition
  BY <1>1, ReplayCapped
<1>4. c.readable =>
        /\ s.rejectMintAuthority => ~ c.mintAuthority
        /\ s.rejectFreezeAuthority => ~ c.freezeAuthority
        /\ s.rejectMutable => c.metadata # "mutable"
        /\ s.saferSniping /\ s.maxLiquidity > 0 /\ order.liquidity # Unknown =>
             order.liquidity <= s.maxLiquidity
  BY <1>1 DEF CoinPasses, TradePasses
<1> QED BY <1>2, <1>3, <1>4 DEF NeverLax, s, c, t

(***************************************************************************)
(* pre_buy_safety_check, compute_replay_size: no buy that was sent breaks  *)
(* a rule of the settings it was decided with, although they may have been *)
(* replaced meanwhile.                                                     *)
(***************************************************************************)
THEOREM RulesKept == Spec => []NeverLax
<1>1. WatchInv /\ ScreenInv => NeverLax
  BY ScreenIsStrict
<1> QED
  BY <1>1, WatchInit, WatchKept, ScreenInit, ScreenKept, PTL DEF Spec
=============================================================================

---------------------------- MODULE PositionFile ----------------------------
(***************************************************************************)
(* positions.json, and who writes it.                                      *)
(*                                                                         *)
(* The positions are the number of the last change made to them, not       *)
(* counting the marks (pending_sell, migrated) that the code never saves   *)
(* by themselves.  Three tasks change and save them: a buy task and a      *)
(* validation change them under the write lock, let it go, and save under  *)
(* a read lock later; the sell executor changes and saves under the write  *)
(* lock.  A save writes a temporary file and renames it, and the temporary *)
(* file is the same for all: names stand for inodes, which is what a       *)
(* writer holds on to.                                                     *)
(***************************************************************************)
EXTENDS Integers, FiniteSets

CONSTANTS
  MaxChanges,   \* bound: changes of the positions
  Torn          \* the content of a file that is being written

ASSUME PositionFileAssumption == MaxChanges \in Nat /\ Torn \notin Nat

VARIABLES
  changes,      \* changes so far
  positions,    \* the one the map in memory is at, 0 when it is empty
  savePc,       \* the place of each task
  snapshot,     \* what it has serialised
  fd,           \* the inode it writes
  tmp, file,    \* the inode of positions.json.tmp, if there is one, and of positions.json
  content,      \* of each inode
  failed        \* one of the saves under way, or of those that were last, has failed,
                \* or the last load

fileVars == <<changes, positions, savePc, snapshot, fd, tmp, file, content, failed>>

Savers == {"buy", "validation", "sell"}
UnderWriteLock == {"sell"}
SavePhases == {"idle", "due", "open", "write", "rename"}
Inodes == 0 .. 3
NoFile == -1

HoldingUntilRead ==           \* mutant: the lock is dropped once the map is serialised
  {s \in UnderWriteLock : savePc[s] \in {"open", "write", "rename"}}

\* those inside a save, with the lock they took for it
Holding == {s \in Savers : savePc[s] \in {"open", "write", "rename"}}

PositionFileInit ==
  /\ changes = 0
  /\ positions = 0
  /\ savePc = [s \in Savers |-> "idle"]
  /\ snapshot = [s \in Savers |-> 0]
  /\ fd = [s \in Savers |-> 0]
  /\ tmp = NoFile
  /\ file = 0
  /\ content = [i \in Inodes |-> 0]
  /\ failed = FALSE

PositionFileTypeOK ==
  /\ changes \in 0 .. MaxChanges
  /\ positions \in 0 .. MaxChanges
  /\ savePc \in [Savers -> SavePhases]
  /\ snapshot \in [Savers -> 0 .. MaxChanges]
  /\ fd \in [Savers -> Inodes]
  /\ tmp \in Inodes \cup {NoFile}
  /\ file \in Inodes
  /\ content \in [Inodes -> (0 .. MaxChanges) \cup {Torn}]
  /\ failed \in BOOLEAN

-----------------------------------------------------------------------------
Goes(s, from, to) == savePc[s] = from /\ savePc' = [savePc EXCEPT ![s] = to]

NextChange ==
  /\ changes < MaxChanges
  /\ changes' = changes + 1
  /\ positions' = changes'

(***************************************************************************)
(* add_position inserts, a validation removes; the save is due.            *)
(***************************************************************************)
Change(s) ==
  /\ s \notin UnderWriteLock
  /\ Holding = {}
  /\ Goes(s, "idle", "due")
  /\ NextChange
  /\ UNCHANGED <<snapshot, fd, tmp, file, content, failed>>

(***************************************************************************)
(* persist: the map serialised under a read lock.                          *)
(***************************************************************************)
SaveUnderReadLock(s) ==
  /\ Holding \cap UnderWriteLock = {}
  /\ Goes(s, "due", "open")
  /\ snapshot' = [snapshot EXCEPT ![s] = positions]
  /\ failed' = (failed /\ Holding # {})
  /\ UNCHANGED <<changes, positions, fd, tmp, file, content>>

(***************************************************************************)
(* update_after_sell, accumulate_position.                                 *)
(***************************************************************************)
ChangeAndSave(s) ==
  /\ s \in UnderWriteLock
  /\ Holding = {}
  /\ Goes(s, "idle", "open")
  /\ NextChange
  /\ snapshot' = [snapshot EXCEPT ![s] = positions']
  /\ failed' = FALSE
  /\ UNCHANGED <<fd, tmp, file, content>>

(***************************************************************************)
(* fs::write opens the temporary file, which empties it when it is there.  *)
(***************************************************************************)
OpenTmp(s) ==
  /\ Goes(s, "open", "write")
  /\ LET free == Inodes \ ({file} \cup {fd[o] : o \in {o \in Savers : savePc[o] = "write"}})
         inode == IF tmp # NoFile THEN tmp ELSE CHOOSE i \in free : \A j \in free : i <= j
     IN  /\ tmp' = inode
         /\ fd' = [fd EXCEPT ![s] = inode]
         /\ content' = [content EXCEPT ![inode] = Torn]
  /\ UNCHANGED <<changes, positions, snapshot, file, failed>>

WriteTmp(s) ==
  /\ Goes(s, "write", "rename")
  /\ content' = [content EXCEPT ![fd[s]] = snapshot[s]]
  /\ snapshot' = [snapshot EXCEPT ![s] = 0]
  /\ fd' = [fd EXCEPT ![s] = 0]
  /\ UNCHANGED <<changes, positions, tmp, file, failed>>

(***************************************************************************)
(* There is nothing to rename when another one came first.                 *)
(***************************************************************************)
RenameTmp(s) ==
  /\ Goes(s, "rename", "idle")
  /\ IF tmp = NoFile
       THEN UNCHANGED <<tmp, file, content>>
       ELSE /\ file' = tmp
            /\ tmp' = NoFile
            /\ content' = [content EXCEPT ![file] = 0]
  /\ UNCHANGED <<changes, positions, snapshot, fd, failed>>

(***************************************************************************)
(* Opening, writing or renaming fails: the save is given up and not tried  *)
(* again.  What it has opened stays as it is, for another one to rename.   *)
(***************************************************************************)
SaveFails(s) ==
  /\ s \in Holding
  /\ savePc' = [savePc EXCEPT ![s] = "idle"]
  /\ snapshot' = [snapshot EXCEPT ![s] = 0]
  /\ fd' = [fd EXCEPT ![s] = 0]
  /\ failed' = TRUE
  /\ UNCHANGED <<changes, positions, tmp, file, content>>

SaveStep(s) ==
  \/ SaveUnderReadLock(s) \/ OpenTmp(s) \/ WriteTmp(s) \/ RenameTmp(s)
  \/ SaveFails(s)

(***************************************************************************)
(* A crash leaves what the next start will load from the file; what cannot *)
(* be parsed is no positions, and so is a file that cannot be read.        *)
(***************************************************************************)
Loaded == IF content[file] = Torn THEN 0 ELSE content[file]

LosePositions ==
  /\ positions' \in {Loaded, 0}
  /\ failed' = (positions' # Loaded)
  /\ savePc' = [s \in Savers |-> "idle"]
  /\ snapshot' = [s \in Savers |-> 0]
  /\ fd' = [s \in Savers |-> 0]
  /\ UNCHANGED <<changes, tmp, file, content>>

-----------------------------------------------------------------------------
(***************************************************************************)
(* When no save is due or under way, a crash loses nothing: the file is    *)
(* whole and holds the last change, however the saves were interleaved,    *)
(* whoever renamed whose file, and whatever an earlier save that failed or *)
(* an earlier crash has left.  What has failed must not be among the saves *)
(* that overlapped with the last one: nothing tries them again.            *)
(***************************************************************************)
Latest == (\A s \in Savers : savePc[s] = "idle") /\ ~failed => Loaded = positions

(***************************************************************************)
(* Not so in the code, then: after a save that failed the file lags until  *)
(* the next change, with nothing left to do.                               *)
(***************************************************************************)
AlwaysLatest == (\A s \in Savers : savePc[s] = "idle") => Loaded = positions

(***************************************************************************)
(* Not so in the code, which calls the save atomic: a task that opens the  *)
(* temporary file another one is about to rename leaves positions.json     *)
(* empty until it has written, and a crash there loses every position.     *)
(***************************************************************************)
FileWhole == content[file] # Torn
=============================================================================

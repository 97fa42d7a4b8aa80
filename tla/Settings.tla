------------------------------ MODULE Settings ------------------------------
(***************************************************************************)
(* config.toml, the settings in force, and the watcher that brings a       *)
(* changed file into force.                                                *)
(*                                                                         *)
(* Of the settings only what decides whether they are accepted and what a  *)
(* buy task is screened by is kept.  Percentages and amounts are integers; *)
(* a URL is its scheme, "bad" when it cannot be parsed or has no host.     *)
(***************************************************************************)
EXTENDS Integers, Sequences, SequencesExt

CONSTANTS
  Files,        \* what config.toml may hold, a set of settings
  Unreadable,   \* a config.toml that cannot be parsed
  MaxEdits      \* bound: changes of config.toml

ASSUME SettingsAssumption == Unreadable \notin Files /\ MaxEdits \in Nat

VARIABLES
  config,       \* the content of config.toml
  edits,        \* changes so far
  notified,     \* the watcher has been told of a change
  untold,       \* config was changed with the watcher not told, and not read since
  watched,      \* the watch on config.toml is in place
  watchPc,      \* the watcher's place; "down" when there is no process
  seen,         \* what it has read of the file
  inForce       \* the settings in the ArcSwap

settingsVars == <<config, edits, notified, untold, watched, watchPc, seen, inForce>>

WatchPhases == {"down", "starting", "waiting", "settling", "reading", "storing"}
Running == watchPc \notin {"down", "starting"}

-----------------------------------------------------------------------------
(* validate.                                                               *)

LevelsValid(levels, sign) ==
  /\ Len(levels) \in 1 .. 4
  /\ \A i \in DOMAIN levels :
       sign * levels[i].trigger > 0 /\ levels[i].sell \in 1 .. 100
  /\ FoldSeq(LAMBDA level, sum : level.sell + sum, 0, levels) <= 100

(***************************************************************************)
(* A key that is not set is not looked at.                                 *)
(***************************************************************************)
KeysValid(s) == s.keys \subseteq {"valid"}

HttpUrl(url) == url \in {"http", "https"}
WsUrl(url) == url \in {"ws", "wss"}
AnyUrl(url) == url # "bad"

UrlsValid(s) ==
  /\ s.rpcUrls # {} /\ \A url \in s.rpcUrls : HttpUrl(url)
  /\ s.wsUrls # {} /\ \A url \in s.wsUrls : WsUrl(url)
  /\ \A url \in s.senderUrls : HttpUrl(url)
  /\ \A url \in s.streamUrls : AnyUrl(url)    \* ShredStream, Geyser, QUIC
  /\ s.pumpportal => s.portalUrls # {} /\ \A url \in s.portalUrls : WsUrl(url)

LimitsValid(s) ==
  /\ s.buyAmount > 0
  /\ s.timeout > 0 /\ s.cacheCapacity > 0 /\ s.maxHolded > 0
  /\ s.maxLiquidity >= s.minLiquidity
  /\ s.copyMode \in {"mirror", "replay"}
  /\ s.sizeMode \in {"proportional", "one_to_one"}
  /\ s.programValid

Valid(s) ==
  /\ LevelsValid(s.tp, 1)
  /\ LevelsValid(s.sl, -1)
  /\ LimitsValid(s)
  /\ KeysValid(s)
  /\ UrlsValid(s)

(***************************************************************************)
(* from_file, then validate.                                               *)
(***************************************************************************)
Accepted(c) == c # Unreadable /\ Valid(c)

-----------------------------------------------------------------------------
(***************************************************************************)
(* Before the first start.                                                 *)
(***************************************************************************)
SettingsInit ==
  /\ config \in Files
  /\ edits = 0
  /\ notified = FALSE
  /\ untold = FALSE
  /\ watched = FALSE
  /\ watchPc = "down"
  /\ seen = Unreadable
  /\ inForce = config

SettingsTypeOK ==
  /\ config \in Files \cup {Unreadable}
  /\ edits \in 0 .. MaxEdits
  /\ notified \in BOOLEAN
  /\ untold \in BOOLEAN
  /\ watched \in BOOLEAN
  /\ watchPc \in WatchPhases
  /\ seen \in Files \cup {Unreadable}
  /\ inForce \in Files

(***************************************************************************)
(* Somebody changes the file, and the watcher is told or not; any number   *)
(* of notifications that wait are as good as one.                          *)
(***************************************************************************)
Changed(told) ==
  /\ edits < MaxEdits
  /\ edits' = edits + 1
  /\ \E c \in (Files \cup {Unreadable}) \ {config} : config' = c
  /\ notified' = (notified \/ told)
  /\ untold' = (untold \/ ~told)
  /\ UNCHANGED <<watchPc, seen, inForce>>

(***************************************************************************)
(* In place: a Modify event, if the watch is there.                        *)
(***************************************************************************)
Edit == Changed(watched) /\ UNCHANGED watched

(***************************************************************************)
(* Another file takes the name, as when an editor saves by renaming.  The  *)
(* watch is on the file that is gone, and goes with it; what the watcher   *)
(* hears of that is a Modify event (of the metadata, of the name) or a     *)
(* Remove event, which it drops.                                           *)
(***************************************************************************)
Replace ==
  /\ \E told \in {FALSE, watched} : Changed(told)
  /\ watched' = FALSE

(***************************************************************************)
(* The process starts only with settings it accepts.  The watcher is the   *)
(* last thing it starts; when the watch cannot be set up, that is logged   *)
(* and the process goes on with nobody to tell.                            *)
(***************************************************************************)
LoadSettings ==
  /\ watchPc = "down"
  /\ Accepted(config)
  /\ inForce' = config
  /\ untold' = FALSE
  /\ watchPc' = "starting"
  /\ UNCHANGED <<config, edits, notified, watched, seen>>

StartWatching ==
  /\ watchPc = "starting"
  /\ watchPc' = "waiting"
  /\ watched' \in BOOLEAN
  /\ UNCHANGED <<config, edits, notified, untold, seen, inForce>>

Wake ==
  /\ watchPc = "waiting"
  /\ notified
  /\ notified' = FALSE
  /\ watchPc' = "settling"
  /\ UNCHANGED <<config, edits, untold, watched, seen, inForce>>

(***************************************************************************)
(* Half a second later, whatever was told meanwhile is drained.            *)
(***************************************************************************)
Drain ==
  /\ watchPc = "settling"
  /\ notified' = FALSE
  /\ watchPc' = "reading"
  /\ UNCHANGED <<config, edits, untold, watched, seen, inForce>>

Read ==
  /\ watchPc = "reading"
  /\ seen' = config
  /\ untold' = FALSE
  /\ watchPc' = "storing"
  /\ UNCHANGED <<config, edits, notified, watched, inForce>>

StoreThenDrain ==             \* mutant: what was told is drained after the reading
  /\ watchPc = "storing"
  /\ inForce' = IF Accepted(seen) THEN seen ELSE inForce
  /\ seen' = Unreadable
  /\ notified' = FALSE
  /\ watchPc' = "waiting"
  /\ UNCHANGED <<config, edits, untold, watched>>

(***************************************************************************)
(* A file that is not accepted leaves the old settings in force.           *)
(***************************************************************************)
Store ==
  /\ watchPc = "storing"
  /\ inForce' = IF Accepted(seen) THEN seen ELSE inForce
  /\ seen' = Unreadable
  /\ watchPc' = "waiting"
  /\ UNCHANGED <<config, edits, notified, untold, watched>>

WatchStep == StartWatching \/ Wake \/ Drain \/ Read \/ Store

(***************************************************************************)
(* The process is gone, and the watch, and what the watcher was told.      *)
(***************************************************************************)
SettingsCrash ==
  /\ watchPc # "down"
  /\ watchPc' = "down"
  /\ watched' = FALSE
  /\ notified' = FALSE
  /\ seen' = Unreadable
  /\ UNCHANGED <<config, edits, untold, inForce>>

-----------------------------------------------------------------------------
(***************************************************************************)
(* When the watcher has nothing to do, the settings in force are those of  *)
(* the file, whatever it was doing when the file was written and however   *)
(* often.  Two exceptions: a file that is not accepted, and one that was   *)
(* changed without the watcher being told, because the watch was not there *)
(* yet, could not be set up, or was lost when the file was replaced.  Then *)
(* the next round of the watcher, if there is one, brings it into force.   *)
(***************************************************************************)
FileInForce ==
  watchPc = "waiting" /\ ~ notified /\ ~ untold /\ Accepted(config)
    => inForce = config

(***************************************************************************)
(* Not so in the code: what is written between from_file and the start of  *)
(* the watcher, seconds later, is in force only after the next change; and *)
(* after config.toml was replaced, no change is.                           *)
(***************************************************************************)
FileAlwaysInForce ==
  watchPc = "waiting" /\ ~ notified /\ Accepted(config) => inForce = config
=============================================================================

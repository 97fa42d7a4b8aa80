------------------------------- MODULE Startup -------------------------------
(***************************************************************************)
(* The start of main: the key panel, then the two caches that background   *)
(* tasks fill, each awaited for a limited time, then the fee recipients,   *)
(* awaited without limit, the warm-up of connections, the trading loop.    *)
(* The blockhash cache holds the last block height its entry is valid at.  *)
(* What the trading loop does with it is in HeliusRetry.                   *)
(***************************************************************************)
EXTENDS Integers

CONSTANTS
  PanelToken,   \* PANEL_AUTH_TOKEN is set, long enough, and the port is free
  Validity,     \* blocks a fresh blockhash lives (150 on Solana)
  Empty,        \* a cache that has never been filled
  MaxHeight     \* bound: last block height of a behaviour

ASSUME StartupAssumption ==
  /\ PanelToken \in BOOLEAN
  /\ Validity \in Nat
  /\ Empty \notin Nat
  /\ MaxHeight \in Nat

Caches == {"blockhash", "leader"}

VARIABLES
  phase,     \* what main is doing
  awaited,   \* the cache it waits for
  height,    \* block height of the chain
  started,   \* caches whose refresh task has been spawned
  cache,     \* the entry of each cache
  told,      \* caches whose first fill has been announced (notify_waiters)
  heard      \* the wait that main is in has been woken

main == <<phase, awaited, started, heard>>

startVars == <<main, height, cache, told>>

(***************************************************************************)
(* A wait has two steps: it looks whether the cache is filled, and then    *)
(* begins to listen for the announcement.                                  *)
(***************************************************************************)
Phases == {"panel", "check", "listen", "wait", "fees", "warm", "running"}

StartInit ==
  /\ phase = "panel"
  /\ awaited = "blockhash"
  /\ height = 0
  /\ started = {}
  /\ cache = [c \in Caches |-> Empty]
  /\ told = {}
  /\ heard = FALSE

StartTypeOK ==
  /\ phase \in Phases
  /\ awaited \in Caches
  /\ height \in 0 .. MaxHeight
  /\ started \subseteq Caches
  /\ cache \in [Caches -> Nat \cup {Empty}]
  /\ told \subseteq Caches
  /\ heard \in BOOLEAN

-----------------------------------------------------------------------------
(* main.                                                                   *)

(***************************************************************************)
(* start_panel is awaited.  It returns at once when the panel is off; when *)
(* it is on, it serves connections without end and main goes no further.   *)
(***************************************************************************)
PanelOff ==
  /\ phase = "panel" /\ ~PanelToken
  /\ phase' = "check"
  /\ started' = {"blockhash"}
  /\ UNCHANGED <<awaited, height, cache, told, heard>>

(***************************************************************************)
(* The wait for one cache is over: the other is started and awaited, or    *)
(* the fee recipients are asked for.                                       *)
(***************************************************************************)
Proceed ==
  /\ phase' = (IF awaited = "blockhash" THEN "check" ELSE "fees")
  /\ awaited' = "leader"
  /\ started' = Caches
  /\ heard' = FALSE
  /\ UNCHANGED <<height, cache, told>>

CheckFilled ==
  /\ phase = "check"
  /\ cache[awaited] # Empty
  /\ Proceed

CheckEmpty ==
  /\ phase = "check"
  /\ cache[awaited] = Empty
  /\ phase' = "listen"
  /\ UNCHANGED <<awaited, height, started, cache, told, heard>>

Listen ==
  /\ phase = "listen"
  /\ phase' = "wait"
  /\ UNCHANGED <<awaited, height, started, cache, told, heard>>

Woken ==
  /\ phase = "wait"
  /\ heard
  /\ Proceed

TimesOutFilled ==             \* mutant: the wait has no time limit
  /\ phase = "wait"
  /\ ~heard /\ awaited \in told
  /\ Proceed

TimesOut ==
  /\ phase = "wait"
  /\ ~heard
  /\ Proceed

(***************************************************************************)
(* Both calls have returned, with an answer or an error.  Their client has *)
(* no time-out.                                                            *)
(***************************************************************************)
FeesFetched ==
  /\ phase = "fees"
  /\ phase' = "warm"
  /\ UNCHANGED <<awaited, height, started, cache, told, heard>>

(***************************************************************************)
(* Each endpoint has answered, failed or let five seconds pass.            *)
(***************************************************************************)
Warmed ==
  /\ phase = "warm"
  /\ phase' = "running"
  /\ UNCHANGED <<awaited, height, started, cache, told, heard>>

-----------------------------------------------------------------------------
(* The refresh tasks.  A request that fails changes nothing.               *)

Refresh(c) ==
  /\ c \in started
  /\ cache' = [cache EXCEPT ![c] = IF c = "blockhash" THEN height + Validity ELSE height]
  /\ UNCHANGED <<main, height, told>>

Announce(c) ==
  /\ cache[c] # Empty /\ c \notin told
  /\ told' = told \cup {c}
  /\ heard' = (heard \/ (phase = "wait" /\ awaited = c))
  /\ UNCHANGED <<phase, awaited, started, height, cache>>

Block ==
  /\ height < MaxHeight
  /\ height' = height + 1
  /\ UNCHANGED <<main, cache, told>>

OwnStep == PanelOff \/ CheckFilled \/ CheckEmpty \/ Listen \/ Woken \/ TimesOut \/ Warmed

MainStep == OwnStep \/ FeesFetched

CacheStep == \E c \in Caches : Refresh(c) \/ Announce(c)

(***************************************************************************)
(* Fairness: main is scheduled, a timer fires, a spawned task goes on.     *)
(* Nothing is assumed of the RPC node: a refresh may fail for ever, and    *)
(* the request for the fee recipients may stay without an answer.          *)
(***************************************************************************)
StartFairness ==
  /\ WF_startVars(OwnStep)
  /\ \A c \in Caches : WF_startVars(Announce(c))

-----------------------------------------------------------------------------
(***************************************************************************)
(* Without the panel the bot reaches its trading loop, however the         *)
(* announcements race with the waits, although the caches may never be     *)
(* filled; only a request for the fee recipients that the node accepts and *)
(* never answers keeps it.                                                 *)
(***************************************************************************)
BotStarts == ~PanelToken => <>(phase = "running") \/ <>[](phase = "fees")

-----------------------------------------------------------------------------
(* What the documentation says and the code does not do.                   *)

(***************************************************************************)
(* INSTALL: the panel is "built into the bot", enabled by a token "before  *)
(* starting the bot"; the bot starts with it as well.                      *)
(***************************************************************************)
StartsWithPanel == <>(phase = "running") \/ <>[](phase = "fees")

(***************************************************************************)
(* main: "Failed to cache fee_recipients, will fetch per-buy".  The start  *)
(* does without them.                                                      *)
(***************************************************************************)
StartsWithoutFees == ~PanelToken => <>(phase = "running")

(***************************************************************************)
(* wait_ready: "Block until the cache has at least one entry, or `timeout` *)
(* elapses."  It does not wait for the time-out when the entry is there    *)
(* and has been announced.                                                 *)
(***************************************************************************)
AnnouncementHeard ==
  phase = "wait" /\ awaited \in told => heard
=============================================================================

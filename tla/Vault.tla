-------------------------------- MODULE Vault --------------------------------
(***************************************************************************)
(* The key panel and the encrypted vault behind it.  Every request is a    *)
(* task of its own; a change reads the whole file, edits its copy and      *)
(* writes the whole file, under a lock of the process.  The file has an    *)
(* older layout, which the first change converts.  A key that is stored    *)
(* is encrypted: it can be read only with the passphrase it was stored by. *)
(* A file that cannot be read or parsed is taken for an empty one, and a   *)
(* secret that cannot be read is replaced by a new one.                    *)
(***************************************************************************)
EXTENDS FiniteSets

CONSTANTS
  Slots,
  Values,
  NoKey,        \* no entry
  Passphrases,
  Requests,
  Target,       \* slot that each request names
  Body,         \* what each request carries
  Rotates,      \* another VAULT_PASSPHRASE after a restart, or a new secret
  ReadFaults,   \* reading the file may fail
  WriteFaults   \* writing the secret or the file may fail

(***************************************************************************)
(* A POST carries a value, an empty value or something that is no JSON     *)
(* object with a string in it; a DELETE carries nothing.                   *)
(***************************************************************************)
Bodies == Values \cup {"empty", "garbled", "DELETE"}

Entry == [key : Values, by : Passphrases]

ASSUME VaultAssumption ==
  /\ NoKey \notin Values \cup Entry
  /\ Values \cap {"empty", "garbled", "DELETE"} = {}
  /\ Target \in [Requests -> Slots]
  /\ Body \in [Requests -> Bodies]
  /\ Rotates \in BOOLEAN
  /\ ReadFaults \in BOOLEAN
  /\ WriteFaults \in BOOLEAN

VARIABLES
  layout,       \* layout of the file: v1, v2, or damaged: no known one
  file,         \* its entries
  passphrase,   \* VAULT_PASSPHRASE of the running process, or its secret
  lock,         \* requests that hold io_lock
  pc,           \* where each request stands
  copy          \* the v2 entries a request is about to write

vars == <<layout, file, passphrase, lock, pc, copy>>

Entries == [Slots -> Entry \cup {NoKey}]

Layouts == {"v1", "v2", "damaged"}

(***************************************************************************)
(* A request is "rewriting" when it has found nothing it could read.       *)
(***************************************************************************)
Phases == {"new", "waiting", "writing", "rewriting", "ok", "error"}

Writing == {"writing", "rewriting"}

Init ==
  /\ layout \in Layouts
  /\ passphrase \in Passphrases
  /\ file \in (IF Rotates THEN Entries
               ELSE [Slots -> [key : Values, by : {passphrase}] \cup {NoKey}])
  /\ lock = {}
  /\ pc = [r \in Requests |-> "new"]
  /\ copy = [r \in Requests |-> file]

TypeOK ==
  /\ layout \in Layouts
  /\ file \in Entries
  /\ passphrase \in Passphrases
  /\ lock \subseteq Requests
  /\ pc \in [Requests -> Phases]
  /\ copy \in [Requests -> Entries]

-----------------------------------------------------------------------------
ReadableBy(entry, pass) == entry # NoKey /\ entry.by = pass

(***************************************************************************)
(* read_slot: what a slot of the file yields with the present passphrase.  *)
(***************************************************************************)
ReadSlot(s) ==
  IF layout # "damaged" /\ ReadableBy(file[s], passphrase) THEN file[s].key ELSE NoKey

(***************************************************************************)
(* load_or_migrate: entries of the old layout are encrypted anew; the ones *)
(* that cannot be decrypted are left out.                                  *)
(***************************************************************************)
Migrated ==
  [s \in Slots |->
     IF layout = "v2" \/ ReadableBy(file[s], passphrase) THEN file[s] ELSE NoKey]

(***************************************************************************)
(* route: a body that cannot be parsed counts as an empty value, and an    *)
(* empty value deletes.                                                    *)
(***************************************************************************)
NewEntry(body) ==
  IF body \in Values THEN [key |-> body, by |-> passphrase] ELSE NoKey

Request(r) ==
  /\ pc[r] = "new"
  /\ pc' = [pc EXCEPT ![r] = "waiting"]
  /\ UNCHANGED <<layout, file, passphrase, lock, copy>>

Edited(entries, r) == [entries EXCEPT ![Target[r]] = NewEntry(Body[r])]

Empty == [s \in Slots |-> NoKey]

(***************************************************************************)
(* The token is wrong or the slot unknown.                                 *)
(***************************************************************************)
Reject(r) ==
  /\ pc[r] = "new"
  /\ pc' = [pc EXCEPT ![r] = "error"]
  /\ UNCHANGED <<layout, file, passphrase, lock, copy>>

LoadUnlocked(r) ==            \* mutant: io_lock is not awaited
  /\ pc[r] = "waiting"
  /\ lock' = lock \cup {r}
  /\ layout # "damaged"
  /\ copy' = [copy EXCEPT ![r] = Edited(Migrated, r)]
  /\ pc' = [pc EXCEPT ![r] = "writing"]
  /\ UNCHANGED <<layout, file, passphrase>>

Load(r) ==
  /\ pc[r] = "waiting" /\ lock = {}
  /\ lock' = {r}
  /\ layout # "damaged"
  /\ copy' = [copy EXCEPT ![r] = Edited(Migrated, r)]
  /\ pc' = [pc EXCEPT ![r] = "writing"]
  /\ UNCHANGED <<layout, file, passphrase>>

(***************************************************************************)
(* load: "starting empty", when the file cannot be read or parsed.         *)
(***************************************************************************)
LoadEmpty(r) ==
  /\ pc[r] = "waiting" /\ lock = {}
  /\ lock' = {r}
  /\ ReadFaults \/ layout = "damaged"
  /\ copy' = [copy EXCEPT ![r] = Edited(Empty, r)]
  /\ pc' = [pc EXCEPT ![r] = "rewriting"]
  /\ UNCHANGED <<layout, file, passphrase>>

(***************************************************************************)
(* load_secret, for this request or one that only reads: without a         *)
(* passphrase, a secret that cannot be read is replaced by a new one.      *)
(***************************************************************************)
Secrets == IF Rotates THEN Passphrases ELSE {passphrase}

NewSecret ==
  /\ lock = {}
  /\ passphrase' \in Secrets
  /\ UNCHANGED <<layout, file, lock, pc, copy>>

(***************************************************************************)
(* A new secret cannot be written, or the key cannot be encrypted.         *)
(***************************************************************************)
SecretFails(r) ==
  /\ WriteFaults
  /\ pc[r] = "waiting" /\ lock = {}
  /\ pc' = [pc EXCEPT ![r] = "error"]
  /\ UNCHANGED <<layout, file, passphrase, lock, copy>>

(***************************************************************************)
(* save: the temporary file takes the place of the vault in one rename.    *)
(***************************************************************************)
Save(r) ==
  /\ pc[r] \in Writing
  /\ layout' = "v2"
  /\ file' = copy[r]
  /\ lock' = lock \ {r}
  /\ pc' = [pc EXCEPT ![r] = "ok"]
  /\ UNCHANGED <<passphrase, copy>>

SaveFailsLocked(r) ==         \* mutant: the lock is kept on the error path
  /\ WriteFaults
  /\ pc[r] \in Writing
  /\ pc' = [pc EXCEPT ![r] = "error"]
  /\ UNCHANGED <<layout, file, passphrase, lock, copy>>

SaveFails(r) ==
  /\ WriteFaults
  /\ pc[r] \in Writing
  /\ lock' = lock \ {r}
  /\ pc' = [pc EXCEPT ![r] = "error"]
  /\ UNCHANGED <<layout, file, passphrase, copy>>

(***************************************************************************)
(* The bot is killed and started again.                                    *)
(***************************************************************************)
Restart ==
  /\ lock' = {}
  /\ pc' = [r \in Requests |-> IF pc[r] \in {"waiting"} \cup Writing THEN "error" ELSE pc[r]]
  /\ passphrase' \in Secrets
  /\ UNCHANGED <<layout, file, copy>>

Serve(r) == Load(r) \/ LoadEmpty(r) \/ SecretFails(r) \/ Save(r) \/ SaveFails(r)

Next == Restart \/ NewSecret \/ \E r \in Requests : Request(r) \/ Reject(r) \/ Serve(r)

Spec == Init /\ [][Next]_vars

(***************************************************************************)
(* Fairness: a request that has arrived is served; the lock is handed on   *)
(* in the order of the requests.                                           *)
(***************************************************************************)
FairSpec ==
  Spec /\ \A r \in Requests :
            /\ WF_vars(Save(r) \/ SaveFails(r))
            /\ SF_vars(Load(r) \/ LoadEmpty(r) \/ SecretFails(r))

-----------------------------------------------------------------------------
(***************************************************************************)
(* While the passphrase stays the same, the vault is a map: concurrent     *)
(* requests, failing writes, restarts and the conversion of an old file    *)
(* never lose, mix up or undo a key that a request stored.  Only a change  *)
(* made after a load that found nothing to read loses the other keys.      *)
(***************************************************************************)
Map == INSTANCE KeyStore WITH
  keys   <- [s \in Slots |-> ReadSlot(s)],
  blind  <- {r \in Requests : pc[r] = "rewriting"},
  asked  <- {r \in Requests : pc[r] # "new"},
  answer <- [r \in Requests |-> IF pc[r] \in {"ok", "error"} THEN pc[r] ELSE "none"],
  Key    <- [r \in Requests |-> IF Body[r] \in Values THEN Body[r] ELSE NoKey]

IsMap == Map!Spec

(***************************************************************************)
(* A change touches the entry of its own slot alone, in the file as it is  *)
(* at that moment; keys that another passphrase or an earlier secret       *)
(* stored stay in a v2 file.  Unless the change could not read the file:   *)
(* then all that stays is its own entry.                                   *)
(***************************************************************************)
OthersUntouched ==
  [][layout = "v2" /\ file' # file =>
       \E r \in Requests :
         /\ pc[r] \in Writing
         /\ \A s \in Slots \ {Target[r]} :
              file'[s] = IF pc[r] = "writing" THEN file[s] ELSE NoKey]_vars

(***************************************************************************)
(* Every request that has arrived is answered: the lock is released on     *)
(* every way out.                                                          *)
(***************************************************************************)
Answered == \A r \in Requests : pc[r] = "waiting" ~> pc[r] \in {"ok", "error"}

-----------------------------------------------------------------------------
(* What the documentation says and the code does not do.                   *)

(***************************************************************************)
(* README: "the first write converts the whole file to v2, preserving      *)
(* every stored key".                                                      *)
(***************************************************************************)
MigrationKeeps ==
  [][layout = "v1" /\ layout' = "v2" =>
       \E r \in Requests :
         /\ pc[r] \in Writing
         /\ \A s \in Slots \ {Target[r]} : file[s] # NoKey => file'[s] # NoKey]_vars

(***************************************************************************)
(* INSTALL: POST with "body {"value": "<key>"}; empty value deletes", and  *)
(* DELETE.  Nothing else deletes a key.                                    *)
(***************************************************************************)
OnlyEmptyDeletes ==
  [][\A s \in Slots :
       layout = "v2" /\ file[s] # NoKey /\ file'[s] = NoKey =>
         \E r \in Requests :
           Target[r] = s /\ pc[r] \in Writing /\ Body[r] \in {"empty", "DELETE"}]_vars
=============================================================================

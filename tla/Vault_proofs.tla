---------------------------- MODULE Vault_proofs ----------------------------
(***************************************************************************)
(* The vault is a map while its passphrase stays the same, for any slots,  *)
(* keys and requests.  The refinement needs an invariant about the lock:   *)
(* at most one request is between reading the file and writing it, so its  *)
(* copy is the file, or nothing if it could not be read, with one entry    *)
(* changed.                                                                *)
(***************************************************************************)
EXTENDS Vault, TLAPS

LockHeldByWriter ==
  /\ \A r \in Requests : r \in lock <=> pc[r] \in Writing
  /\ \A r, q \in lock : r = q

(***************************************************************************)
(* The copy of the request that writes is the file of this moment,         *)
(* converted to v2, with the one change; of one that could read nothing,   *)
(* the one change alone.                                                   *)
(***************************************************************************)
CopyCurrent ==
  \A r \in Requests :
    /\ pc[r] = "writing" => layout # "damaged" /\ copy[r] = Edited(Migrated, r)
    /\ pc[r] = "rewriting" => copy[r] = Edited(Empty, r)

(***************************************************************************)
(* Without rotation the running process can read every entry.              *)
(***************************************************************************)
AllReadable ==
  ~Rotates => \A s \in Slots : file[s] # NoKey => file[s].by = passphrase

VInv == TypeOK /\ LockHeldByWriter /\ CopyCurrent /\ AllReadable

LEMMA NewEntryType ==
  ASSUME TypeOK, NEW r \in Requests
  PROVE  NewEntry(Body[r]) \in Entry \cup {NoKey}
BY DEF TypeOK, NewEntry, Entry

LEMMA MigratedType ==
  ASSUME TypeOK
  PROVE  Migrated \in Entries
BY DEF TypeOK, Migrated, Entries

LEMMA EditedType ==
  ASSUME TypeOK, NEW r \in Requests
  PROVE  /\ Edited(Migrated, r) \in Entries
         /\ Edited(Empty, r) \in Entries
<1>1. Empty \in Entries
  BY DEF Empty, Entries
<1> QED BY <1>1, NewEntryType, MigratedType DEF Edited, Entries

(***************************************************************************)
(* What the copies are built from.                                         *)
(***************************************************************************)
LEMMA EditsSame ==
  ASSUME UNCHANGED <<layout, file, passphrase>>, NEW r \in Requests
  PROVE  /\ Edited(Migrated, r)' = Edited(Migrated, r)
         /\ Edited(Empty, r)' = Edited(Empty, r)
BY DEF Edited, Migrated, ReadableBy, NewEntry, Empty

LEMMA InitVault == Init => VInv
<1> SUFFICES ASSUME Init PROVE VInv
  OBVIOUS
<1>1. file \in Entries
  BY DEF Init, Entries, Entry
<1>2. TypeOK
  BY <1>1 DEF Init, TypeOK, Phases
<1>3. LockHeldByWriter /\ CopyCurrent
  BY DEF Init, LockHeldByWriter, CopyCurrent, Writing
<1>4. AllReadable
  <2> SUFFICES ASSUME ~Rotates, NEW s \in Slots, file[s] # NoKey
               PROVE  file[s].by = passphrase
    BY DEF AllReadable
  <2>1. file[s] \in [key : Values, by : {passphrase}]
    BY DEF Init
  <2> QED BY <2>1
<1> QED BY <1>2, <1>3, <1>4 DEF VInv

-----------------------------------------------------------------------------
(* Steps that leave the file alone.                                        *)

LEMMA RequestKeeps ==
  ASSUME VInv, NEW r \in Requests, Request(r) \/ Reject(r) \/ SecretFails(r)
  PROVE  VInv'
<1>1. PICK p \in {"waiting", "error"} : pc' = [pc EXCEPT ![r] = p]
  BY DEF Request, Reject, SecretFails
<1>2. pc[r] \in {"new", "waiting"} /\ UNCHANGED <<layout, file, passphrase, lock, copy>>
  BY DEF Request, Reject, SecretFails
<1>3. TypeOK'
  BY <1>1, <1>2 DEF VInv, TypeOK, Phases
<1>4. \A q \in Requests : /\ pc'[q] = "writing" <=> pc[q] = "writing"
                          /\ pc'[q] = "rewriting" <=> pc[q] = "rewriting"
  BY <1>1, <1>2 DEF VInv, TypeOK
<1>5. LockHeldByWriter'
  <2>1. \A q \in Requests : pc'[q] \in Writing <=> pc[q] \in Writing
    BY <1>4 DEF Writing
  <2> QED BY <1>2, <2>1 DEF VInv, LockHeldByWriter
<1>6. CopyCurrent'
  <2>1. \A q \in Requests : /\ Edited(Migrated, q)' = Edited(Migrated, q)
                            /\ Edited(Empty, q)' = Edited(Empty, q)
    BY <1>2, EditsSame
  <2> QED BY <1>2, <1>4, <2>1 DEF VInv, CopyCurrent
<1>7. AllReadable'
  BY <1>2 DEF VInv, AllReadable
<1> QED BY <1>3, <1>5, <1>6, <1>7 DEF VInv

LEMMA LoadKeeps ==
  ASSUME VInv, NEW r \in Requests, Load(r) \/ LoadEmpty(r)
  PROVE  VInv'
<1>1. PICK p \in Writing, edited \in Entries :
        /\ copy' = [copy EXCEPT ![r] = edited]
        /\ pc' = [pc EXCEPT ![r] = p]
        /\ p = "writing" => layout # "damaged" /\ edited = Edited(Migrated, r)
        /\ p = "rewriting" => edited = Edited(Empty, r)
  BY EditedType DEF Load, LoadEmpty, Writing, VInv
<1>2. /\ pc[r] = "waiting" /\ lock = {} /\ lock' = {r}
      /\ UNCHANGED <<layout, file, passphrase>>
  BY DEF Load, LoadEmpty
<1>3. TypeOK'
  BY <1>1, <1>2 DEF VInv, TypeOK, Phases, Writing
<1>4. \A q \in Requests : pc[q] \notin Writing
  BY <1>2 DEF VInv, LockHeldByWriter
<1>5. LockHeldByWriter'
  BY <1>1, <1>2, <1>4 DEF VInv, TypeOK, LockHeldByWriter
<1>6. CopyCurrent'
  <2>1. \A q \in Requests : pc'[q] \in Writing => q = r
    BY <1>1, <1>2, <1>4 DEF VInv, TypeOK
  <2>2. copy'[r] = edited /\ pc'[r] = p
    BY <1>1 DEF VInv, TypeOK
  <2> QED BY <1>1, <1>2, <2>1, <2>2, EditsSame DEF CopyCurrent, Writing
<1>7. AllReadable'
  BY <1>2 DEF VInv, AllReadable
<1> QED BY <1>3, <1>5, <1>6, <1>7 DEF VInv

(***************************************************************************)
(* While nobody holds the lock no copy is about to be written.             *)
(***************************************************************************)
LEMMA NewSecretKeeps ==
  ASSUME VInv, NewSecret
  PROVE  VInv'
<1>1. /\ lock = {} /\ passphrase' \in Passphrases
      /\ ~Rotates => passphrase' = passphrase
      /\ UNCHANGED <<layout, file, lock, pc, copy>>
  BY DEF NewSecret, Secrets, VInv, TypeOK
<1>2. \A r \in Requests : pc'[r] \notin Writing
  BY <1>1 DEF VInv, LockHeldByWriter
<1>3. TypeOK' /\ LockHeldByWriter' /\ CopyCurrent' /\ AllReadable'
  BY <1>1, <1>2 DEF VInv, TypeOK, LockHeldByWriter, CopyCurrent, Writing, AllReadable
<1> QED BY <1>3 DEF VInv

LEMMA SaveFailsKeeps ==
  ASSUME VInv, NEW r \in Requests, SaveFails(r)
  PROVE  VInv'
<1>1. /\ pc[r] \in Writing /\ lock' = lock \ {r}
      /\ pc' = [pc EXCEPT ![r] = "error"]
      /\ UNCHANGED <<layout, file, passphrase, copy>>
  BY DEF SaveFails
<1>2. TypeOK'
  BY <1>1 DEF VInv, TypeOK, Phases
<1>3. \A q \in Requests : /\ pc'[q] = "writing" <=> pc[q] = "writing" /\ q # r
                          /\ pc'[q] = "rewriting" <=> pc[q] = "rewriting" /\ q # r
  BY <1>1 DEF VInv, TypeOK
<1>4. LockHeldByWriter'
  <2>1. \A q \in Requests : pc'[q] \in Writing <=> pc[q] \in Writing /\ q # r
    BY <1>3 DEF Writing
  <2> QED BY <1>1, <2>1 DEF VInv, LockHeldByWriter
<1>5. CopyCurrent'
  BY <1>1, <1>3, EditsSame DEF VInv, CopyCurrent
<1>6. AllReadable'
  BY <1>1 DEF VInv, AllReadable
<1> QED BY <1>2, <1>4, <1>5, <1>6 DEF VInv

LEMMA RestartKeeps ==
  ASSUME VInv, Restart
  PROVE  VInv'
<1>1. /\ lock' = {}
      /\ pc' = [r \in Requests |->
                  IF pc[r] \in {"waiting"} \cup Writing THEN "error" ELSE pc[r]]
      /\ passphrase' \in (IF Rotates THEN Passphrases ELSE {passphrase})
      /\ UNCHANGED <<layout, file, copy>>
  BY DEF Restart, Secrets
<1>2. TypeOK'
  BY <1>1 DEF VInv, TypeOK, Phases
<1>3. \A r \in Requests : pc'[r] \notin Writing
  BY <1>1 DEF Writing
<1>4. LockHeldByWriter' /\ CopyCurrent'
  BY <1>1, <1>3 DEF LockHeldByWriter, CopyCurrent, Writing
<1>5. AllReadable'
  BY <1>1 DEF VInv, AllReadable
<1> QED BY <1>2, <1>4, <1>5 DEF VInv

-----------------------------------------------------------------------------
(* The step that writes the file.                                          *)

(***************************************************************************)
(* The file a request writes is the converted file with its own change, or *)
(* its own change alone.                                                   *)
(***************************************************************************)
LEMMA WrittenFile ==
  ASSUME VInv, NEW r \in Requests, Save(r)
  PROVE  /\ \/ /\ pc[r] = "writing" /\ layout # "damaged"
               /\ file' = Edited(Migrated, r)
            \/ pc[r] = "rewriting" /\ file' = Edited(Empty, r)
         /\ layout' = "v2" /\ UNCHANGED <<passphrase, copy>>
         /\ lock = {r} /\ lock' = {}
         /\ pc' = [pc EXCEPT ![r] = "ok"]
<1>1. pc[r] \in Writing /\ file' = copy[r] /\ lock' = lock \ {r}
  BY DEF Save
<1>2. lock = {r}
  BY <1>1 DEF VInv, TypeOK, LockHeldByWriter
<1> QED BY <1>1, <1>2 DEF Save, VInv, CopyCurrent, Writing

LEMMA SaveKeeps ==
  ASSUME VInv, NEW r \in Requests, Save(r)
  PROVE  VInv'
<1>1. /\ file' \in {Edited(Migrated, r), Edited(Empty, r)}
      /\ layout' = "v2" /\ UNCHANGED <<passphrase, copy>>
      /\ lock = {r} /\ lock' = {}
      /\ pc' = [pc EXCEPT ![r] = "ok"]
  BY WrittenFile
<1>2. TypeOK'
  BY <1>1, EditedType DEF VInv, TypeOK, Phases, Layouts
<1>3. \A q \in Requests : pc'[q] \notin Writing
  BY <1>1 DEF VInv, TypeOK, LockHeldByWriter, Writing
<1>4. LockHeldByWriter' /\ CopyCurrent'
  BY <1>1, <1>3 DEF LockHeldByWriter, CopyCurrent, Writing
<1>5. AllReadable'
  <2> SUFFICES ASSUME ~Rotates, NEW s \in Slots, file'[s] # NoKey
               PROVE  file'[s].by = passphrase
    BY <1>1 DEF AllReadable
  <2>1. Migrated[s] # NoKey => Migrated[s].by = passphrase
    BY DEF VInv, AllReadable, Migrated
  <2>2. NewEntry(Body[r]) # NoKey => NewEntry(Body[r]).by = passphrase
    BY DEF NewEntry
  <2>3. Edited(Migrated, r)[s] \in {Migrated[s], NewEntry(Body[r])}
    BY MigratedType DEF VInv, Entries, Edited
  <2>4. Edited(Empty, r)[s] \in {NoKey, NewEntry(Body[r])}
    BY DEF Edited, Empty
  <2> QED BY <1>1, <2>1, <2>2, <2>3, <2>4
<1> QED BY <1>2, <1>4, <1>5 DEF VInv

LEMMA StepKeepsVault == VInv /\ [Next]_vars => VInv'
<1> SUFFICES ASSUME VInv, [Next]_vars PROVE VInv'
  OBVIOUS
<1>1. CASE UNCHANGED vars
  BY <1>1, EditsSame DEF VInv, vars, TypeOK, LockHeldByWriter, CopyCurrent, AllReadable
<1>2. CASE Restart \/ NewSecret
  BY <1>2, RestartKeeps, NewSecretKeeps
<1>3. ASSUME NEW r \in Requests, Request(r) \/ Reject(r) \/ Serve(r) PROVE VInv'
  BY <1>3, RequestKeeps, LoadKeeps, SaveKeeps, SaveFailsKeeps DEF Serve
<1> QED BY <1>1, <1>2, <1>3 DEF Next

THEOREM VaultInvariant == Spec => []VInv
BY InitVault, StepKeepsVault, PTL DEF Spec

-----------------------------------------------------------------------------
(***************************************************************************)
(* In a v2 file a change touches the entry of its own slot alone, under    *)
(* any rotation of the passphrase: set_api_key keeps what it cannot        *)
(* decrypt.  Only a change that could not read the file leaves nothing     *)
(* beside its own entry.                                                   *)
(***************************************************************************)
THEOREM OtherKeysKept == Spec => OthersUntouched
<1>1. ASSUME VInv, [Next]_vars
      PROVE  [layout = "v2" /\ file' # file =>
                \E r \in Requests :
                  /\ pc[r] \in Writing
                  /\ \A s \in Slots \ {Target[r]} :
                       file'[s] = IF pc[r] = "writing" THEN file[s] ELSE NoKey]_vars
  <2> SUFFICES ASSUME layout = "v2", file' # file
               PROVE  \E r \in Requests :
                        /\ pc[r] \in Writing
                        /\ \A s \in Slots \ {Target[r]} :
                             file'[s] = IF pc[r] = "writing" THEN file[s] ELSE NoKey
    OBVIOUS
  <2>1. PICK r \in Requests : Save(r)
    BY <1>1 DEF Next, Serve, Request, Reject, Load, LoadEmpty, SecretFails, SaveFails,
                Restart, NewSecret, vars
  <2>2. \A s \in Slots : Migrated[s] = file[s]
    BY DEF Migrated
  <2>3. CASE pc[r] = "writing" /\ file' = Edited(Migrated, r)
    <3>1. \A s \in Slots \ {Target[r]} : Edited(Migrated, r)[s] = Migrated[s]
      BY <1>1, MigratedType DEF VInv, Entries, Edited
    <3> QED BY <2>2, <2>3, <3>1 DEF Writing
  <2>4. CASE pc[r] = "rewriting" /\ file' = Edited(Empty, r)
    <3>1. \A s \in Slots \ {Target[r]} : Edited(Empty, r)[s] = NoKey
      BY DEF Edited, Empty
    <3> QED BY <2>4, <3>1 DEF Writing
  <2> QED BY <1>1, <2>1, <2>3, <2>4, WrittenFile
<1> QED BY <1>1, VaultInvariant, PTL DEF Spec, OthersUntouched

-----------------------------------------------------------------------------
(* The refinement.                                                         *)

Keys == [s \in Slots |-> ReadSlot(s)]

Blind == {r \in Requests : pc[r] = "rewriting"}

Asked == {r \in Requests : pc[r] # "new"}

Answer == [r \in Requests |-> IF pc[r] \in {"ok", "error"} THEN pc[r] ELSE "none"]

KeyOf == [r \in Requests |-> IF Body[r] \in Values THEN Body[r] ELSE NoKey]

LEMMA InitRefines ==
  ASSUME ~Rotates, Init
  PROVE  Map!Init
<1>1. file \in [Slots -> [key : Values, by : {passphrase}] \cup {NoKey}]
  BY DEF Init
<1>2. Keys \in [Slots -> Values \cup {NoKey}]
  BY <1>1 DEF Keys, ReadSlot, ReadableBy
<1>3. Asked = {} /\ Blind = {} /\ Answer = [r \in Requests |-> "none"]
  BY DEF Init, Asked, Blind, Answer
<1> QED BY <1>2, <1>3 DEF Map!Init, Keys, Asked, Blind, Answer

(***************************************************************************)
(* What the panel answers does not depend on the file.                     *)
(***************************************************************************)
LEMMA FileSame ==
  ASSUME UNCHANGED <<layout, file, passphrase>>
  PROVE  Keys' = Keys
BY DEF Keys, ReadSlot, ReadableBy

(***************************************************************************)
(* The keys after a change of one entry.                                   *)
(***************************************************************************)
LEMMA SavedKeys ==
  ASSUME ~Rotates, VInv, NEW r \in Requests, Save(r)
  PROVE  /\ pc[r] = "writing" => Keys' = [Keys EXCEPT ![Target[r]] = KeyOf[r]]
         /\ pc[r] = "rewriting" =>
              Keys' = [s \in Slots |-> IF s = Target[r] THEN KeyOf[r] ELSE NoKey]
<1>1. /\ \/ /\ pc[r] = "writing" /\ layout # "damaged"
            /\ file' = Edited(Migrated, r)
         \/ pc[r] = "rewriting" /\ file' = Edited(Empty, r)
      /\ layout' = "v2" /\ passphrase' = passphrase
  BY WrittenFile
<1>2. Migrated = file
  BY DEF VInv, TypeOK, Entries, Migrated, AllReadable, ReadableBy
<1>3. Target[r] \in Slots /\ NoKey \notin Values \cup Entry /\ passphrase \in Passphrases
  BY VaultAssumption DEF VInv, TypeOK
<1>4. Keys' = [s \in Slots |-> IF file'[s] # NoKey /\ file'[s].by = passphrase
                               THEN file'[s].key ELSE NoKey]
  BY <1>1 DEF Keys, ReadSlot, ReadableBy
<1>5. /\ Edited(file, r)[Target[r]] = NewEntry(Body[r])
      /\ Edited(Empty, r)[Target[r]] = NewEntry(Body[r])
      /\ \A s \in Slots : s # Target[r] =>
           Edited(file, r)[s] = file[s] /\ Edited(Empty, r)[s] = NoKey
  BY <1>3 DEF VInv, TypeOK, Entries, Edited, Empty
<1>6. Keys'[Target[r]] = KeyOf[r]
  <2>1. file'[Target[r]] = NewEntry(Body[r])
    BY <1>1, <1>2, <1>5
  <2>2. CASE Body[r] \in Values
    <3>1. NewEntry(Body[r]) = [key |-> Body[r], by |-> passphrase]
      BY <2>2 DEF NewEntry
    <3>2. NewEntry(Body[r]) # NoKey
      BY <1>3, <2>2, <3>1 DEF Entry
    <3> QED BY <1>3, <1>4, <2>1, <2>2, <3>1, <3>2 DEF KeyOf
  <2>3. CASE Body[r] \notin Values
    BY <1>3, <1>4, <2>1, <2>3 DEF NewEntry, KeyOf
  <2> QED BY <2>2, <2>3
<1>7. CASE pc[r] = "writing"
  <2>1. layout # "damaged" /\ file' = Edited(file, r)
    BY <1>1, <1>2, <1>7
  <2>2. Keys = [s \in Slots |-> IF file[s] # NoKey /\ file[s].by = passphrase
                                THEN file[s].key ELSE NoKey]
    BY <2>1 DEF Keys, ReadSlot, ReadableBy
  <2>3. ASSUME NEW s \in Slots, s # Target[r]
        PROVE  Keys'[s] = Keys[s]
    BY <1>4, <1>5, <2>1, <2>2, <2>3
  <2>4. Keys' = [Keys EXCEPT ![Target[r]] = KeyOf[r]]
    BY <1>4, <1>6, <2>2, <2>3
  <2> QED BY <1>7, <2>4
<1>8. CASE pc[r] = "rewriting"
  <2>1. ASSUME NEW s \in Slots, s # Target[r]
        PROVE  Keys'[s] = NoKey
    BY <1>1, <1>4, <1>5, <1>8, <2>1
  <2>2. Keys' = [s \in Slots |-> IF s = Target[r] THEN KeyOf[r] ELSE NoKey]
    BY <1>4, <1>6, <2>1
  <2> QED BY <1>8, <2>2
<1>9. pc[r] \in Writing
  BY DEF Save
<1> QED BY <1>7, <1>8, <1>9 DEF Writing

LEMMA SaveRefines ==
  ASSUME ~Rotates, VInv, NEW r \in Requests, Save(r)
  PROVE  Map!Apply(r) \/ Map!ApplyBlind(r)
<1>1. pc[r] \in Writing /\ pc' = [pc EXCEPT ![r] = "ok"]
  BY DEF Save
<1>2. /\ r \in Asked /\ Answer[r] = "none" /\ Asked' = Asked
      /\ Blind' = Blind \ {r} /\ (r \in Blind <=> pc[r] = "rewriting")
  BY <1>1 DEF VInv, TypeOK, Asked, Blind, Answer, Writing
<1>3. Answer' = [Answer EXCEPT ![r] = "ok"]
  BY <1>1 DEF VInv, TypeOK, Answer
<1>4. CASE pc[r] = "writing"
  <2>1. Keys' = [Keys EXCEPT ![Target[r]] = KeyOf[r]] /\ Blind' = Blind
    BY <1>2, <1>4, SavedKeys
  <2> QED BY <1>2, <1>3, <1>4, <2>1 DEF Map!Apply, Keys, Asked, Blind, Answer, KeyOf
<1>5. CASE pc[r] = "rewriting"
  <2>1. Keys' = [s \in Slots |-> IF s = Target[r] THEN KeyOf[r] ELSE NoKey]
    BY <1>5, SavedKeys
  <2> QED BY <1>2, <1>3, <1>5, <2>1 DEF Map!ApplyBlind, Keys, Asked, Blind, Answer, KeyOf
<1> QED BY <1>1, <1>4, <1>5 DEF Writing

LEMMA RequestRefines ==
  ASSUME VInv, NEW r \in Requests
  PROVE  /\ Request(r) => Map!Ask(r)
         /\ Reject(r) => Map!AskInVain(r)
         /\ SecretFails(r) \/ SaveFails(r) => Map!Refuse(r)
         /\ Load(r) => UNCHANGED Map!vars
         /\ LoadEmpty(r) => Map!ReadFails(r)
<1>1. ASSUME Request(r) PROVE Map!Ask(r)
  <2>1. /\ pc[r] = "new" /\ pc' = [pc EXCEPT ![r] = "waiting"]
        /\ UNCHANGED <<layout, file, passphrase>>
    BY <1>1 DEF Request
  <2>2. r \notin Asked /\ Asked' = Asked \cup {r} /\ Answer' = Answer /\ Blind' = Blind
    BY <2>1 DEF VInv, TypeOK, Asked, Blind, Answer
  <2> QED BY <2>1, <2>2, FileSame DEF Map!Ask, Keys, Asked, Blind, Answer
<1>2. ASSUME Reject(r) PROVE Map!AskInVain(r)
  <2>1. /\ pc[r] = "new" /\ pc' = [pc EXCEPT ![r] = "error"]
        /\ UNCHANGED <<layout, file, passphrase>>
    BY <1>2 DEF Reject
  <2>2. /\ r \notin Asked /\ Asked' = Asked \cup {r} /\ Blind' = Blind
        /\ Answer' = [Answer EXCEPT ![r] = "error"]
    BY <2>1 DEF VInv, TypeOK, Asked, Blind, Answer
  <2> QED BY <2>1, <2>2, FileSame DEF Map!AskInVain, Keys, Asked, Blind, Answer
<1>3. ASSUME SecretFails(r) \/ SaveFails(r) PROVE Map!Refuse(r)
  <2>1. /\ pc[r] \in {"waiting"} \cup Writing /\ pc' = [pc EXCEPT ![r] = "error"]
        /\ UNCHANGED <<layout, file, passphrase>>
    BY <1>3 DEF SecretFails, SaveFails
  <2>2. /\ r \in Asked /\ Answer[r] = "none" /\ Asked' = Asked /\ Blind' = Blind \ {r}
        /\ Answer' = [Answer EXCEPT ![r] = "error"]
    BY <2>1 DEF VInv, TypeOK, Asked, Blind, Answer, Writing
  <2> QED BY <2>1, <2>2, FileSame DEF Map!Refuse, Keys, Asked, Blind, Answer
<1>4. ASSUME Load(r) PROVE UNCHANGED Map!vars
  <2>1. /\ pc[r] = "waiting" /\ pc' = [pc EXCEPT ![r] = "writing"]
        /\ UNCHANGED <<layout, file, passphrase>>
    BY <1>4 DEF Load
  <2>2. Asked' = Asked /\ Blind' = Blind /\ Answer' = Answer
    BY <2>1 DEF VInv, TypeOK, Asked, Blind, Answer
  <2> QED BY <2>1, <2>2, FileSame DEF Map!vars, Keys, Asked, Blind, Answer
<1>5. ASSUME LoadEmpty(r) PROVE Map!ReadFails(r)
  <2>1. /\ pc[r] = "waiting" /\ pc' = [pc EXCEPT ![r] = "rewriting"]
        /\ UNCHANGED <<layout, file, passphrase>>
    BY <1>5 DEF LoadEmpty
  <2>2. /\ r \in Asked /\ Answer[r] = "none"
        /\ Asked' = Asked /\ Blind' = Blind \cup {r} /\ Answer' = Answer
    BY <2>1 DEF VInv, TypeOK, Asked, Blind, Answer
  <2> QED BY <2>1, <2>2, FileSame DEF Map!ReadFails, Keys, Asked, Blind, Answer
<1> QED BY <1>1, <1>2, <1>3, <1>4, <1>5

LEMMA RestartRefines ==
  ASSUME ~Rotates, VInv, Restart
  PROVE  Map!Restart
<1> DEFINE lost == {r \in Requests : pc[r] \in {"waiting"} \cup Writing}
<1>1. /\ pc' = [r \in Requests |->
                  IF pc[r] \in {"waiting"} \cup Writing THEN "error" ELSE pc[r]]
      /\ passphrase' = passphrase /\ UNCHANGED <<layout, file>>
  BY DEF Restart, Secrets
<1>2. lost \in SUBSET {r \in Asked : Answer[r] = "none"}
  BY DEF Asked, Answer, Writing
<1>3. Answer' = [r \in Requests |-> IF r \in lost THEN "error" ELSE Answer[r]]
  BY <1>1 DEF VInv, TypeOK, Answer
<1>4. Asked' = Asked
  BY <1>1 DEF Asked, Writing
<1>5. Blind' = Blind \ lost
  BY <1>1 DEF VInv, TypeOK, Blind, Writing
<1> HIDE DEF lost
<1>6. Keys' = Keys
  BY <1>1, FileSame
<1> QED BY <1>2, <1>3, <1>4, <1>5, <1>6 DEF Map!Restart, Keys, Asked, Blind, Answer

LEMMA StepRefines ==
  ASSUME ~Rotates, VInv, [Next]_vars
  PROVE  [Map!Next]_(Map!vars)
<1>1. CASE UNCHANGED vars
  BY <1>1, FileSame DEF vars, Map!vars, Keys
<1>2. CASE Restart
  BY <1>2, RestartRefines DEF Map!Next
<1>3. CASE NewSecret
  BY <1>3, FileSame DEF NewSecret, Secrets, Map!vars, Keys
<1>4. ASSUME NEW r \in Requests, Request(r) \/ Reject(r) \/ Serve(r)
      PROVE  [Map!Next]_(Map!vars)
  BY <1>4, RequestRefines, SaveRefines DEF Map!Next, Serve
<1> QED BY <1>1, <1>2, <1>3, <1>4 DEF Next

(***************************************************************************)
(* With one passphrase the vault implements KeyStore: for any requests     *)
(* that run concurrently, with loads that find a damaged file or none,     *)
(* failing writes, restarts and the conversion of an old file, set_api_key *)
(* acts at one instant or not at all.                                      *)
(***************************************************************************)
THEOREM VaultIsMap ==
  ASSUME ~Rotates
  PROVE  Spec => IsMap
<1>1. Init => Map!Init
  BY InitRefines
<1>2. VInv /\ [Next]_vars => [Map!Next]_(Map!vars)
  BY StepRefines
<1> QED BY <1>1, <1>2, VaultInvariant, PTL DEF Spec, IsMap, Map!Spec
=============================================================================

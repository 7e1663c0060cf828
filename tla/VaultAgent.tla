------------------------------ MODULE VaultAgent ------------------------------
(***************************************************************************)
(* The vault backend of the agent (vault/agent.go over vault/store.go):    *)
(* identities kept in memory and mirrored to one file, a master key that   *)
(* Lock wipes, and two sets that live until the daemon restarts.  Each     *)
(* client connection is served by a goroutine of its own, so the calls of  *)
(* different clients interleave.  A call is several steps, cut where       *)
(* another goroutine can observe or change something in between: a writer  *)
(* holds a.mu from its first step to its last, List and Sign take a.mu     *)
(* several times, and List's final read of the store takes only s.mu.      *)
(*                                                                         *)
(* A fingerprint stands for a key; the encrypted blob, the public key, the *)
(* source path and the order of the list are left out.  The daemon can     *)
(* stop at any step and come back from the file (sshushd/daemon.go).       *)
(***************************************************************************)
EXTENDS Integers, FiniteSets

CONSTANTS Client,       \* client connections, one goroutine each
          Fingerprint,  \* keys that can be in the vault
          Comment,      \* comments an identity can carry
          Lifetime,     \* lifetimes (in ticks) a client can ask for
          Ops,          \* bound: the operations clients ask for
          HasRecovery,  \* the vault was created with a recovery phrase
          MaxTime,      \* bound: the clock stops here
          NoIdentity,   \* no identity is stored under a fingerprint
          NoClient      \* nobody holds a.mu

ASSUME LifetimeAssumption == Lifetime \subseteq Nat \ {0}
ASSUME TimeAssumption == MaxTime \in Nat
ASSUME RecoveryAssumption == HasRecovery \in BOOLEAN
ASSUME ClientAssumption == NoClient \notin Client

VARIABLES
  store,             \* VaultStore.identities, in memory
  disk,              \* the identities of the vault file
  masterKey,         \* "nil" (locked), "intact", or "wiped" while being replaced
  sessionAutoload0,  \* fingerprints visible this run although autoload=0
  sessionUnloaded,   \* fingerprints hidden this run although autoload=1
  mu,                \* the client holding a.mu for writing
  now,               \* the clock
  pc,                \* where each client's goroutine stands
  call,              \* the request it serves
  reply,             \* what it answers, and for List the rows
  snap,              \* List's copies of the two session sets
  acked              \* auxiliary: what the last answered Add, Remove or
                     \* RemoveAll promised about each fingerprint

vars == <<store, disk, masterKey, sessionAutoload0, sessionUnloaded, mu, now,
          pc, call, reply, snap, acked>>

volatile == <<masterKey, sessionAutoload0, sessionUnloaded>>

-----------------------------------------------------------------------------
(* expiresAt = 0 is Go's zero time: the identity has no lifetime. *)
Identity == [autoload : BOOLEAN, comment : Comment, expiresAt : Nat]

ASSUME IdentityAssumption == NoIdentity \notin Identity

Vault == [Fingerprint -> Identity \cup {NoIdentity}]

AllRequests ==
  [op : {"list", "removeAll", "lock", "unlock", "unlockRecovery"}]
    \cup [op : {"sign", "remove", "sessionLoad", "sessionUnload"}, fp : Fingerprint]
    \cup [op : {"add"}, fp : Fingerprint, autoload : {FALSE},
          comment : Comment, lifetime : Lifetime \cup {0}]
    \cup [op : {"add"}, fp : Fingerprint, autoload : {TRUE},
          comment : Comment, lifetime : {0}]
    \cup [op : {"setAutoload"}, fp : Fingerprint, on : BOOLEAN]
    \cup [op : {"setComment"}, fp : Fingerprint, comment : Comment]

Requests == {r \in AllRequests : r.op \in Ops}

NoRequest == [op |-> "none"]

Status == {"pending", "ok", "locked", "notFound", "notLocked", "noRecovery",
           "wrongPassphrase", "internal"}

NoReply == [status |-> "pending", rows |-> {}]
NoSnap == [session |-> {}, hidden |-> {}]

Locked == masterKey = "nil"
Stored(fp) == store[fp] # NoIdentity

(* now.After(ExpiresAt): strictly later. *)
Expired(fp) ==
  Stored(fp) /\ store[fp].expiresAt # 0 /\ now > store[fp].expiresAt

(* Mutation of ExpiredSet: a tick late. *)
BugExpiredSet ==
  {fp \in Fingerprint :
     Stored(fp) /\ store[fp].expiresAt # 0 /\ now > store[fp].expiresAt + 1}

ExpiredSet == {fp \in Fingerprint : Expired(fp)}

(* Mutation of Rows: hiding outlives an Add to the session. *)
BugRows(session, hidden) ==
  {fp \in Fingerprint : Stored(fp) /\ fp \notin hidden
                          /\ (store[fp].autoload \/ fp \in session)}

(* The rows ListIdentitiesForAgent picks, given the two session sets. *)
Rows(session, hidden) ==
  {fp \in Fingerprint : Stored(fp) /\ IF store[fp].autoload THEN fp \notin hidden
                                                            ELSE fp \in session}

-----------------------------------------------------------------------------
(* Calls begin, answer and return. *)

Init ==
  /\ disk \in [Fingerprint ->
                 [autoload : BOOLEAN, comment : Comment, expiresAt : {0}]
                   \cup {NoIdentity}]
  /\ store = disk
  /\ masterKey = "nil"
  /\ sessionAutoload0 = {}
  /\ sessionUnloaded = {}
  /\ mu = NoClient
  /\ now = 1
  /\ pc = [c \in Client |-> "idle"]
  /\ call = [c \in Client |-> NoRequest]
  /\ reply = [c \in Client |-> NoReply]
  /\ snap = [c \in Client |-> NoSnap]
  /\ acked = [fp \in Fingerprint |-> "unknown"]

Goto(c, label) == pc' = [pc EXCEPT ![c] = label]

Answer(c, status, rows) ==
  /\ reply' = [reply EXCEPT ![c] = [status |-> status, rows |-> rows]]
  /\ Goto(c, "done")

Begin(c) ==
  /\ pc[c] = "idle"
  /\ \E r \in Requests : call' = [call EXCEPT ![c] = r]
  /\ Goto(c, "called")
  /\ UNCHANGED <<store, disk, volatile, mu, now, reply, snap, acked>>

(* The client has its answer, and may send another request. *)
Return(c) ==
  /\ pc[c] = "done"
  /\ Goto(c, "idle")
  /\ call' = [call EXCEPT ![c] = NoRequest]
  /\ reply' = [reply EXCEPT ![c] = NoReply]
  /\ snap' = [snap EXCEPT ![c] = NoSnap]
  /\ UNCHANGED <<store, disk, volatile, mu, now, acked>>

(* An operation that finds a.mu free and changes nothing but, maybe, the
   session sets: one step. *)
Arrived(c, ops) == pc[c] = "called" /\ call[c].op \in ops /\ mu = NoClient

AnswerOnly(c, status) ==
  /\ Answer(c, status, {})
  /\ UNCHANGED <<store, disk, volatile, mu, now, call, snap, acked>>

-----------------------------------------------------------------------------
(* The store, and the file behind it. *)

SaveOutcome == {"saved", "failed", "chmodFailed"}

(* Mutation of SaveEffect: the temporary file is never renamed. *)
BugSaveEffect(r) == disk' = disk

(* Save writes a temporary file, syncs it and renames it over the vault: the
   file is the old one or the new one, never a mix.  It can fail before the
   rename, or after it (the chmod), and then the file is new although the
   caller is told the save failed. *)
SaveEffect(r) == disk' = IF r = "failed" THEN disk ELSE store

RemoveFromStore(fps) ==
  store' = [fp \in Fingerprint |-> IF fp \in fps THEN NoIdentity ELSE store[fp]]

(* Mutation of ForgetSession: one of the two sets is forgotten. *)
BugForgetSession(fps) ==
  /\ sessionAutoload0' = sessionAutoload0
  /\ sessionUnloaded' = sessionUnloaded \ fps

ForgetSession(fps) ==
  /\ sessionAutoload0' = sessionAutoload0 \ fps
  /\ sessionUnloaded' = sessionUnloaded \ fps

(* Nothing is promised any more about keys that are being removed. *)
Unpromise(fps) ==
  acked' = [fp \in Fingerprint |-> IF fp \in fps THEN "unknown" ELSE acked[fp]]

(* Mutation of HoldForSave: a.mu is given up before Save. *)
BugHoldForSave(c) ==
  /\ mu' = NoClient
  /\ Goto(c, "save")
  /\ UNCHANGED <<disk, masterKey, now, call, reply, snap>>

(* The first half of a mutating operation: a.mu is taken, the identities in
   memory have changed, and Save comes next. *)
HoldForSave(c) ==
  /\ mu' = c
  /\ Goto(c, "save")
  /\ UNCHANGED <<disk, masterKey, now, call, reply, snap>>

-----------------------------------------------------------------------------
(* List, Sign and SignWithFlags begin with purgeExpired. *)

AfterPurge(op) == IF op = "list" THEN "listSession" ELSE "signLookup"

NothingToPurge(c) ==
  /\ Arrived(c, {"list", "sign"})
  /\ Locked \/ ExpiredSet = {}
  /\ Goto(c, AfterPurge(call[c].op))
  /\ UNCHANGED <<store, disk, volatile, mu, now, call, reply, snap, acked>>

PurgeExpired(c) ==
  /\ Arrived(c, {"list", "sign"})
  /\ ~Locked
  /\ ExpiredSet # {}
  /\ RemoveFromStore(ExpiredSet)
  /\ ForgetSession(ExpiredSet)
  /\ Unpromise(ExpiredSet)
  /\ mu' = c
  /\ Goto(c, "purgeSave")
  /\ UNCHANGED <<disk, masterKey, now, call, reply, snap>>

(* When the save fails the whole List or Sign fails; the identities are gone
   from memory all the same. *)
PurgeSave(c) ==
  /\ pc[c] = "purgeSave"
  /\ \E r \in SaveOutcome :
       /\ SaveEffect(r)
       /\ IF r = "saved"
          THEN Goto(c, AfterPurge(call[c].op)) /\ UNCHANGED reply
          ELSE Answer(c, "internal", {})
  /\ mu' = NoClient
  /\ UNCHANGED <<store, volatile, now, call, snap, acked>>

-----------------------------------------------------------------------------
(* List: two reads under a.mu, then one of the store under s.mu alone. *)

(* Mutation of ListSession: the check of the master key is gone. *)
BugListSession(c) ==
  /\ pc[c] = "listSession"
  /\ mu = NoClient
  /\ snap' = [snap EXCEPT ![c].session = sessionAutoload0]
  /\ Goto(c, "listHidden")
  /\ UNCHANGED <<store, disk, volatile, mu, now, call, reply, acked>>

ListSession(c) ==
  /\ pc[c] = "listSession"
  /\ mu = NoClient
  /\ IF Locked
     THEN Answer(c, "ok", {}) /\ UNCHANGED snap
     ELSE /\ snap' = [snap EXCEPT ![c].session = sessionAutoload0]
          /\ Goto(c, "listHidden")
          /\ UNCHANGED reply
  /\ UNCHANGED <<store, disk, volatile, mu, now, call, acked>>

ListHidden(c) ==
  /\ pc[c] = "listHidden"
  /\ mu = NoClient
  /\ snap' = [snap EXCEPT ![c].hidden = sessionUnloaded]
  /\ Goto(c, "listRows")
  /\ UNCHANGED <<store, disk, volatile, mu, now, call, reply, acked>>

ListRows(c) ==
  /\ pc[c] = "listRows"
  /\ Answer(c, "ok", Rows(snap[c].session, snap[c].hidden))
  /\ UNCHANGED <<store, disk, volatile, mu, now, call, snap, acked>>

-----------------------------------------------------------------------------
(* Sign: signerForKey looks the key up under a.mu, and decrypts after it. *)

(* Mutation of LookupStatus: any stored key signs, listed or not. *)
BugLookupStatus(fp) ==
  CASE Locked                 -> "locked"
    [] ~Locked /\ ~Stored(fp) -> "notFound"
    [] OTHER                  -> "ok"

LookupStatus(fp) ==
  CASE Locked                                                    -> "locked"
    [] ~Locked /\ ~Stored(fp)                                    -> "notFound"
    [] ~Locked /\ Stored(fp) /\ ~store[fp].autoload
               /\ fp \notin sessionAutoload0                     -> "notFound"
    [] OTHER                                                     -> "ok"

SignLookup(c) ==
  /\ pc[c] = "signLookup"
  /\ mu = NoClient
  /\ IF LookupStatus(call[c].fp) = "ok"
     THEN Goto(c, "signDecrypt") /\ UNCHANGED reply
     ELSE Answer(c, LookupStatus(call[c].fp), {})
  /\ UNCHANGED <<store, disk, volatile, mu, now, call, snap, acked>>

(* a.masterKey is read without a.mu, so a Lock in progress may have wiped it
   or set it to nil: decryption then fails.  (A torn read of the slice can
   fault, which Restart covers.) *)
SignDecrypt(c) ==
  /\ pc[c] = "signDecrypt"
  /\ Answer(c, IF masterKey = "intact" THEN "ok" ELSE "internal", {})
  /\ UNCHANGED <<store, disk, volatile, mu, now, call, snap, acked>>

-----------------------------------------------------------------------------
(* Operations that change the identities: memory first, then Save, and what
   the session sets gain only once the save has succeeded. *)

NeedsUnlocked ==
  {"add", "remove", "removeAll", "lock", "sessionLoad", "sessionUnload",
   "setAutoload", "setComment"}

RefusedLocked(c) ==
  /\ Arrived(c, NeedsUnlocked)
  /\ Locked
  /\ AnswerOnly(c, "locked")

(* Mutation of NewIdentity: another value than the zero time for no lifetime. *)
BugNewIdentity(r) ==
  [autoload  |-> r.autoload,
   comment   |-> r.comment,
   expiresAt |-> IF r.lifetime > 0 THEN now + r.lifetime ELSE -1]

NewIdentity(r) ==
  [autoload  |-> r.autoload,
   comment   |-> r.comment,
   expiresAt |-> IF r.lifetime > 0 THEN now + r.lifetime ELSE 0]

(* addKeyWithAutoload, reached by Add (autoload off) and by the add-key op. *)
Add(c) ==
  /\ Arrived(c, {"add"})
  /\ ~Locked
  /\ store' = [store EXCEPT ![call[c].fp] = NewIdentity(call[c])]
  /\ acked' = [acked EXCEPT ![call[c].fp] = IF @ = "absent" THEN "unknown" ELSE @]
  /\ HoldForSave(c)
  /\ UNCHANGED <<sessionAutoload0, sessionUnloaded>>

Remove(c) ==
  /\ Arrived(c, {"remove"})
  /\ ~Locked
  /\ RemoveFromStore({call[c].fp})
  /\ ForgetSession({call[c].fp})
  /\ IF Stored(call[c].fp)
     THEN Unpromise({call[c].fp}) /\ HoldForSave(c)
     ELSE /\ Answer(c, "notFound", {})
          /\ UNCHANGED <<disk, masterKey, mu, now, call, snap, acked>>

RemoveAll(c) ==
  /\ Arrived(c, {"removeAll"})
  /\ ~Locked
  /\ RemoveFromStore(Fingerprint)
  /\ ForgetSession(Fingerprint)
  /\ Unpromise(Fingerprint)
  /\ HoldForSave(c)

(* setIdentityAutoload and setIdentityComment copy the identity, change one
   field and put it back; an identity that already has it is not saved. *)
Updated(r) ==
  IF r.op = "setAutoload" THEN [store[r.fp] EXCEPT !.autoload = r.on]
                          ELSE [store[r.fp] EXCEPT !.comment = r.comment]

Update(c) ==
  /\ Arrived(c, {"setAutoload", "setComment"})
  /\ ~Locked
  /\ LET r == call[c] IN
       CASE ~Stored(r.fp)                                -> AnswerOnly(c, "notFound")
         [] Stored(r.fp) /\ Updated(r) = store[r.fp]     -> AnswerOnly(c, "ok")
         [] OTHER -> /\ store' = [store EXCEPT ![r.fp] = Updated(r)]
                     /\ HoldForSave(c)
                     /\ UNCHANGED <<sessionAutoload0, sessionUnloaded, acked>>

(* What each operation does to the session sets once it is saved. *)
CommitSession(r) ==
  /\ sessionAutoload0' =
       IF r.op = "add" /\ ~r.autoload THEN sessionAutoload0 \cup {r.fp}
       ELSE IF r.op = "setAutoload" /\ r.on THEN sessionAutoload0 \ {r.fp}
       ELSE sessionAutoload0
  /\ sessionUnloaded' =
       IF r.op = "setAutoload" THEN sessionUnloaded \ {r.fp} ELSE sessionUnloaded

Promise(r) ==
  acked' =
    CASE r.op = "add"       -> [acked EXCEPT ![r.fp] = "present"]
      [] r.op = "remove"    -> [acked EXCEPT ![r.fp] = "absent"]
      [] r.op = "removeAll" -> [fp \in Fingerprint |-> "absent"]
      [] OTHER              -> acked

Save(c) ==
  /\ pc[c] = "save"
  /\ \E r \in SaveOutcome :
       /\ SaveEffect(r)
       /\ IF r = "saved"
          THEN CommitSession(call[c]) /\ Promise(call[c]) /\ Answer(c, "ok", {})
          ELSE /\ Answer(c, "internal", {})
               /\ UNCHANGED <<sessionAutoload0, sessionUnloaded, acked>>
  /\ mu' = NoClient
  /\ UNCHANGED <<store, masterKey, now, call, snap>>

-----------------------------------------------------------------------------
(* The session sets alone: nothing is saved. *)

SessionOp(c) ==
  /\ Arrived(c, {"sessionLoad", "sessionUnload"})
  /\ ~Locked
  /\ LET fp == call[c].fp IN
       CASE ~Stored(fp) ->
              /\ Answer(c, "notFound", {})
              /\ UNCHANGED <<sessionAutoload0, sessionUnloaded>>
         [] Stored(fp) /\ call[c].op = "sessionLoad" ->
              /\ sessionUnloaded' = sessionUnloaded \ {fp}
              /\ sessionAutoload0' = IF store[fp].autoload THEN sessionAutoload0
                                     ELSE sessionAutoload0 \cup {fp}
              /\ Answer(c, "ok", {})
         [] OTHER ->
              /\ sessionAutoload0' = sessionAutoload0 \ {fp}
              /\ sessionUnloaded' = sessionUnloaded \cup {fp}
              /\ Answer(c, "ok", {})
  /\ UNCHANGED <<store, disk, masterKey, mu, now, call, snap, acked>>

-----------------------------------------------------------------------------
(* Lock, Unlock and UnlockWithRecovery.  The key is wiped in place before the
   field changes, and only a.mu makes the two look like one. *)

WipeKey(c) ==
  /\ masterKey' = "wiped"
  /\ mu' = c
  /\ Goto(c, "keyWrite")
  /\ UNCHANGED <<store, disk, sessionAutoload0, sessionUnloaded, now, call,
                 reply, snap, acked>>

SetKey(c) ==
  /\ masterKey' = "intact"
  /\ Answer(c, "ok", {})
  /\ UNCHANGED <<store, disk, sessionAutoload0, sessionUnloaded, mu, now, call,
                 snap, acked>>

Lock(c) ==
  /\ Arrived(c, {"lock"})
  /\ ~Locked
  /\ WipeKey(c)

Unlock(c) ==
  /\ Arrived(c, {"unlock"})
  /\ IF Locked THEN SetKey(c) \/ AnswerOnly(c, "wrongPassphrase")
               ELSE AnswerOnly(c, "notLocked")

(* Unlike Unlock, allowed on a vault that is not locked. *)
UnlockWithRecovery(c) ==
  /\ Arrived(c, {"unlockRecovery"})
  /\ IF HasRecovery
     THEN \/ AnswerOnly(c, "wrongPassphrase")
          \/ IF Locked THEN SetKey(c) ELSE WipeKey(c)
     ELSE AnswerOnly(c, "noRecovery")

(* Mutation of KeyWrite: a return path that keeps a.mu. *)
BugKeyWrite(c) ==
  /\ pc[c] = "keyWrite"
  /\ masterKey' = IF call[c].op = "lock" THEN "nil" ELSE "intact"
  /\ Answer(c, "ok", {})
  /\ UNCHANGED <<store, disk, sessionAutoload0, sessionUnloaded, mu, now, call,
                 snap, acked>>

KeyWrite(c) ==
  /\ pc[c] = "keyWrite"
  /\ masterKey' = IF call[c].op = "lock" THEN "nil" ELSE "intact"
  /\ mu' = NoClient
  /\ Answer(c, "ok", {})
  /\ UNCHANGED <<store, disk, sessionAutoload0, sessionUnloaded, now, call,
                 snap, acked>>

-----------------------------------------------------------------------------
(* The clock, and a daemon that stops at any point and is started again. *)

Tick ==
  /\ now < MaxTime
  /\ now' = now + 1
  /\ UNCHANGED <<store, disk, volatile, mu, pc, call, reply, snap, acked>>

Restart ==
  /\ store' = disk
  /\ masterKey' = "nil"
  /\ sessionAutoload0' = {}
  /\ sessionUnloaded' = {}
  /\ mu' = NoClient
  /\ pc' = [c \in Client |-> "idle"]
  /\ call' = [c \in Client |-> NoRequest]
  /\ reply' = [c \in Client |-> NoReply]
  /\ snap' = [c \in Client |-> NoSnap]
  /\ UNCHANGED <<disk, now, acked>>

(* One step of the goroutine serving c. *)
Serve(c) ==
  \/ NothingToPurge(c) \/ PurgeExpired(c) \/ PurgeSave(c)
  \/ ListSession(c) \/ ListHidden(c) \/ ListRows(c)
  \/ SignLookup(c) \/ SignDecrypt(c)
  \/ RefusedLocked(c) \/ Add(c) \/ Remove(c) \/ RemoveAll(c) \/ Update(c)
  \/ SessionOp(c) \/ Save(c)
  \/ Lock(c) \/ Unlock(c) \/ UnlockWithRecovery(c) \/ KeyWrite(c)

Next ==
  \/ \E c \in Client : Begin(c) \/ Return(c) \/ Serve(c)
  \/ Tick
  \/ Restart

Spec == Init /\ [][Next]_vars

(* The scheduler runs every goroutine, and Go's RWMutex hands the lock to
   every waiter in the end (its writers hold back new readers, and a waiter
   starved for a millisecond is served first), so a step that is enabled
   again and again is taken. *)
FairSpec == Spec /\ \A c \in Client : SF_vars(Serve(c)) /\ WF_vars(Return(c))

-----------------------------------------------------------------------------
(* Properties. *)

Labels == {"idle", "called", "purgeSave", "listSession", "listHidden",
           "listRows", "signLookup", "signDecrypt", "save", "keyWrite", "done"}

(* Every variable has its type. *)
TypeOK ==
  /\ store \in Vault
  /\ disk \in Vault
  /\ masterKey \in {"nil", "intact", "wiped"}
  /\ sessionAutoload0 \in SUBSET Fingerprint
  /\ sessionUnloaded \in SUBSET Fingerprint
  /\ mu \in Client \cup {NoClient}
  /\ now \in Nat
  /\ pc \in [Client -> Labels]
  /\ call \in [Client -> AllRequests \cup {NoRequest}]
  /\ reply \in [Client -> [status : Status, rows : SUBSET Fingerprint]]
  /\ snap \in [Client -> [session : SUBSET Fingerprint, hidden : SUBSET Fingerprint]]
  /\ acked \in [Fingerprint -> {"unknown", "present", "absent"}]

(* The session sets hold only identities of the vault: Remove, RemoveAll and
   the purge take a key out of them together with the identity, so a key that
   comes back later is neither listed nor hidden by what was asked for its
   predecessor. *)
SessionSetsInStore ==
  \A fp \in sessionAutoload0 \cup sessionUnloaded : Stored(fp)

(* What Add, Remove and RemoveAll have answered holds on disk, through failed
   saves of other operations, locks and restarts, until the next of them. *)
AckedDurable ==
  \A fp \in Fingerprint :
    /\ acked[fp] = "present" => disk[fp] # NoIdentity
    /\ acked[fp] = "absent" => disk[fp] = NoIdentity

(* The agent a client sees.  A key that UnlockWithRecovery is replacing counts
   as unlocked: nobody can observe the moment in between but a Sign. *)
Promised == INSTANCE LockableAgent WITH
              Contents <- Vault, locked <- Locked, held <- store, saved <- disk

(* The vault keeps the promise: while it is locked nobody changes it, in
   memory or on disk (Lock cannot slip in between the two halves of an
   operation), and a restart brings the file back, locked. *)
KeepsLockPromise == Promised!Spec

(* A setAutoload that is answered ok has its flag on disk (agent.go's comment:
   it "persists Autoload for an identity").  It does not hold: after a save
   that failed, memory already has the flag and a retry is answered ok
   without saving. *)
SetAutoloadPersists ==
  [][\A c \in Client :
       pc[c] # "done" /\ pc'[c] = "done" /\ call[c].op = "setAutoload"
         /\ reply'[c].status = "ok"
       => /\ disk'[call[c].fp] # NoIdentity
          /\ disk'[call[c].fp].autoload = call[c].on]_vars

(* Every call is answered: whoever waits for a.mu gets it. *)
CallsAnswered == \A c \in Client : pc[c] = "called" ~> pc[c] = "idle"

-----------------------------------------------------------------------------
(* The inductive invariant behind SessionSetsInStore, AckedDurable and
   KeepsLockPromise.  It adds who holds a.mu, what that says about the master
   key, and what the first half of each operation has left for Save. *)

Holding == {"purgeSave", "save", "keyWrite"}

HolderHoldsMu ==
  \A c \in Client : pc[c] \in Holding <=> mu = c

KeyMatchesHolder ==
  /\ mu = NoClient => masterKey # "wiped"
  /\ \A c \in Client :
       /\ pc[c] \in {"save", "purgeSave"} => masterKey = "intact"
       /\ pc[c] = "keyWrite" => masterKey = "wiped"

CallMatchesLabel ==
  \A c \in Client :
    /\ pc[c] = "called" => call[c] \in AllRequests
    /\ pc[c] \in {"purgeSave", "listSession", "listHidden", "listRows",
                  "signLookup", "signDecrypt"}
         => call[c] \in AllRequests /\ call[c].op \in {"list", "sign"}
    /\ pc[c] \in {"listSession", "listHidden", "listRows"} => call[c].op = "list"
    /\ pc[c] \in {"signLookup", "signDecrypt"} => call[c].op = "sign"
    /\ pc[c] = "save" =>
         /\ call[c] \in AllRequests
         /\ call[c].op \in {"add", "remove", "removeAll", "setAutoload", "setComment"}
    /\ pc[c] = "keyWrite" => call[c].op \in {"lock", "unlockRecovery"}

SaveAgreesWithStore ==
  \A c \in Client : pc[c] = "save" =>
    /\ call[c].op \in {"add", "setAutoload"} => Stored(call[c].fp)
    /\ call[c].op = "remove" => ~Stored(call[c].fp)
    /\ call[c].op = "removeAll" => \A fp \in Fingerprint : ~Stored(fp)

AckedAgrees ==
  \A fp \in Fingerprint :
    /\ acked[fp] = "present" => Stored(fp) /\ disk[fp] # NoIdentity
    /\ acked[fp] = "absent" => ~Stored(fp) /\ disk[fp] = NoIdentity

IInv ==
  /\ TypeOK
  /\ HolderHoldsMu
  /\ KeyMatchesHolder
  /\ CallMatchesLabel
  /\ SaveAgreesWithStore
  /\ SessionSetsInStore
  /\ AckedAgrees
=============================================================================

--------------------------- MODULE KDFLockedKeyring ---------------------------
(***************************************************************************)
(* The keys backend of the agent (agent/kdf_locked_keyring.go): an x/crypto *)
(* keyring behind a lock of sshush's own.  Every operation runs under one  *)
(* mutex, so each is one step, whichever connection it came on.  Lock and  *)
(* Unlock also arrive through the sshush-op extension, whose answer names  *)
(* the reason of a failure; over the plain protocol a failure has none.    *)
(*                                                                         *)
(* The inner keyring is external: it holds keys, and drops those whose     *)
(* lifetime is over when it lists or signs.  A derived key is the          *)
(* passphrase it was derived from.                                         *)
(***************************************************************************)
EXTENDS FiniteSets

CONSTANTS Key,          \* keys
          Passphrase,   \* passphrases
          NoVerifier    \* no lock verifier is kept

(* Assumed of the constants. *)
VerifierIsNone == NoVerifier \notin Passphrase

VARIABLES
  keyPaths,  \* the keys the key_paths of the configuration load at start
  inner,     \* the keys of the inner keyring
  aged,      \* those whose lifetime is over and which it has not dropped yet
  locked,    \* KDFLockedKeyring.locked
  verifier,  \* salt and derivedKey
  answer     \* what the last operation answered: its name, argument and status

vars == <<keyPaths, inner, aged, locked, verifier, answer>>

Status == {"ok", "locked", "notLocked", "wrongPassphrase", "notFound",
           "unsupportedOp"}

Init ==
  /\ keyPaths \in SUBSET Key
  /\ inner = keyPaths
  /\ aged = {}
  /\ locked = FALSE
  /\ verifier = NoVerifier
  /\ answer = [op |-> "start", status |-> "ok", rows |-> {}]

Answer(op, status, rows) ==
  answer' = [op |-> op, status |-> status, rows |-> rows]

Refuse(op, status) ==
  Answer(op, status, {}) /\ UNCHANGED <<keyPaths, inner, aged, locked, verifier>>

(* Mutation of LockRefused: a second Lock is let through. *)
BugLockRefused == FALSE

(* A lock on a locked agent is refused, whoever asks. *)
LockRefused == locked

Lock(p) ==
  IF LockRefused THEN Refuse("lock", "locked")
  ELSE /\ verifier' = p
       /\ locked' = TRUE
       /\ Answer("lock", "ok", {})
       /\ UNCHANGED <<keyPaths, inner, aged>>

(* Mutation of WipeVerifier: the verifier outlives the lock. *)
BugWipeVerifier == verifier' = verifier

WipeVerifier == verifier' = NoVerifier

Unlock(p) ==
  CASE ~locked                    -> Refuse("unlock", "notLocked")
    [] locked /\ p # verifier     -> Refuse("unlock", "wrongPassphrase")
    [] OTHER -> /\ WipeVerifier
                /\ locked' = FALSE
                /\ Answer("unlock", "ok", {})
                /\ UNCHANGED <<keyPaths, inner, aged>>

(* List answers a locked agent's client with no key, and no error. *)
List ==
  IF locked THEN Refuse("list", "ok")
  ELSE /\ inner' = inner \ aged
       /\ aged' = {}
       /\ Answer("list", "ok", inner \ aged)
       /\ UNCHANGED <<keyPaths, locked, verifier>>

(* Sign, SignWithFlags. *)
Sign(k) ==
  IF locked THEN Refuse("sign", "locked")
  ELSE /\ inner' = inner \ aged
       /\ aged' = {}
       /\ Answer("sign", IF k \in inner \ aged THEN "ok" ELSE "notFound", {})
       /\ UNCHANGED <<keyPaths, locked, verifier>>

Add(k) ==
  IF locked THEN Refuse("add", "locked")
  ELSE /\ inner' = inner \cup {k}
       /\ aged' = aged \ {k}
       /\ Answer("add", "ok", {})
       /\ UNCHANGED <<keyPaths, locked, verifier>>

(* Mutation of MayRemove: the lock does not guard removal. *)
BugMayRemove == TRUE

MayRemove == ~locked

Remove(k) ==
  CASE ~MayRemove                 -> Refuse("remove", "locked")
    [] MayRemove /\ k \notin inner -> Refuse("remove", "notFound")
    [] OTHER -> /\ inner' = inner \ {k}
                /\ aged' = aged \ {k}
                /\ Answer("remove", "ok", {})
                /\ UNCHANGED <<keyPaths, locked, verifier>>

RemoveAll ==
  IF locked THEN Refuse("removeAll", "locked")
  ELSE /\ inner' = {}
       /\ aged' = {}
       /\ Answer("removeAll", "ok", {})
       /\ UNCHANGED <<keyPaths, locked, verifier>>

(* Mutation of OtherOp: it falls through to a status nobody expects. *)
BugOtherOp == Refuse("otherOp", "internal")

(* Every op of the extension but lock and unlock: there is no vault here. *)
OtherOp == Refuse("otherOp", "unsupportedOp")

(* A key's lifetime ends in the inner keyring. *)
LifetimeEnds(k) ==
  /\ k \in inner \ aged
  /\ aged' = aged \cup {k}
  /\ UNCHANGED <<keyPaths, inner, locked, verifier, answer>>

(* The daemon stops and starts again: nothing of the lock is on disk. *)
Restart ==
  /\ inner' = keyPaths
  /\ aged' = {}
  /\ locked' = FALSE
  /\ verifier' = NoVerifier
  /\ Answer("start", "ok", {})
  /\ UNCHANGED keyPaths

Next ==
  \/ \E p \in Passphrase : Lock(p) \/ Unlock(p)
  \/ \E k \in Key : Sign(k) \/ Add(k) \/ Remove(k) \/ LifetimeEnds(k)
  \/ List \/ RemoveAll \/ OtherOp \/ Restart

Spec == Init /\ [][Next]_vars

-----------------------------------------------------------------------------
(* Properties. *)

(* Every variable has its type. *)
TypeOK ==
  /\ keyPaths \in SUBSET Key
  /\ inner \in SUBSET Key
  /\ aged \in SUBSET inner
  /\ locked \in BOOLEAN
  /\ verifier \in Passphrase \cup {NoVerifier}
  /\ answer.status \in Status /\ answer.rows \in SUBSET Key

(* The verifier is in memory exactly while the agent is locked: an unlocked
   agent keeps nothing derived from a passphrase, and a locked one can be
   unlocked. *)
VerifierOnlyWhileLocked == locked <=> verifier # NoVerifier

(* Whoever locked the agent first decides what unlocks it: a later Lock with
   another passphrase changes nothing, and nothing but that passphrase or a
   restart ends the lock. *)
FirstLockDecides ==
  [][locked /\ locked' => verifier' = verifier]_vars

Promised == INSTANCE LockableAgent WITH
              Contents <- SUBSET Key, held <- inner, saved <- keyPaths

(* The keys backend keeps the promise both backends make: no key comes or
   goes while it is locked. *)
KeepsLockPromise == Promised!Spec
=============================================================================

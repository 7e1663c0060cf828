------------------------------ MODULE Agents_proof ------------------------------
(* Proofs about the two backends side by side: the keyring, for any set of keys and
   passphrases, then both, with what VaultAgent_proof shows of the vault agent. *)
EXTENDS MCAgents, VaultAgent_proof

KeyringInv == Keys!TypeOK /\ Keys!VerifierOnlyWhileLocked

LEMMA KeyringInit == Keys!Init => KeyringInv
<1> SUFFICES ASSUME Keys!Init PROVE KeyringInv
  OBVIOUS
<1>1. Keys!TypeOK
  BY DEF Keys!Init, Keys!TypeOK, Keys!Status
<1>2. Keys!VerifierOnlyWhileLocked
  BY Zenon DEF Keys!Init, Keys!VerifierOnlyWhileLocked
<1> QED
  BY <1>1, <1>2 DEF KeyringInv

(* A refusal changes the answer and nothing else. *)
LEMMA KeyringRefuses ==
  ASSUME KeyringInv, NEW op, NEW s \in Keys!Status, Keys!Refuse(op, s)
  PROVE  KeyringInv'
BY DEF Keys!Refuse, Keys!Answer, KeyringInv, Keys!TypeOK, Keys!VerifierOnlyWhileLocked

LEMMA KeyringLocks ==
  ASSUME KeyringInv, NEW p \in Passphrase, Keys!Lock(p) \/ Keys!Unlock(p)
  PROVE  KeyringInv'
<1>1. CASE Keys!Lock(p)
  <2>1. CASE Keys!LockRefused
    BY <1>1, <2>1, KeyringRefuses, "locked" \in Keys!Status DEF Keys!Lock, Keys!Status
  <2>2. CASE ~Keys!LockRefused
    <3>1. locked' = TRUE /\ verifier' = p /\ p # NoVerifier
      BY <1>1, <2>2, KeysAssumption DEF Keys!Lock, Keys!VerifierIsNone
    <3>2. Keys!VerifierOnlyWhileLocked'
      BY <3>1, Zenon DEF Keys!VerifierOnlyWhileLocked
    <3>3. Keys!TypeOK'
      BY <1>1, <2>2, <3>1 DEF Keys!Lock, Keys!Answer, KeyringInv, Keys!TypeOK, Keys!Status
    <3> QED
      BY <3>2, <3>3 DEF KeyringInv
  <2> QED
    BY <2>1, <2>2
<1>2. CASE Keys!Unlock(p)
  <2>1. CASE ~locked
    BY <1>2, <2>1, KeyringRefuses, "notLocked" \in Keys!Status DEF Keys!Unlock, Keys!Status
  <2>2. CASE locked /\ p # verifier
    BY <1>2, <2>2, KeyringRefuses, "wrongPassphrase" \in Keys!Status
      DEF Keys!Unlock, Keys!Status
  <2>3. CASE locked /\ p = verifier
    <3>1. locked' = FALSE /\ verifier' = NoVerifier
      BY <1>2, <2>3 DEF Keys!Unlock, Keys!WipeVerifier
    <3>2. Keys!VerifierOnlyWhileLocked'
      BY <3>1, Zenon DEF Keys!VerifierOnlyWhileLocked
    <3>3. Keys!TypeOK'
      <4>1. UNCHANGED <<keyPaths, inner, aged>>
        BY <1>2, <2>3 DEF Keys!Unlock
      <4>2. answer' = [op |-> "unlock", status |-> "ok", rows |-> {}]
        BY <1>2, <2>3 DEF Keys!Unlock, Keys!Answer
      <4>3. locked' \in BOOLEAN
        BY <3>1, Zenon
      <4> QED
        BY <3>1, <4>1, <4>2, <4>3 DEF KeyringInv, Keys!TypeOK, Keys!Status
    <3> QED
      BY <3>2, <3>3 DEF KeyringInv
  <2> QED
    BY <2>1, <2>2, <2>3
<1> QED
  BY <1>1, <1>2

LEMMA KeyringKeys ==
  ASSUME KeyringInv, NEW k \in Key,
         Keys!Sign(k) \/ Keys!Add(k) \/ Keys!Remove(k) \/ Keys!LifetimeEnds(k)
  PROVE  KeyringInv'
<1> USE DEF KeyringInv, Keys!TypeOK, Keys!VerifierOnlyWhileLocked, Keys!Status, Keys!Answer,
       Keys!Refuse
<1>1. CASE Keys!Sign(k)
  BY <1>1 DEF Keys!Sign
<1>2. CASE Keys!Add(k)
  BY <1>2 DEF Keys!Add
<1>3. CASE Keys!Remove(k)
  BY <1>3 DEF Keys!Remove
<1>4. CASE Keys!LifetimeEnds(k)
  BY <1>4 DEF Keys!LifetimeEnds
<1> QED
  BY <1>1, <1>2, <1>3, <1>4

LEMMA KeyringNext == KeyringInv /\ [Keys!Next]_Keys!vars => KeyringInv'
<1> SUFFICES ASSUME KeyringInv, [Keys!Next]_Keys!vars PROVE KeyringInv'
  OBVIOUS
<1>1. CASE UNCHANGED Keys!vars
  BY <1>1 DEF Keys!vars, KeyringInv, Keys!TypeOK, Keys!VerifierOnlyWhileLocked
<1>2. CASE Keys!List \/ Keys!RemoveAll \/ Keys!OtherOp \/ Keys!Restart
  <2>1. Keys!VerifierOnlyWhileLocked'
    <3>1. CASE UNCHANGED <<locked, verifier>>
      BY <3>1 DEF KeyringInv, Keys!VerifierOnlyWhileLocked
    <3>2. CASE Keys!Restart
      BY <3>2, Zenon DEF Keys!Restart, Keys!VerifierOnlyWhileLocked
    <3> QED
      BY <1>2, <3>1, <3>2 DEF Keys!List, Keys!RemoveAll, Keys!OtherOp, Keys!Refuse
  <2>2. Keys!TypeOK'
    <3>1. CASE Keys!List \/ Keys!RemoveAll \/ Keys!OtherOp
      BY <3>1 DEF Keys!List, Keys!RemoveAll, Keys!OtherOp, Keys!Refuse, Keys!Answer, KeyringInv,
         Keys!TypeOK, Keys!Status
    <3>2. CASE Keys!Restart
      <4>1. locked' \in BOOLEAN
        BY <3>2, Zenon DEF Keys!Restart
      <4> QED
        BY <3>2, <4>1 DEF Keys!Restart, Keys!Answer, KeyringInv, Keys!TypeOK, Keys!Status
    <3> QED
      BY <1>2, <3>1, <3>2
  <2> QED
    BY <2>1, <2>2 DEF KeyringInv
<1> QED
  BY <1>1, <1>2, KeyringLocks, KeyringKeys DEF Keys!Next

(* The inductive invariant of the keyring (kdf_locked_keyring.go). *)
THEOREM KeyringInvariance == Keys!Spec => []KeyringInv
BY KeyringInit, KeyringNext, PTL DEF Keys!Spec

(* A derived passphrase is kept exactly while the agent is locked. *)
THEOREM VerifierKept == Keys!Spec => []Keys!VerifierOnlyWhileLocked
<1>1. KeyringInv => Keys!VerifierOnlyWhileLocked
  BY DEF KeyringInv
<1> QED
  BY <1>1, KeyringInvariance, PTL

(* No later Lock changes what unlocks the agent. *)
THEOREM KeyringFirstLock == Keys!Spec => Keys!FirstLockDecides
<1>1. KeyringInv /\ [Keys!Next]_Keys!vars =>
        [locked /\ locked' => verifier' = verifier]_Keys!vars
  <2> SUFFICES ASSUME Keys!Next, locked, locked' PROVE verifier' = verifier
    BY DEF Keys!vars
  <2> QED
    BY DEF Keys!Next, Keys!Lock, Keys!LockRefused, Keys!Unlock, Keys!WipeVerifier, Keys!Refuse,
       Keys!Sign, Keys!Add, Keys!Remove, Keys!LifetimeEnds,
       Keys!List, Keys!RemoveAll, Keys!OtherOp, Keys!Restart
<1> QED
  BY <1>1, KeyringInvariance, PTL DEF Keys!Spec, Keys!FirstLockDecides

LEMMA KeyringRefines ==
  KeyringInv /\ KeyringInv' /\ [Keys!Next]_Keys!vars =>
    [Keys!Promised!Next]_Keys!Promised!avars
<1> SUFFICES ASSUME KeyringInv, KeyringInv', [Keys!Next]_Keys!vars
    PROVE Keys!Promised!Next \/ UNCHANGED Keys!Promised!avars
  BY DEF Keys!Promised!avars
<1> USE DEF Keys!Promised!avars
<1>1. inner' \in SUBSET Key /\ keyPaths' \in SUBSET Key
  BY DEF KeyringInv, Keys!TypeOK
<1>2. CASE UNCHANGED Keys!vars \/ \E k \in Key : Keys!LifetimeEnds(k)
  BY <1>2 DEF Keys!vars, Keys!LifetimeEnds
<1>3. ASSUME NEW p \in Passphrase, Keys!Lock(p) \/ Keys!Unlock(p)
      PROVE  Keys!Promised!Next \/ UNCHANGED Keys!Promised!avars
  BY <1>3 DEF Keys!Lock, Keys!LockRefused, Keys!Unlock, Keys!Refuse, Keys!Promised!Next,
     Keys!Promised!Lock, Keys!Promised!Unlock
<1>4. ASSUME NEW k \in Key, Keys!Sign(k) \/ Keys!Add(k) \/ Keys!Remove(k)
      PROVE  Keys!Promised!Next \/ UNCHANGED Keys!Promised!avars
  BY <1>1, <1>4 DEF Keys!Sign, Keys!Add, Keys!Remove, Keys!MayRemove, Keys!Refuse,
     Keys!Promised!Next, Keys!Promised!Change
<1>5. CASE Keys!List \/ Keys!RemoveAll \/ Keys!OtherOp
  BY <1>1, <1>5 DEF Keys!List, Keys!RemoveAll, Keys!OtherOp, Keys!Refuse,
     Keys!Promised!Next, Keys!Promised!Change
<1>6. CASE Keys!Restart
  BY <1>6 DEF Keys!Restart, Keys!Promised!Next, Keys!Promised!Restart
<1> QED
  BY <1>2, <1>3, <1>4, <1>5, <1>6 DEF Keys!Next

(* Every variable of the keyring keeps its type. *)
THEOREM KeyringTypes == Keys!Spec => []Keys!TypeOK
BY KeyringInvariance, PTL DEF KeyringInv

(* The keyring backend implements LockableAgent. *)
THEOREM KeyringPromise == Keys!Spec => Keys!KeepsLockPromise
<1>1. Keys!Init => Keys!Promised!Init
  BY DEF Keys!Init, Keys!Promised!Init
<1> QED
  BY <1>1, KeyringRefines, KeyringInvariance, PTL
     DEF Keys!Spec, Keys!KeepsLockPromise, Keys!Promised!Spec

-----------------------------------------------------------------------------
(* A behaviour of MCAgents is one of each backend: of the one it looks at, and one
   of the other in which nothing happens. *)
THEOREM BothBackends == BothSpec => SSpec /\ Keys!Spec
<1>1. BothInit => SInit /\ Keys!Init
  BY DEF BothInit
<1>2. [BothNext]_<<backend, svars, keysVars>> => [Next /\ Settle]_svars /\ [Keys!Next]_Keys!vars
  BY DEF BothNext, keysVars, Keys!vars
<1> QED
  BY <1>1, <1>2, PTL DEF BothSpec, SSpec, Keys!Spec

(* Next to a keyring, too, every request to the vault agent but List takes effect at one
   moment (vault/agent.go). *)
THEOREM BothAtomic == BothSpec => RequestsAreAtomic
BY BothBackends, Atomicity, PTL

(* No later Lock of the keyring changes what unlocks it (kdf_locked_keyring.go). *)
THEOREM FirstLockWins == BothSpec => FirstLockDecides
BY BothBackends, KeyringFirstLock, PTL DEF FirstLockDecides

(* Both backends implement LockableAgent (vault/agent.go, kdf_locked_keyring.go). *)
THEOREM BothPromisesKept == BothSpec => BothKeepLockPromise
<1>1. SSpec => Spec
  <2>1. SInit => Init
    BY DEF SInit
  <2>2. [Next /\ Settle]_svars => [Next]_vars
    BY DEF svars
  <2> QED
    BY <2>1, <2>2, PTL DEF SSpec, Spec
<1> QED
  BY <1>1, BothBackends, KeyringPromise, LockPromiseKept, PTL DEF BothKeepLockPromise
=============================================================================

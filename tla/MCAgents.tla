-------------------------------- MODULE MCAgents --------------------------------
(***************************************************************************)
(* The two backends of the agent for TLC: the vault agent and the keyring  *)
(* of keys.  They share no variable and keep the same promise,             *)
(* LockableAgent, so they are checked side by side: a behaviour is one of  *)
(* one backend, while the other stays as it began.                         *)
(***************************************************************************)
EXTENDS VaultAgentAtomic, TLC

CONSTANTS Key, Passphrase, NoVerifier

VARIABLES backend, keyPaths, inner, aged, locked, verifier, answer

Keys == INSTANCE KDFLockedKeyring

keysVars == <<keyPaths, inner, aged, locked, verifier, answer>>

ASSUME KeysAssumption == Keys!VerifierIsNone

(* Where a backend that is not looked at stays. *)
BothInit ==
  /\ backend \in {"vault", "keys"}
  /\ SInit /\ (backend # "vault" => \A fp \in Fingerprint : disk[fp] = NoIdentity)
  /\ Keys!Init /\ (backend # "keys" => keyPaths = {})

BothNext ==
  /\ backend' = backend
  /\ \/ backend = "vault" /\ Next /\ Settle /\ UNCHANGED keysVars
     \/ backend = "keys" /\ Keys!Next /\ UNCHANGED svars

BothSpec == BothInit /\ [][BothNext]_<<backend, svars, keysVars>>

(* The code tells clients apart no more than to know who holds the mutex. *)
ClientSymmetry == Permutations(Client)

-----------------------------------------------------------------------------
(* Properties; RequestsAreAtomic is that of VaultAgentAtomic. *)

(* Keys backend: whoever locked the agent first decides what unlocks it
   (kdf_locked_keyring.go, Lock and Unlock). *)
FirstLockDecides == Keys!FirstLockDecides

(* Both backends: no identity comes or goes while the agent is locked, and a restart
   brings back what was saved (vault/agent.go, kdf_locked_keyring.go). *)
BothKeepLockPromise == KeepsLockPromise /\ Keys!KeepsLockPromise
=============================================================================

-------------------------------- MODULE NewFiles --------------------------------
(***************************************************************************)
(* The two commands that create files in several steps: sshush create      *)
(* (cli/create.go, keys/generate.go, keys/save.go), which writes a private *)
(* key and its .pub, and sshush vault init (cli/vault.go, vaultops/init.go, *)
(* vault/init.go, recovery.go, store.go), which saves a vault, saves it    *)
(* again with a recovery phrase, and writes that phrase to recovery.txt.   *)
(* Any step can fail, the process can be killed between two of them, and   *)
(* another one may be creating the same files.                             *)
(*                                                                         *)
(* A process stands for the key pair, the passphrase and the phrase it     *)
(* makes up.  All processes work on one output path and one vault path.    *)
(***************************************************************************)
EXTENDS Integers, FiniteSets

CONSTANTS Proc, None, Torn

VARIABLES
  priv,     \* the private key file: absent, cut short, or whose key
  public,   \* its .pub file
  vault,    \* the vault file: whose passphrase, and whose phrase opens it too
  tmp,      \* the file Save writes before it renames it
  recovery, \* recovery.txt beside the vault
  at,       \* where each process is
  flags,    \* --force for create, the reverse of --no-recovery for init
  refused,  \* auxiliary: Generate turned down what create had let through
  crossed   \* auxiliary: processes that ran while another one did

vars == <<priv, public, vault, tmp, recovery, at, flags, refused, crossed>>

Vaults == [pass : Proc, phrase : Proc \cup {None}]

(* No file and a file cut short are neither a key nor a vault. *)
NamesDiffer ==
  /\ None \notin Proc /\ None \notin Vaults
  /\ Torn \notin Proc /\ Torn # None

Working == {"stat", "private", "public", "ask", "target", "save", "rename", "phrase", "resave",
            "rerename", "text", "extra"}

Init ==
  /\ priv = None /\ public = None /\ vault = None /\ tmp = None /\ recovery = None
  /\ at = [p \in Proc |-> "idle"]
  /\ flags = [p \in Proc |-> FALSE]
  /\ refused = FALSE /\ crossed = {}

Move(p, stage) == at' = [at EXCEPT ![p] = stage]

Begin(p, stage) ==
  /\ at[p] = "idle"
  /\ Move(p, stage)
  /\ \E flag \in BOOLEAN : flags' = [flags EXCEPT ![p] = flag]
  /\ LET others == {q \in Proc \ {p} : at[q] \in Working}
     IN  crossed' = IF others = {} THEN crossed ELSE crossed \cup others \cup {p}

Fail(p) == Move(p, "failed")

(* ---------------------------- sshush create ----------------------------- *)

KeyTypes == {"ed25519", "rsa", "ecdsa"}
NotGiven == -1
BitChoices == {NotGiven, 0, 256, 384, 1024, 2048, 4096}
FlagDefault == 4096

(* effectiveBitsForCreate: -b wins over the positional argument; NotGiven as a
   result is its error.  It counts the positional argument first. *)
EffectiveBits(keyType, positional, flag) ==
  IF positional = NotGiven
  THEN IF flag # NotGiven THEN flag ELSE IF keyType = "ecdsa" THEN 0 ELSE FlagDefault
  ELSE IF keyType = "ed25519" THEN NotGiven
       ELSE IF flag # NotGiven THEN flag ELSE positional

(* Mutation of CreateAccepts: only the sizes of rsa keys are looked at. *)
BugCreateAccepts(keyType, bits) == keyType = "rsa" => bits \in {0, 2048, 3072, 4096}

(* The two switches of runCreate. *)
CreateAccepts(keyType, bits) ==
  CASE keyType = "rsa" -> bits \in {0, 2048, 3072, 4096}
    [] keyType = "ecdsa" -> bits \in {0, 256, 384, 521}
    [] OTHER -> TRUE

(* keys.Generate, which checks them once more. *)
GenerateAccepts(keyType, bits) ==
  CASE keyType = "rsa" ->
         LET size == IF bits = 0 THEN 4096 ELSE bits
         IN  size >= 2048 /\ size \in {2048, 3072, 4096}
    [] keyType = "ecdsa" -> bits \in {256, 0, 384, 521}
    [] keyType = "ed25519" -> TRUE

Create(p) ==
  \E keyType \in KeyTypes, positional, flag \in BitChoices :
     LET bits == EffectiveBits(keyType, positional, flag)
         valid == bits # NotGiven /\ CreateAccepts(keyType, bits)
     IN  /\ Begin(p, IF valid THEN "stat" ELSE "failed")
         /\ refused' = (refused \/ (valid /\ ~GenerateAccepts(keyType, bits)))
         /\ UNCHANGED <<priv, public, vault, tmp, recovery>>

(* Only the private key's path is looked at: a .pub alone is overwritten. *)
Occupied(p) == ~flags[p] /\ priv # None

(* runCreate's Stat, then Generate, which touches no file. *)
StatOutput(p) ==
  /\ at[p] = "stat"
  /\ Move(p, IF Occupied(p) THEN "failed" ELSE "private")
  /\ UNCHANGED <<priv, public, vault, tmp, recovery, flags, refused, crossed>>

(* os.WriteFile: it truncates, then writes, and an error can come before either. *)
Written(old, new) == {[content |-> new, ok |-> TRUE], [content |-> old, ok |-> FALSE],
                      [content |-> Torn, ok |-> FALSE]}

(* SavePair *)
WritePrivate(p) ==
  /\ at[p] = "private"
  /\ \E w \in Written(priv, p) :
        priv' = w.content /\ Move(p, IF w.ok THEN "public" ELSE "failed")
  /\ UNCHANGED <<public, vault, tmp, recovery, flags, refused, crossed>>

(* Mutation of AfterPublic: the error of the .pub file is dropped. *)
BugAfterPublic(ok) == "created"

AfterPublic(ok) == IF ok THEN "created" ELSE "failed"

WritePublic(p) ==
  /\ at[p] = "public"
  /\ \E w \in Written(public, p) : public' = w.content /\ Move(p, AfterPublic(w.ok))
  /\ UNCHANGED <<priv, vault, tmp, recovery, flags, refused, crossed>>

(* -------------------------- sshush vault init --------------------------- *)

(* Mutation of CanInit: a vault that is there is not looked for. *)
BugCanInit == TRUE

CanInit == vault = None

(* InitTarget, before the passphrase is asked for. *)
InitVault(p) ==
  /\ Begin(p, IF CanInit THEN "ask" ELSE "failed")
  /\ UNCHANGED <<priv, public, vault, tmp, recovery, refused>>

(* ReadPassphraseWithConfirm: no input, a mismatch or a cancel ends the command. *)
Passphrase(p) ==
  /\ at[p] = "ask"
  /\ Move(p, "target") \/ Fail(p)
  /\ UNCHANGED <<priv, public, vault, tmp, recovery, flags, refused, crossed>>

(* InitTarget again, Open, and the policy of vault.Init on the passphrase. *)
Target(p) ==
  /\ at[p] = "target"
  /\ (CanInit /\ Move(p, "save")) \/ Fail(p)
  /\ UNCHANGED <<priv, public, vault, tmp, recovery, flags, refused, crossed>>

(* The first half of Save: write the temporary file and sync it. *)
WriteTmp(p, meta, then) ==
  /\ \/ tmp' = meta /\ Move(p, then)
     \/ tmp' \in {tmp, Torn, None} /\ Fail(p)
  /\ UNCHANGED <<priv, public, vault, recovery, flags, refused, crossed>>

(* The second half: rename and chmod.  The temporary file can be gone, and the chmod
   can fail once the vault is replaced. *)
Rename(p, then) ==
  /\ \/ tmp # None /\ vault' = tmp /\ tmp' = None /\ (Move(p, then) \/ Fail(p))
     \/ vault' = vault /\ tmp' = None /\ Fail(p)
  /\ UNCHANGED <<priv, public, recovery, flags, refused, crossed>>

SaveVault(p) == at[p] = "save" /\ WriteTmp(p, [pass |-> p, phrase |-> None], "rename")

RenameVault(p) == at[p] = "rename" /\ Rename(p, IF flags[p] THEN "phrase" ELSE "ready")

(* Mutation of AfterPhrase: the phrase is written before the vault that it opens. *)
BugAfterPhrase == "text"

(* GenerateRecoveryMnemonic and EnableRecoveryWithPassphrase on the metadata in
   memory.  Nothing to write comes before it. *)
AfterPhrase == "resave"

MakePhrase(p) ==
  /\ at[p] = "phrase"
  /\ Move(p, AfterPhrase) \/ Fail(p)
  /\ UNCHANGED <<priv, public, vault, tmp, recovery, flags, refused, crossed>>

SaveRecovery(p) == at[p] = "resave" /\ WriteTmp(p, [pass |-> p, phrase |-> p], "rerename")

RenameRecovery(p) == at[p] = "rerename" /\ Rename(p, "text")

(* recovery.txt, in place. *)
WriteText(p) ==
  /\ at[p] = "text"
  /\ \E w \in Written(recovery, p) :
        recovery' = w.content /\ Move(p, IF w.ok THEN "extra" ELSE "failed")
  /\ UNCHANGED <<priv, public, vault, tmp, flags, refused, crossed>>

(* --recovery-file, then the phrase is shown; a copy that cannot be written ends the
   command without showing it. *)
WriteExtra(p) ==
  /\ at[p] = "extra"
  /\ Move(p, "ready") \/ Fail(p)
  /\ UNCHANGED <<priv, public, vault, tmp, recovery, flags, refused, crossed>>

(* The process is killed between two steps. *)
Kill(p) ==
  /\ at[p] \in Working
  /\ Move(p, "killed")
  /\ UNCHANGED <<priv, public, vault, tmp, recovery, flags, refused, crossed>>

Step(p) ==
  \/ Create(p) \/ StatOutput(p) \/ WritePrivate(p) \/ WritePublic(p)
  \/ InitVault(p) \/ Passphrase(p) \/ Target(p) \/ SaveVault(p) \/ RenameVault(p)
  \/ MakePhrase(p) \/ SaveRecovery(p) \/ RenameRecovery(p) \/ WriteText(p) \/ WriteExtra(p)
  \/ Kill(p)

Next == \E p \in Proc : Step(p)

Spec == Init /\ [][Next]_vars

-----------------------------------------------------------------------------

(* keys.Generate never refuses a type and a size create has let through: create and
   Generate each have their own list of sizes (cli/create.go:92-112,
   keys/generate.go:28-63). *)
GenerateAgrees == ~refused

(* Unless another process works on the same files, create replaces no private key
   without --force, and one that reports success leaves a pair that belongs together,
   whatever failed or was killed before it (cli/create.go:118-125, keys/save.go:14-31). *)
PairStaysWhole ==
  [][\A p \in Proc \ crossed :
       /\ at[p] = "private" /\ at'[p] # "private" /\ ~flags[p] => priv \in {None, priv'}
       /\ at[p] = "public" /\ at'[p] = "created" => priv' = p /\ public' = p]_vars

(* create refuses nothing it let through before, overwrites nothing unasked and leaves a
   whole pair (cli/create.go:92-125). *)
CreateKeepsItsWord == []GenerateAgrees /\ PairStaysWhole

(* Unless two inits crossed, a recovery.txt that was written whole opens the vault
   beside it: a kill or an error on the way leaves at worst a vault without one
   (vaultops/init.go:73-85). *)
RecoveryTextOpens ==
  crossed = {} /\ recovery \in Proc => vault \in Vaults /\ vault.phrase = recovery

(* A vault init that reports success, and crossed no other, has left a vault its
   passphrase opens and, unless --no-recovery, the phrase it showed opens as well; no
   later command takes it away (cli/vault.go:88-125, vaultops/init.go:54-95). *)
ReadyVaultOpens ==
  \A p \in Proc : at[p] = "ready" /\ crossed = {} =>
    vault = [pass |-> p, phrase |-> IF flags[p] THEN p ELSE None]

(* The vault that init leaves can be opened by what its user was given
   (vaultops/init.go:54-95). *)
VaultCanBeOpened == RecoveryTextOpens /\ ReadyVaultOpens
=============================================================================

-------------------------------- MODULE MCClients --------------------------------
(***************************************************************************)
(* The commands for TLC: what they do to the running agent, how they       *)
(* create files, and the bodies of their requests.  The three share no     *)
(* variable and are checked side by side, as in MCServer.                  *)
(***************************************************************************)
EXTENDS Integers, FiniteSets, Sequences, TLC

CONSTANTS Client, Key, Vault, NoVault, None, MaxCommands, MaxEvents,
          Proc, Torn,
          Base, MaxField, MaxBody

VARIABLES
  part,
  config, served, locked, store, shown, hidden, readable, file, pub, cli, begun, events, took,
  priv, public, vault, tmp, recovery, at, flags, refused, crossed,
  op, fields, body, answer

Commands == INSTANCE ClientCommands
Files == INSTANCE NewFiles
Payloads == INSTANCE OpPayloads

ASSUME CommandsAssumption == Commands!NamesDiffer
ASSUME FilesAssumption == Files!NamesDiffer
ASSUME PayloadsAssumption == Payloads!FieldsAreShort

vars ==
  <<part,
    config, served, locked, store, shown, hidden, readable, file, pub, cli, begun, events, took,
    priv, public, vault, tmp, recovery, at, flags, refused, crossed,
    op, fields, body, answer>>

(* Where a part that is not looked at stays. *)
NoCommand ==
  /\ Commands!Init
  /\ served = NoVault /\ config.keyPaths = {} /\ Commands!HeldIn(NoVault) = {}

NoPayload ==
  op = "key" /\ fields = Payloads!NotBuilt /\ body = <<>> /\ answer = Payloads!Pending

Init ==
  \/ part = "commands" /\ Commands!Init /\ Files!Init /\ NoPayload
  \/ part = "files" /\ NoCommand /\ Files!Init /\ NoPayload
  \/ part = "payloads" /\ NoCommand /\ Files!Init /\ Payloads!Init

KeepCommands ==
  UNCHANGED <<config, served, locked, store, shown, hidden, readable, file, pub, cli, begun,
              events, took>>
KeepFiles == UNCHANGED <<priv, public, vault, tmp, recovery, at, flags, refused, crossed>>
KeepPayloads == UNCHANGED <<op, fields, body, answer>>

Next ==
  /\ part' = part
  /\ \/ part = "commands" /\ KeepFiles /\ KeepPayloads /\ Commands!Next
     \/ part = "files" /\ KeepCommands /\ KeepPayloads /\ Files!Next
     \/ part = "payloads" /\ KeepCommands /\ KeepFiles /\ Payloads!Next

Spec == Init /\ [][Next]_vars

Symmetry == Permutations(Client) \cup Permutations(Key) \cup Permutations(Proc)

(* ClientCommands: an edit loses no identity in silence and leaves no two comments on one
   (editcomment/sync.go:29-31, :87-123). *)
EditKeepsKeys == Commands!EditKeepsKeys

(* ClientCommands: a reload takes away what has to go and nothing else
   (cli/reload.go:113-131, :173-198). *)
ReloadDoesItsPart == Commands!ReloadDoesItsPart

(* ClientCommands: the vault verbs ask for the right passphrase and report what they did
   (vaultops/env.go:23-27, session.go:18-20). *)
VerbsKeepTheirWord == Commands!VerbsKeepTheirWord

(* ClientCommands: each request does to a vault what the vault agent says it does
   (agent/session.go, vault/agent.go). *)
AsksWhatAgentsDo == Commands!AsksWhatAgentsDo

(* NewFiles: create replaces no key unasked and leaves a pair that belongs together
   (cli/create.go:92-125, keys/save.go:14-31). *)
CreateKeepsItsWord == Files!CreateKeepsItsWord

(* NewFiles: the vault that init leaves can be opened by what its user was given
   (vaultops/init.go:54-95). *)
VaultCanBeOpened == Files!VaultCanBeOpened

(* OpPayloads: what a client lays out the daemon takes apart, without reading past the
   end but once (vault/payload.go:11-58, vault/op.go:122-198). *)
PayloadsAgree == Payloads!PayloadsAgree
=============================================================================

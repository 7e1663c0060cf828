------------------------------- MODULE Clients_proof -------------------------------
(***************************************************************************)
(* Proofs about the commands, for any number of terminals, keys, vaults    *)
(* and processes: what they tell their users of the running agent, what    *)
(* they leave in the files they create, and that a client and a daemon     *)
(* agree on the body of a request.                                         *)
(***************************************************************************)
EXTENDS MCClients, SequenceTheorems, TLAPS

filesVars == <<priv, public, vault, tmp, recovery, at, flags, refused, crossed>>
commandVars ==
  <<config, served, locked, store, shown, hidden, readable, file, pub, cli, begun, events, took>>
payloadVars == <<op, fields, body, answer>>

LEMMA FilesSteps == [Next]_vars => [Files!Next]_filesVars
BY DEF Next, vars, filesVars, KeepFiles

LEMMA CommandSteps == [Next]_vars => [Commands!Next]_commandVars
BY DEF Next, vars, commandVars, KeepCommands

LEMMA PayloadSteps == [Next]_vars => [Payloads!Next]_payloadVars
BY DEF Next, vars, payloadVars, KeepPayloads

-----------------------------------------------------------------------------
(* NewFiles. *)

Stages == Files!Working \cup {"idle", "failed", "created", "killed", "ready"}

FilesTypes ==
  /\ at \in [Proc -> Stages]
  /\ flags \in [Proc -> BOOLEAN]
  /\ crossed \in SUBSET Proc

(* Two processes that work at the same time have crossed. *)
CrossedKnown ==
  \A p, q \in Proc : p # q /\ at[p] \in Files!Working /\ at[q] \in Files!Working => p \in crossed

(* What create has found, or written, while nobody else worked. *)
PairSoFar(p) ==
  p \notin crossed =>
    /\ at[p] = "private" /\ ~flags[p] => priv = None
    /\ at[p] = "public" => priv = p

Plain(p) == [pass |-> p, phrase |-> None]
Recoverable(p) == [pass |-> p, phrase |-> p]

(* What init has left by where it stands. *)
VaultSoFar(p) ==
  /\ at[p] \in {"save", "rename"} => vault = None
  /\ at[p] = "rename" => tmp = Plain(p)
  /\ at[p] \in {"phrase", "resave", "rerename"} => vault = Plain(p)
  /\ at[p] = "rerename" => tmp = Recoverable(p)
  /\ at[p] \in {"text", "extra"} => vault = Recoverable(p)
  /\ at[p] \in {"phrase", "resave", "rerename", "text", "extra"} => flags[p]

FilesInv ==
  /\ FilesTypes /\ Files!GenerateAgrees /\ CrossedKnown
  /\ \A p \in Proc : PairSoFar(p)
  /\ crossed = {} => Files!RecoveryTextOpens /\ Files!ReadyVaultOpens /\ \A p \in Proc : VaultSoFar(p)

LEMMA FilesInit == Files!Init => FilesInv
BY FilesAssumption
   DEF Files!Init, FilesInv, FilesTypes, Stages, Files!Working, Files!GenerateAgrees,
   CrossedKnown, PairSoFar, Files!RecoveryTextOpens, Files!ReadyVaultOpens, VaultSoFar, Files!NamesDiffer

(* A process that begins, or goes on without touching a file. *)
LEMMA BeginSteps ==
  ASSUME FilesInv, NEW p \in Proc, NEW stage \in {"stat", "ask", "failed"}, Files!Begin(p, stage),
         Files!GenerateAgrees', UNCHANGED <<priv, public, vault, tmp, recovery>>
  PROVE  FilesInv'
<1> USE DEF FilesInv, FilesTypes, Files!Begin, Files!Move
<1>1. FilesTypes'
  BY DEF Stages, Files!Working
<1>2. CrossedKnown'
  <2> SUFFICES ASSUME NEW q \in Proc, NEW r \in Proc, q # r,
                      at'[q] \in Files!Working, at'[r] \in Files!Working
               PROVE  q \in crossed'
    BY DEF CrossedKnown
  <2> QED
    BY DEF CrossedKnown, Files!Working
<1>3. ASSUME NEW q \in Proc PROVE PairSoFar(q)'
  BY DEF PairSoFar
<1>4. ASSUME crossed' = {}
      PROVE  Files!RecoveryTextOpens' /\ Files!ReadyVaultOpens' /\ \A q \in Proc : VaultSoFar(q)'
  <2>1. crossed = {}
    BY <1>4
  <2> QED
    BY <1>4, <2>1 DEF Files!RecoveryTextOpens, Files!ReadyVaultOpens, VaultSoFar
<1> QED
  BY <1>1, <1>2, <1>3, <1>4

(* sshush create past its checks. *)
LEMMA CreateSteps ==
  ASSUME FilesInv, NEW p \in Proc, Files!StatOutput(p) \/ Files!WritePrivate(p) \/ Files!WritePublic(p)
  PROVE  FilesInv'
<1> USE DEF FilesInv, FilesTypes, Files!Move
<1>0. /\ at[p] \in {"stat", "private", "public"}
      /\ \E stage \in {"private", "public", "created", "failed"} :
           at' = [at EXCEPT ![p] = stage]
      /\ UNCHANGED <<vault, tmp, recovery, flags, refused, crossed>>
  BY DEF Files!StatOutput, Files!WritePrivate, Files!WritePublic, Files!AfterPublic
<1>1. FilesTypes' /\ Files!GenerateAgrees'
  BY <1>0 DEF Stages, Files!Working, Files!GenerateAgrees
<1>2. CrossedKnown'
  BY <1>0 DEF CrossedKnown, Files!Working
<1>3. ASSUME NEW q \in Proc PROVE PairSoFar(q)'
  <2>1. CASE q = p
    <3>1. CASE Files!StatOutput(p)
      BY <2>1, <3>1 DEF Files!StatOutput, Files!Occupied, PairSoFar
    <3>2. CASE Files!WritePrivate(p)
      BY <2>1, <3>2 DEF Files!WritePrivate, Files!Written, PairSoFar
    <3>3. CASE Files!WritePublic(p)
      BY <2>1, <3>3 DEF Files!WritePublic, Files!AfterPublic, PairSoFar
    <3> QED
      BY <3>1, <3>2, <3>3
  <2>2. CASE q # p
    <3>1. q \notin crossed => at[q] \notin Files!Working
      BY <1>0, <2>2 DEF CrossedKnown, Files!Working
    <3> QED
      BY <1>0, <2>2, <3>1 DEF PairSoFar, Files!Working
  <2> QED
    BY <2>1, <2>2
<1>4. ASSUME crossed' = {}
      PROVE  Files!RecoveryTextOpens' /\ Files!ReadyVaultOpens' /\ \A q \in Proc : VaultSoFar(q)'
  BY <1>0, <1>4 DEF Files!RecoveryTextOpens, Files!ReadyVaultOpens, VaultSoFar
<1> QED
  BY <1>1, <1>2, <1>3, <1>4

InitSteps(p) ==
  \/ Files!Passphrase(p) \/ Files!Target(p) \/ Files!SaveVault(p) \/ Files!RenameVault(p)
  \/ Files!MakePhrase(p) \/ Files!SaveRecovery(p) \/ Files!RenameRecovery(p) \/ Files!WriteText(p) \/ Files!WriteExtra(p)

(* sshush vault init past its first look at the vault. *)
LEMMA InitMoves ==
  ASSUME NEW p \in Proc, InitSteps(p) \/ Files!Kill(p)
  PROVE  /\ at[p] \in Files!Working
         /\ \E stage \in {"target", "save", "rename", "phrase", "resave", "rerename", "text",
                          "extra", "ready", "failed", "killed"} :
              at' = [at EXCEPT ![p] = stage]
         /\ UNCHANGED <<priv, public, flags, refused, crossed>>
<1> USE DEF Files!Fail, Files!Move
<1>1. CASE Files!Passphrase(p) \/ Files!Target(p) \/ Files!MakePhrase(p) \/ Files!WriteText(p) \/ Files!WriteExtra(p) \/ Files!Kill(p)
  BY <1>1 DEF Files!Passphrase, Files!Target, Files!MakePhrase, Files!AfterPhrase,
     Files!WriteText, Files!WriteExtra, Files!Kill, Files!Working
<1>2. CASE Files!SaveVault(p) \/ Files!SaveRecovery(p)
  BY <1>2 DEF Files!SaveVault, Files!SaveRecovery, Files!WriteTmp, Files!Working
<1>3. CASE Files!RenameVault(p) \/ Files!RenameRecovery(p)
  BY <1>3 DEF Files!RenameVault, Files!RenameRecovery, Files!Rename, Files!Working
<1> QED
  BY <1>1, <1>2, <1>3 DEF InitSteps

LEMMA InitKeepsPairs ==
  ASSUME FilesInv, NEW p \in Proc, InitSteps(p) \/ Files!Kill(p)
  PROVE  /\ FilesTypes' /\ Files!GenerateAgrees' /\ CrossedKnown'
         /\ \A q \in Proc : PairSoFar(q)'
         /\ at[p] \in Files!Working
         /\ UNCHANGED <<flags, crossed>>
         /\ \A q \in Proc \ {p} : at'[q] = at[q]
<1> USE DEF FilesInv, FilesTypes
<1>1. /\ at[p] \in Files!Working
      /\ \E stage \in {"target", "save", "rename", "phrase", "resave", "rerename", "text",
                       "extra", "ready", "failed", "killed"} :
           at' = [at EXCEPT ![p] = stage]
      /\ UNCHANGED <<priv, public, flags, refused, crossed>>
  BY InitMoves
<1>2. FilesTypes' /\ Files!GenerateAgrees'
  BY <1>1 DEF Stages, Files!Working, Files!GenerateAgrees
<1>3. CrossedKnown'
  BY <1>1 DEF CrossedKnown, Files!Working
<1>4. ASSUME NEW q \in Proc PROVE PairSoFar(q)'
  BY <1>1 DEF PairSoFar
<1> QED
  BY <1>1, <1>2, <1>3, <1>4

(* One init alone: each save replaces the vault by one its passphrase opens, and the
   phrase is written when the vault it opens is there. *)
LEMMA InitKeepsVault ==
  ASSUME FilesInv, NEW p \in Proc, InitSteps(p) \/ Files!Kill(p), crossed' = {}
  PROVE  Files!RecoveryTextOpens' /\ Files!ReadyVaultOpens' /\ \A q \in Proc : VaultSoFar(q)'
<1> USE FilesAssumption DEF FilesInv, FilesTypes, Files!Move, Files!Fail, Plain, Recoverable, Files!NamesDiffer
<1>1. /\ crossed = {} /\ at[p] \in Files!Working /\ UNCHANGED <<flags, crossed>>
      /\ \A q \in Proc \ {p} : at'[q] = at[q]
  BY InitKeepsPairs
<1>2. Files!RecoveryTextOpens /\ Files!ReadyVaultOpens /\ \A q \in Proc : VaultSoFar(q)
  BY <1>1
<1>3. \A q \in Proc \ {p} : at[q] \notin Files!Working
  BY <1>1 DEF CrossedKnown
<1>4. ASSUME NEW q \in Proc, q # p PROVE VaultSoFar(q)'
  BY <1>1, <1>3, <1>4 DEF VaultSoFar, Files!Working
<1>5. /\ Plain(p) \in Files!Vaults /\ Recoverable(p) \in Files!Vaults
  BY DEF Files!Vaults
<1>6. CASE Files!Passphrase(p) \/ Files!Target(p) \/ Files!MakePhrase(p) \/ Files!Kill(p)
  <2>1. VaultSoFar(p)'
    BY <1>2, <1>6
       DEF Files!Passphrase, Files!Target, Files!CanInit, Files!MakePhrase, Files!AfterPhrase,
           Files!Kill, VaultSoFar, Files!Working
  <2>2. Files!RecoveryTextOpens' /\ Files!ReadyVaultOpens'
    BY <1>1, <1>2, <1>6
       DEF Files!Passphrase, Files!Target, Files!MakePhrase, Files!AfterPhrase, Files!Kill,
       Files!RecoveryTextOpens, Files!ReadyVaultOpens
  <2> QED
    BY <1>4, <2>1, <2>2
<1>7. CASE Files!SaveVault(p) \/ Files!SaveRecovery(p)
  <2>1. VaultSoFar(p)'
    BY <1>2, <1>7 DEF Files!SaveVault, Files!SaveRecovery, Files!WriteTmp, VaultSoFar
  <2>2. Files!RecoveryTextOpens' /\ Files!ReadyVaultOpens'
    BY <1>1, <1>2, <1>7
       DEF Files!SaveVault, Files!SaveRecovery, Files!WriteTmp, Files!RecoveryTextOpens,
           Files!ReadyVaultOpens
  <2> QED
    BY <1>4, <2>1, <2>2
<1>8. CASE Files!RenameVault(p)
  <2>1. /\ at[p] = "rename" /\ vault = None /\ tmp = Plain(p) /\ recovery' = recovery
        /\ recovery \notin Proc
    BY <1>1, <1>2, <1>8 DEF Files!RenameVault, Files!Rename, VaultSoFar, Files!RecoveryTextOpens
  <2>2. \/ vault' = Plain(p) /\ at' = [at EXCEPT ![p] = IF flags[p] THEN "phrase" ELSE "ready"]
        \/ vault' \in {Plain(p), None} /\ at' = [at EXCEPT ![p] = "failed"]
    BY <1>8, <2>1 DEF Files!RenameVault, Files!Rename
  <2>3. VaultSoFar(p)'
    BY <1>1, <2>2 DEF VaultSoFar
  <2>4. ASSUME NEW q \in Proc \ {p} PROVE at[q] # "ready"
    <3>1. at[q] = "ready" => vault \in Files!Vaults /\ vault.pass = q
      BY <1>1, <1>2 DEF Files!ReadyVaultOpens, Files!Vaults
    <3> QED
      BY <2>1, <3>1
  <2>5. Files!ReadyVaultOpens'
    BY <1>1, <2>1, <2>2, <2>4 DEF Files!ReadyVaultOpens
  <2> QED
    BY <1>4, <2>1, <2>3, <2>5 DEF Files!RecoveryTextOpens
<1>9. CASE Files!RenameRecovery(p)
  <2>1. /\ at[p] = "rerename" /\ vault = Plain(p) /\ tmp = Recoverable(p)
        /\ recovery' = recovery /\ recovery \notin Proc /\ flags[p]
    BY <1>1, <1>2, <1>9
       DEF Files!RenameRecovery, Files!Rename, VaultSoFar, Files!RecoveryTextOpens
  <2>2. \/ vault' = Recoverable(p) /\ at' = [at EXCEPT ![p] = "text"]
        \/ vault' \in {Plain(p), Recoverable(p)} /\ at' = [at EXCEPT ![p] = "failed"]
    BY <1>9, <2>1 DEF Files!RenameRecovery, Files!Rename
  <2>3. VaultSoFar(p)'
    BY <1>1, <2>1, <2>2 DEF VaultSoFar
  <2>4. ASSUME NEW q \in Proc \ {p} PROVE at[q] # "ready"
    <3>1. at[q] = "ready" => vault \in Files!Vaults /\ vault.pass = q
      BY <1>1, <1>2 DEF Files!ReadyVaultOpens, Files!Vaults
    <3> QED
      BY <2>1, <3>1
  <2>5. Files!ReadyVaultOpens'
    BY <1>1, <2>1, <2>2, <2>4 DEF Files!ReadyVaultOpens
  <2> QED
    BY <1>4, <2>1, <2>3, <2>5 DEF Files!RecoveryTextOpens
<1>10. CASE Files!WriteText(p) \/ Files!WriteExtra(p)
  <2>1. /\ vault = Recoverable(p) /\ vault' = vault /\ flags[p]
        /\ recovery' \in {p, recovery, Torn}
    BY <1>2, <1>10 DEF Files!WriteText, Files!WriteExtra, Files!Written, VaultSoFar
  <2>2. VaultSoFar(p)'
    BY <1>1, <1>10, <2>1 DEF Files!WriteText, Files!WriteExtra, Files!Written, VaultSoFar
  <2>3. Files!RecoveryTextOpens'
    BY <1>1, <1>2, <1>5, <2>1 DEF Files!RecoveryTextOpens
  <2>4. Files!ReadyVaultOpens'
    BY <1>1, <1>2, <2>1, <1>10 DEF Files!WriteText, Files!WriteExtra, Files!ReadyVaultOpens
  <2> QED
    BY <1>4, <2>2, <2>3, <2>4
<1> QED
  BY <1>6, <1>7, <1>8, <1>9, <1>10 DEF InitSteps

(* What create has let through, Generate accepts. *)
LEMMA GenerateAcceptsWhatCreateDoes ==
  ASSUME NEW keyType \in Files!KeyTypes, NEW bits, Files!CreateAccepts(keyType, bits)
  PROVE  Files!GenerateAccepts(keyType, bits)
<1>1. CASE keyType = "rsa"
  <2>1. bits \in {0, 2048, 3072, 4096}
    BY <1>1 DEF Files!CreateAccepts
  <2> QED
    BY <1>1, <2>1 DEF Files!GenerateAccepts
<1>2. CASE keyType = "ecdsa"
  BY <1>2 DEF Files!CreateAccepts, Files!GenerateAccepts
<1>3. CASE keyType = "ed25519"
  BY <1>3 DEF Files!GenerateAccepts
<1> QED
  BY <1>1, <1>2, <1>3 DEF Files!KeyTypes

LEMMA FilesNext == FilesInv /\ [Files!Next]_filesVars => FilesInv'
<1> SUFFICES ASSUME FilesInv, [Files!Next]_filesVars PROVE FilesInv'
  OBVIOUS
<1>1. CASE UNCHANGED filesVars
  BY <1>1 DEF filesVars, FilesInv, FilesTypes, Files!GenerateAgrees, CrossedKnown, PairSoFar,
     VaultSoFar,
     Files!RecoveryTextOpens, Files!ReadyVaultOpens
<1>2. ASSUME NEW p \in Proc, Files!Create(p) PROVE FilesInv'
  <2>1. PICK keyType \in Files!KeyTypes, positional \in Files!BitChoices, flag \in Files!BitChoices :
          LET bits == Files!EffectiveBits(keyType, positional, flag)
              valid == bits # Files!NotGiven /\ Files!CreateAccepts(keyType, bits)
          IN  /\ Files!Begin(p, IF valid THEN "stat" ELSE "failed")
              /\ refused' = (refused \/ (valid /\ ~Files!GenerateAccepts(keyType, bits)))
              /\ UNCHANGED <<priv, public, vault, tmp, recovery>>
    BY <1>2 DEF Files!Create
  <2>2. Files!GenerateAgrees'
    BY <2>1, GenerateAcceptsWhatCreateDoes DEF FilesInv, Files!GenerateAgrees
  <2> QED
    BY <2>1, <2>2, BeginSteps
<1>3. ASSUME NEW p \in Proc, Files!InitVault(p) PROVE FilesInv'
  <2>1. Files!GenerateAgrees'
    BY <1>3 DEF Files!InitVault, FilesInv, Files!GenerateAgrees
  <2> QED
    BY <1>3, <2>1, BeginSteps DEF Files!InitVault
<1>4. ASSUME NEW p \in Proc, InitSteps(p) \/ Files!Kill(p) PROVE FilesInv'
  BY <1>4, InitKeepsPairs, InitKeepsVault DEF FilesInv
<1> QED
  BY <1>1, <1>2, <1>3, <1>4, CreateSteps DEF Files!Next, Files!Step, InitSteps

(* The inductive invariant of the commands that create files: what each has done by where
   it stands, and that nobody else was at work unless two have crossed (cli/create.go,
   vaultops/init.go). *)
THEOREM FilesInvariance == Spec => []FilesInv
<1>1. Init => FilesInv
  BY FilesInit DEF Init
<1> QED
  BY <1>1, FilesNext, FilesSteps, PTL DEF Spec

(* The vault that init leaves can be opened by what its user was given, whatever failed
   or was killed on the way (vaultops/init.go:54-95). *)
THEOREM InitLeavesAVaultThatOpens == Spec => []VaultCanBeOpened
<1>1. FilesInv => VaultCanBeOpened
  BY DEF FilesInv, VaultCanBeOpened, Files!VaultCanBeOpened, Files!RecoveryTextOpens,
     Files!ReadyVaultOpens
<1> QED
  BY <1>1, FilesInvariance, PTL

(* Alone, a process writes its private key where there was none, or --force is given, and
   then the .pub file of that key. *)
LEMMA PairSteps ==
  ASSUME FilesInv, Files!Next, NEW p \in Proc \ crossed
  PROVE  /\ at[p] = "private" /\ at'[p] # "private" /\ ~flags[p] => priv \in {None, priv'}
         /\ at[p] = "public" /\ at'[p] = "created" => priv' = p /\ public' = p
<1> USE DEF FilesInv, FilesTypes
<1>1. PairSoFar(p)
  OBVIOUS
<1>2. at[p] = "private" /\ ~flags[p] => priv = None
  BY <1>1 DEF PairSoFar
<1>3. ASSUME at[p] = "public", at'[p] = "created" PROVE priv' = p /\ public' = p
  <2>1. priv = p
    BY <1>1, <1>3 DEF PairSoFar
  <2>2. PICK q \in Proc : Files!Step(q)
    BY DEF Files!Next
  <2>3. CASE Files!WritePublic(q)
    <3>1. q = p
      BY <1>3, <2>3 DEF Files!WritePublic, Files!Move
    <3>2. PICK w \in Files!Written(public, p) : public' = w.content /\ Files!Move(p, Files!AfterPublic(w.ok))
      BY <2>3, <3>1 DEF Files!WritePublic
    <3>3. Files!AfterPublic(w.ok) = "created"
      BY <1>3, <3>2 DEF Files!Move
    <3>4. w.ok
      BY <3>3 DEF Files!AfterPublic
    <3>5. w.content = p
      BY <3>2, <3>4 DEF Files!Written
    <3> QED
      BY <2>1, <2>3, <3>2, <3>5 DEF Files!WritePublic
  <2>4. CASE Files!StatOutput(q) \/ Files!WritePrivate(q)
    BY <1>3, <2>4 DEF Files!StatOutput, Files!WritePrivate, Files!Move
  <2>5. CASE Files!Create(q) \/ Files!InitVault(q)
    BY <1>3, <2>5 DEF Files!Create, Files!InitVault, Files!Begin, Files!Move
  <2>6. CASE InitSteps(q) \/ Files!Kill(q)
    <3>1. \E stage \in {"target", "save", "rename", "phrase", "resave", "rerename", "text",
                        "extra", "ready", "failed", "killed"} :
            at' = [at EXCEPT ![q] = stage]
      BY <2>6, InitMoves
    <3> QED
      BY <1>3, <3>1
  <2> QED
    BY <2>2, <2>3, <2>4, <2>5, <2>6 DEF Files!Step, InitSteps
<1> QED
  BY <1>2, <1>3

(* create replaces no private key unasked, leaves a pair that belongs together, and
   Generate refuses nothing it let through (cli/create.go:92-125, keys/save.go:14-31). *)
THEOREM CreateIsTrueToItsWord == Spec => CreateKeepsItsWord
<1>1. FilesInv => Files!GenerateAgrees
  BY DEF FilesInv
<1>2. FilesInv /\ [Files!Next]_filesVars =>
        [\A p \in Proc \ crossed :
           /\ at[p] = "private" /\ at'[p] # "private" /\ ~flags[p] => priv \in {None, priv'}
           /\ at[p] = "public" /\ at'[p] = "created" => priv' = p /\ public' = p]_Files!vars
  BY PairSteps DEF filesVars, Files!vars
<1> QED
  BY <1>1, <1>2, FilesInvariance, FilesSteps, PTL
  DEF Spec, CreateKeepsItsWord, Files!CreateKeepsItsWord, Files!PairStaysWhole

-----------------------------------------------------------------------------
(* OpPayloads. *)

(* A body is one the client laid out, or any other, and an answer is the parser's. *)
PayloadsInv ==
  /\ op \in Payloads!Ops
  /\ \/ fields \in Payloads!Fields /\ body = Payloads!Build(op, fields)
     \/ fields = Payloads!NotBuilt /\ body \in Payloads!Texts(MaxBody)
  /\ answer \in {Payloads!Pending, Payloads!Parse(op, body)}

LEMMA PayloadsStart == Payloads!Init => PayloadsInv
BY DEF Payloads!Init, PayloadsInv

LEMMA NoPayloadIsSuch == NoPayload => PayloadsInv
<1>1. <<>> \in Payloads!Texts(MaxBody)
  BY PayloadsAssumption
     DEF Payloads!FieldsAreShort, Payloads!Texts, Payloads!BoundedSeq, Payloads!SeqOf
<1> QED
  BY <1>1 DEF NoPayload, PayloadsInv, Payloads!Ops

LEMMA PayloadsNext == PayloadsInv /\ [Payloads!Next]_payloadVars => PayloadsInv'
<1> SUFFICES ASSUME PayloadsInv, [Payloads!Next]_payloadVars PROVE PayloadsInv'
  OBVIOUS
<1>1. CASE UNCHANGED payloadVars
  BY <1>1 DEF payloadVars, PayloadsInv
<1>2. CASE Payloads!Handle
  BY <1>2 DEF Payloads!Handle, PayloadsInv
<1> QED
  BY <1>1, <1>2 DEF Payloads!Next

(* A key or text short enough to be laid out: its first length byte is zero. *)
Short(s) == s \in Seq(Payloads!Byte) /\ Len(s) < Base

LEMMA FieldsAreShortTexts ==
  ASSUME NEW f \in Payloads!Fields
  PROVE  Short(f.key) /\ Short(f.text) /\ f.flag \in {0, 1}
<1>1. ASSUME NEW s \in Payloads!Texts(MaxField) PROVE Short(s)
  BY PayloadsAssumption
     DEF Payloads!FieldsAreShort, Payloads!Texts, Payloads!BoundedSeq, Payloads!SeqOf, Short
<1> QED
  BY <1>1 DEF Payloads!Fields

LEMMA TextsAreSequences ==
  ASSUME NEW n \in Nat, NEW s \in Payloads!Texts(n)
  PROVE  s \in Seq(Nat)
BY PayloadsAssumption
   DEF Payloads!FieldsAreShort, Payloads!Texts, Payloads!BoundedSeq, Payloads!SeqOf,
       Payloads!Byte

LEMMA LengthIsShort ==
  ASSUME NEW s, Short(s)
  PROVE  Payloads!Length(s) = <<0, Len(s)>>
<1>1. Len(s) \in Nat /\ Base \in Nat /\ Len(s) < Base
  BY PayloadsAssumption DEF Payloads!FieldsAreShort, Short
<1>2. Len(s) \div Base = 0 /\ Len(s) % Base = Len(s)
  BY <1>1
<1> QED
  BY <1>2 DEF Payloads!Length

(* A body of four parts: its length, what stands in the first and the third, and the
   second and the fourth as parts of it. *)
LaidOut(b, p, s, t, u) ==
  /\ Len(b) = Len(p) + Len(s) + Len(t) + Len(u)
  /\ \A i \in 1 .. Len(p) : b[i] = p[i]
  /\ \A i \in 1 .. Len(t) : b[Len(p) + Len(s) + i] = t[i]
  /\ Payloads!Part(b, Len(p), Len(s)) = s
  /\ Payloads!Part(b, Len(p) + Len(s) + Len(t), Len(u)) = u

LEMMA PartOf ==
  ASSUME NEW b \in Seq(Nat), NEW s \in Seq(Nat), NEW n \in Nat, n + Len(s) =< Len(b),
         \A i \in 1 .. Len(s) : b[n + i] = s[i]
  PROVE  Payloads!Part(b, n, Len(s)) = s
<1>1. Payloads!Part(b, n, Len(s)) = SubSeq(b, n + 1, n + Len(s))
  BY DEF Payloads!Part
<1>2. /\ Len(Payloads!Part(b, n, Len(s))) = Len(s)
      /\ Payloads!Part(b, n, Len(s)) \in Seq(Nat)
      /\ \A i \in 1 .. Len(s) : Payloads!Part(b, n, Len(s))[i] = s[i]
  BY <1>1
<1>3. ASSUME NEW q \in Seq(Nat), Len(q) = Len(s), \A i \in 1 .. Len(s) : q[i] = s[i]
      PROVE  q = s
  BY <1>3, SeqEqual
<1> QED
  BY <1>2, <1>3

Joined(v, p, s) ==
  /\ v \in Seq(Nat) /\ Len(v) = Len(p) + Len(s)
  /\ Len(p) \in Nat /\ Len(s) \in Nat
  /\ \A i \in 1 .. Len(p) : v[i] = p[i]
  /\ \A i \in 1 .. Len(s) : v[Len(p) + i] = s[i]

LEMMA TwoJoined ==
  ASSUME NEW p \in Seq(Nat), NEW s \in Seq(Nat)
  PROVE  Joined(p \o s, p, s)
BY DEF Joined

LEMMA PartsOfFour ==
  ASSUME NEW p \in Seq(Nat), NEW s \in Seq(Nat), NEW t \in Seq(Nat), NEW u \in Seq(Nat)
  PROVE  LaidOut(p \o s \o t \o u, p, s, t, u)
<1> DEFINE v == p \o s
           w == v \o t
           b == w \o u
<1>1. Joined(v, p, s)
  BY TwoJoined
<1>2. Joined(w, v, t)
  BY <1>1, TwoJoined DEF Joined
<1>3. Joined(b, w, u)
  BY <1>2, TwoJoined DEF Joined
<1> HIDE DEF v, w, b
<1>4. /\ Len(p) \in Nat /\ Len(s) \in Nat /\ Len(t) \in Nat /\ Len(u) \in Nat
      /\ Len(v) = Len(p) + Len(s) /\ Len(w) = Len(p) + Len(s) + Len(t)
      /\ Len(b) = Len(p) + Len(s) + Len(t) + Len(u)
      /\ b \in Seq(Nat)
  BY <1>1, <1>2, <1>3 DEF Joined
<1>5. ASSUME NEW i \in 1 .. Len(v) PROVE b[i] = v[i]
  <2>1. i \in 1 .. Len(w)
    BY <1>4
  <2> QED
    BY <2>1, <1>2, <1>3 DEF Joined
<1>6. ASSUME NEW i \in 1 .. Len(p) PROVE b[i] = p[i]
  <2>1. i \in 1 .. Len(v)
    BY <1>4
  <2> QED
    BY <2>1, <1>1, <1>5 DEF Joined
<1>7. ASSUME NEW i \in 1 .. Len(s) PROVE b[Len(p) + i] = s[i]
  <2>1. Len(p) + i \in 1 .. Len(v)
    BY <1>4
  <2>2. b[Len(p) + i] = v[Len(p) + i]
    BY <2>1, <1>5
  <2> QED
    BY <2>2, <1>1 DEF Joined
<1>8. ASSUME NEW i \in 1 .. Len(t) PROVE b[Len(p) + Len(s) + i] = t[i]
  <2>1. Len(v) + i \in 1 .. Len(w)
    BY <1>4
  <2>2. b[Len(v) + i] = w[Len(v) + i]
    BY <2>1, <1>3 DEF Joined
  <2> QED
    BY <2>2, <1>2, <1>4 DEF Joined
<1>9. ASSUME NEW i \in 1 .. Len(u) PROVE b[Len(p) + Len(s) + Len(t) + i] = u[i]
  BY <1>3, <1>4 DEF Joined
<1>10. Payloads!Part(b, Len(p), Len(s)) = s
  <2>1. Len(p) + Len(s) =< Len(b)
    BY <1>4
  <2> QED
    BY <2>1, <1>4, <1>7, PartOf
<1>11. Payloads!Part(b, Len(p) + Len(s) + Len(t), Len(u)) = u
  <2> DEFINE n == Len(p) + Len(s) + Len(t)
  <2>1. n \in Nat /\ n + Len(u) =< Len(b)
    BY <1>4
  <2>2. \A i \in 1 .. Len(u) : b[n + i] = u[i]
    BY <1>9
  <2> HIDE DEF n
  <2>3. Payloads!Part(b, n, Len(u)) = u
    BY <2>1, <2>2, <1>4, PartOf
  <2> QED
    BY <2>3 DEF n
<1>12. LaidOut(b, p, s, t, u)
  BY <1>4, <1>6, <1>8, <1>10, <1>11 DEF LaidOut
<1> QED
  BY <1>12 DEF b, w, v

LEMMA PartsOfThree ==
  ASSUME NEW p \in Seq(Nat), NEW s \in Seq(Nat), NEW t \in Seq(Nat)
  PROVE  LaidOut(p \o s \o t, p, s, t, <<>>)
<1>1. p \o s \o t \in Seq(Nat) /\ <<>> \in Seq(Nat)
  BY ConcatProperties, EmptySeq
<1>2. p \o s \o t \o <<>> = p \o s \o t
  BY <1>1, ConcatEmptySeq
<1> QED
  BY <1>1, <1>2, PartsOfFour

LEMMA LengthField ==
  ASSUME NEW s, Short(s)
  PROVE  Payloads!Length(s) \in Seq(Nat) /\ Len(Payloads!Length(s)) = 2 /\ Payloads!Length(s)[1] = 0
         /\ Payloads!Length(s)[2] = Len(s) /\ s \in Seq(Nat) /\ Len(s) \in Nat
<1>1. s \in Seq(Nat) /\ Len(s) \in Nat
  BY PayloadsAssumption DEF Short, Payloads!Byte, Payloads!FieldsAreShort
<1>2. ASSUME NEW n \in Nat
      PROVE  <<0, n>> \in Seq(Nat) /\ Len(<<0, n>>) = 2 /\ <<0, n>>[1] = 0 /\ <<0, n>>[2] = n
  OBVIOUS
<1> QED
  BY <1>1, <1>2, LengthIsShort

LEMMA ByteBefore ==
  ASSUME NEW n \in Nat, NEW s \in Seq(Nat), Len(s) = 2
  PROVE  /\ <<n>> \o s \in Seq(Nat) /\ Len(<<n>> \o s) = 3
         /\ (<<n>> \o s)[1] = n /\ (<<n>> \o s)[2] = s[1] /\ (<<n>> \o s)[3] = s[2]
<1> DEFINE u == <<n>>
<1>1. u \in Seq(Nat) /\ Len(u) = 1 /\ u[1] = n
  OBVIOUS
<1> HIDE DEF u
<1>2. Joined(u \o s, u, s)
  BY <1>1, TwoJoined
<1>3. /\ u \o s \in Seq(Nat) /\ Len(u \o s) = 3 /\ (u \o s)[1] = u[1]
      /\ (u \o s)[1 + 1] = s[1] /\ (u \o s)[1 + 2] = s[2]
  <2>1. 1 \in 1 .. 1 /\ 1 \in 1 .. 2 /\ 2 \in 1 .. 2
    OBVIOUS
  <2>2. /\ \A i \in 1 .. 1 : (u \o s)[i] = u[i]
        /\ \A i \in 1 .. 2 : (u \o s)[1 + i] = s[i]
        /\ u \o s \in Seq(Nat) /\ Len(u \o s) = 1 + 2
    BY <1>1, <1>2 DEF Joined
  <2> QED
    BY <2>1, <2>2
<1> QED
  BY <1>1, <1>3 DEF u

KeyThenByte(b, k, flag) ==
  /\ Len(b) = Len(k) + 3 /\ Len(k) \in Nat
  /\ b[1] = 0 /\ b[Len(k) + 3] = flag
  /\ Payloads!LengthAt(b, 0) = Len(k) /\ Payloads!Part(b, 2, Len(k)) = k

(* set-autoload, and add-key-opts of an older client. *)
LEMMA KeyAndByte ==
  ASSUME NEW k, Short(k), NEW flag \in {0, 1}
  PROVE  KeyThenByte(Payloads!Length(k) \o k \o <<flag>>, k, flag)
<1> DEFINE p == Payloads!Length(k)
           t == <<flag>>
           b == p \o k \o t
<1>1. /\ p \in Seq(Nat) /\ Len(p) = 2 /\ p[1] = 0 /\ p[2] = Len(k)
      /\ k \in Seq(Nat) /\ Len(k) \in Nat
  BY LengthField
<1>2. t \in Seq(Nat) /\ Len(t) = 1 /\ t[1] = flag
  OBVIOUS
<1> HIDE DEF p, t
<1>4. LaidOut(b, p, k, t, <<>>)
  BY <1>1, <1>2, PartsOfThree
<1> HIDE DEF b
<1>5. b[1] = 0 /\ b[2] = Len(k) /\ b[2 + Len(k) + 1] = flag
  BY <1>1, <1>2, <1>4 DEF LaidOut
<1>6. Len(b) = Len(k) + 3 /\ Payloads!Part(b, 2, Len(k)) = k
  BY <1>1, <1>2, <1>4 DEF LaidOut
<1>7. Payloads!LengthAt(b, 0) = Len(k)
  BY <1>1, <1>5, PayloadsAssumption DEF Payloads!LengthAt, Payloads!FieldsAreShort
<1>8. KeyThenByte(b, k, flag)
  BY <1>1, <1>5, <1>6, <1>7 DEF KeyThenByte
<1> QED
  BY <1>8 DEF b, p, t

LEMMA AutoloadRoundTrip ==
  ASSUME NEW f \in Payloads!Fields
  PROVE  Payloads!ParseSetAutoload(Payloads!BuildSetAutoload(f)) = Payloads!Parsed(f.key, <<>>, f.flag)
<1>1. ASSUME NEW b, NEW k, NEW flag \in {0, 1}, KeyThenByte(b, k, flag)
      PROVE  Payloads!ParseSetAutoload(b) = Payloads!Parsed(k, <<>>, flag)
  BY <1>1 DEF KeyThenByte, Payloads!ParseSetAutoload, Payloads!LengthBytes
<1> QED
  BY <1>1, FieldsAreShortTexts, KeyAndByte DEF Payloads!BuildSetAutoload

LEMMA LegacyRoundTrip ==
  ASSUME NEW f \in Payloads!Fields
  PROVE  Payloads!SplitAddKey(Payloads!BuildLegacy(f)) = Payloads!Parsed(f.key, <<>>, f.flag)
<1>1. ASSUME NEW b, NEW k, NEW flag \in {0, 1}, KeyThenByte(b, k, flag)
      PROVE  Payloads!SplitAddKey(b) = Payloads!Parsed(k, <<>>, flag)
  <2>1. Payloads!SplitLegacy(b) = Payloads!Parsed(k, <<>>, flag)
    BY <1>1 DEF KeyThenByte, Payloads!SplitLegacy, Payloads!LengthBytes
  <2>2. Payloads!SplitAddKey(b) = Payloads!SplitLegacy(b)
    BY <1>1 DEF KeyThenByte, Payloads!SplitAddKey, Payloads!IsVersioned, Payloads!LengthBytes
  <2> QED
    BY <2>1, <2>2
<1> QED
  BY <1>1, FieldsAreShortTexts, KeyAndByte DEF Payloads!BuildLegacy

LEMMA CommentRoundTrip ==
  ASSUME NEW f \in Payloads!Fields
  PROVE  Payloads!ParseSetComment(Payloads!BuildSetComment(f)) = Payloads!Parsed(f.key, f.text, -1)
<1>1. ASSUME NEW k, NEW x, Short(k), Short(x)
      PROVE  Payloads!ParseSetComment(Payloads!Length(k) \o k \o Payloads!Length(x) \o x) = Payloads!Parsed(k, x, -1)
  <2> DEFINE p == Payloads!Length(k)
             t == Payloads!Length(x)
             b == p \o k \o t \o x
  <2>1. /\ p \in Seq(Nat) /\ Len(p) = 2 /\ p[1] = 0 /\ p[2] = Len(k)
        /\ k \in Seq(Nat) /\ Len(k) \in Nat
    BY <1>1, LengthField
  <2>2. /\ t \in Seq(Nat) /\ Len(t) = 2 /\ t[1] = 0 /\ t[2] = Len(x)
        /\ x \in Seq(Nat) /\ Len(x) \in Nat
    BY <1>1, LengthField
  <2> HIDE DEF p, t
  <2>3. LaidOut(b, p, k, t, x)
    BY <2>1, <2>2, PartsOfFour
  <2> HIDE DEF b
  <2>4. b[1] = 0 /\ b[2] = Len(k) /\ b[2 + Len(k) + 1] = 0 /\ b[2 + Len(k) + 2] = Len(x)
    BY <2>1, <2>2, <2>3 DEF LaidOut
  <2>5. Payloads!LengthAt(b, 0) = Len(k) /\ Payloads!LengthAt(b, 2 + Len(k)) = Len(x)
    BY <2>1, <2>2, <2>4, PayloadsAssumption DEF Payloads!LengthAt, Payloads!FieldsAreShort
  <2>6. /\ Len(b) = 4 + Len(k) + Len(x)
        /\ Payloads!Part(b, 2, Len(k)) = k /\ Payloads!Part(b, 4 + Len(k), Len(x)) = x
    BY <2>1, <2>2, <2>3 DEF LaidOut
  <2>7. Len(k) \in Nat /\ Len(x) \in Nat
    BY <2>1, <2>2
  <2>8. Payloads!ParseSetComment(b) = Payloads!Parsed(k, x, -1)
    <3>1. ~(Len(b) < 2 * Payloads!LengthBytes) /\ Payloads!KeyFits(b, Payloads!LengthAt(b, 0))
      BY <2>5, <2>6, <2>7 DEF Payloads!KeyFits, Payloads!LengthBytes
    <3>2. ~(Payloads!LengthBytes + Payloads!LengthAt(b, 0) + Payloads!LengthBytes > Len(b))
      BY <2>5, <2>6, <2>7 DEF Payloads!LengthBytes
    <3>3. Payloads!LengthBytes + Payloads!LengthAt(b, 0) = 2 + Len(k)
      BY <2>5, <2>7 DEF Payloads!LengthBytes
    <3>4. 2 + Len(k) + Payloads!LengthBytes + Payloads!LengthAt(b, 2 + Len(k)) = Len(b)
      BY <2>5, <2>6, <2>7 DEF Payloads!LengthBytes
    <3>5. Payloads!Part(b, 2 + Len(k) + Payloads!LengthBytes, Len(x)) = x /\ Payloads!Part(b, Payloads!LengthBytes, Len(k)) = k
      <4>1. 2 + Len(k) + Payloads!LengthBytes = 4 + Len(k) /\ Payloads!LengthBytes = 2
        BY <2>7 DEF Payloads!LengthBytes
      <4> QED
        BY <2>6, <4>1
    <3> QED
      BY <2>5, <3>1, <3>2, <3>3, <3>4, <3>5 DEF Payloads!ParseSetComment
  <2> QED
    BY <2>8 DEF b, p, t
<1> QED
  BY <1>1, FieldsAreShortTexts DEF Payloads!BuildSetComment

LEMMA KeyRoundTrip ==
  ASSUME NEW f \in Payloads!Fields
  PROVE  Payloads!SplitAddKey(Payloads!BuildAddKey(f)) = Payloads!Parsed(f.key, f.text, f.flag)
<1>1. ASSUME NEW k, NEW x, Short(k), Short(x), NEW flag \in {0, 1}
      PROVE  Payloads!SplitAddKey(<<1>> \o Payloads!Length(k) \o k \o <<flag>> \o Payloads!Length(x) \o x) = Payloads!Parsed(k, x, flag)
  <2> DEFINE p == <<1>> \o Payloads!Length(k)
             t == <<flag>> \o Payloads!Length(x)
             b == p \o k \o t \o x
  <2>1. /\ p \in Seq(Nat) /\ Len(p) = 3 /\ p[1] = 1 /\ p[2] = 0 /\ p[3] = Len(k)
        /\ k \in Seq(Nat) /\ Len(k) \in Nat
    <3>1. /\ Payloads!Length(k) \in Seq(Nat) /\ Len(Payloads!Length(k)) = 2 /\ Payloads!Length(k)[1] = 0
          /\ Payloads!Length(k)[2] = Len(k) /\ k \in Seq(Nat) /\ Len(k) \in Nat /\ 1 \in Nat
      BY <1>1, LengthField
    <3> QED
      BY <3>1, ByteBefore, Zenon
  <2>2. /\ t \in Seq(Nat) /\ Len(t) = 3 /\ t[1] = flag /\ t[2] = 0 /\ t[3] = Len(x)
        /\ x \in Seq(Nat) /\ Len(x) \in Nat
    <3>1. /\ Payloads!Length(x) \in Seq(Nat) /\ Len(Payloads!Length(x)) = 2 /\ Payloads!Length(x)[1] = 0
          /\ Payloads!Length(x)[2] = Len(x) /\ x \in Seq(Nat) /\ Len(x) \in Nat /\ flag \in Nat
      BY <1>1, LengthField
    <3> QED
      BY <3>1, ByteBefore, Zenon
  <2>3. b = <<1>> \o Payloads!Length(k) \o k \o <<flag>> \o Payloads!Length(x) \o x
    <3>1. p \o k \in Seq(Nat)
      BY <2>1, ConcatProperties
    <3>2. <<flag>> \in Seq(Nat)
      OBVIOUS
    <3>3. Payloads!Length(x) \in Seq(Nat)
      BY <1>1, LengthField
    <3>4. ((p \o k) \o <<flag>>) \o Payloads!Length(x) = (p \o k) \o t
      BY <3>1, <3>2, <3>3, ConcatAssociative
    <3> QED
      BY <3>4
  <2> HIDE DEF p, t
  <2>4. LaidOut(b, p, k, t, x)
    BY <2>1, <2>2, PartsOfFour
  <2> HIDE DEF b
  <2>5. /\ b[1] = 1 /\ b[2] = 0 /\ b[3] = Len(k)
        /\ b[3 + Len(k) + 1] = flag /\ b[3 + Len(k) + 2] = 0 /\ b[3 + Len(k) + 3] = Len(x)
    BY <2>1, <2>2, <2>4 DEF LaidOut
  <2>6. Len(k) \in Nat /\ Len(x) \in Nat /\ b[4 + Len(k)] = flag
    BY <2>1, <2>2, <2>5
  <2>7. Payloads!LengthAt(b, 1) = Len(k) /\ Payloads!LengthAt(b, 4 + Len(k)) = Len(x)
    BY <2>1, <2>2, <2>5, PayloadsAssumption DEF Payloads!LengthAt, Payloads!FieldsAreShort
  <2>8. /\ Len(b) = 6 + Len(k) + Len(x)
        /\ Payloads!Part(b, 3, Len(k)) = k /\ Payloads!Part(b, 6 + Len(k), Len(x)) = x
    BY <2>1, <2>2, <2>4 DEF LaidOut
  <2>9. Payloads!PathOf(b, 4 + Len(k)) = x
    BY <2>6, <2>7, <2>8 DEF Payloads!PathOf, Payloads!LengthBytes
  <2>10. Payloads!SplitVersioned(b) = Payloads!Parsed(k, x, flag)
    <3>1. 1 + Payloads!LengthBytes + Len(k) = 3 + Len(k) /\ 1 + Payloads!LengthBytes = 3 /\ 3 + Len(k) + 1 = 4 + Len(k)
      BY <2>6 DEF Payloads!LengthBytes
    <3>2. ~(3 + Len(k) > Len(b)) /\ 3 + Len(k) # Len(b)
      BY <2>6, <2>8
    <3> QED
      BY <2>6, <2>7, <2>8, <2>9, <3>1, <3>2 DEF Payloads!SplitVersioned
  <2>11. Payloads!SplitAddKey(b) = Payloads!SplitVersioned(b)
    BY <2>5, <2>6, <2>8 DEF Payloads!SplitAddKey, Payloads!IsVersioned, Payloads!LengthBytes
  <2> QED
    BY <2>3, <2>10, <2>11
<1> QED
  BY <1>1, FieldsAreShortTexts DEF Payloads!BuildAddKey

(* What a client built is what the daemon takes apart. *)
LEMMA BuiltIsParsed ==
  ASSUME PayloadsInv, fields \in Payloads!Fields, answer # Payloads!Pending, body = Payloads!Build(op, fields)
  PROVE  Payloads!RoundTrip
<1>1. answer = Payloads!Parse(op, Payloads!Build(op, fields)) /\ op \in Payloads!Ops
  BY DEF PayloadsInv
<1>2. CASE op = "autoload"
  <2>1. answer = Payloads!Parsed(fields.key, <<>>, fields.flag)
    BY <1>1, <1>2, AutoloadRoundTrip DEF Payloads!Parse, Payloads!Build
  <2> QED
    BY <1>2, <2>1 DEF Payloads!RoundTrip, Payloads!Parsed
<1>3. CASE op = "comment"
  <2>1. answer = Payloads!Parsed(fields.key, fields.text, -1)
    BY <1>1, <1>3, CommentRoundTrip DEF Payloads!Parse, Payloads!Build
  <2> QED
    BY <1>3, <2>1 DEF Payloads!RoundTrip, Payloads!Parsed
<1>4. CASE op = "key"
  <2>1. answer = Payloads!Parsed(fields.key, fields.text, fields.flag)
    BY <1>1, <1>4, KeyRoundTrip DEF Payloads!Parse, Payloads!Build
  <2> QED
    BY <1>4, <2>1 DEF Payloads!RoundTrip, Payloads!Parsed
<1>5. CASE op = "legacyKey"
  <2>1. answer = Payloads!Parsed(fields.key, <<>>, fields.flag)
    BY <1>1, <1>5, LegacyRoundTrip DEF Payloads!Parse, Payloads!Build
  <2> QED
    BY <1>5, <2>1 DEF Payloads!RoundTrip, Payloads!Parsed
<1> QED
  BY <1>1, <1>2, <1>3, <1>4, <1>5 DEF Payloads!Ops

(* The one body that is read past its end. *)
LEMMA PanicIsKnown ==
  ASSUME NEW b, Payloads!SplitAddKey(b) = Payloads!Panic
  PROVE  b[1] = 1 /\ Len(b) = 1 + Payloads!LengthBytes + Payloads!LengthAt(b, 1)
<1>1. Payloads!Error # Payloads!Panic
  BY DEF Payloads!Error, Payloads!Panic, Payloads!Fail
<1>2. ASSUME NEW k, NEW x, NEW flag PROVE Payloads!Parsed(k, x, flag) # Payloads!Panic
  BY DEF Payloads!Parsed, Payloads!Panic, Payloads!Fail
<1>3. Payloads!IsVersioned(b) /\ Payloads!SplitVersioned(b) = Payloads!Panic
  BY <1>1, <1>2 DEF Payloads!SplitAddKey, Payloads!SplitLegacy
<1>4. 1 + Payloads!LengthBytes + Payloads!LengthAt(b, 1) = Len(b)
  BY <1>1, <1>2, <1>3 DEF Payloads!SplitVersioned
<1> QED
  BY <1>3, <1>4 DEF Payloads!IsVersioned

LEMMA CommentsDoNotPanic ==
  ASSUME NEW b \in Seq(Nat)
  PROVE  Payloads!ParseSetComment(b) # Payloads!Panic
<1> SUFFICES ASSUME Payloads!ParseSetComment(b) = Payloads!Panic PROVE FALSE
  OBVIOUS
<1> DEFINE n == Payloads!LengthAt(b, 0)
<1>1. Payloads!Error # Payloads!Panic
  BY DEF Payloads!Error, Payloads!Panic, Payloads!Fail
<1>2. ASSUME NEW k, NEW x, NEW flag PROVE Payloads!Parsed(k, x, flag) # Payloads!Panic
  BY DEF Payloads!Parsed, Payloads!Panic, Payloads!Fail
<1>3. ~(Len(b) < 2 * Payloads!LengthBytes) /\ Payloads!KeyFits(b, n) /\ Payloads!LengthBytes + n + Payloads!LengthBytes > Len(b)
  BY <1>1, <1>2 DEF Payloads!ParseSetComment
<1>4. Len(b) \in Nat /\ n \in Nat
  <2>1. Len(b) \in Nat /\ Len(b) >= 4
    BY <1>3 DEF Payloads!LengthBytes
  <2>2. b[1] \in Nat /\ b[2] \in Nat /\ Base \in Nat
    BY <2>1, PayloadsAssumption DEF Payloads!FieldsAreShort
  <2>3. n = b[1] * Base + b[2]
    BY DEF Payloads!LengthAt
  <2>4. b[1] * Base \in Nat
    BY <2>2
  <2> HIDE DEF n
  <2> QED
    BY <2>1, <2>2, <2>3, <2>4
<1> HIDE DEF n
<1> QED
  BY <1>3, <1>4 DEF Payloads!KeyFits, Payloads!LengthBytes

LEMMA OnlyKeysPanic ==
  ASSUME PayloadsInv, answer = Payloads!Panic
  PROVE  op \in {"key", "legacyKey"} /\ Payloads!SplitAddKey(body) = Payloads!Panic
<1>1. Payloads!Error # Payloads!Panic /\ Payloads!Pending # Payloads!Panic
  BY DEF Payloads!Error, Payloads!Panic, Payloads!Pending, Payloads!Fail
<1>2. ASSUME NEW k, NEW x, NEW flag PROVE Payloads!Parsed(k, x, flag) # Payloads!Panic
  BY DEF Payloads!Parsed, Payloads!Panic, Payloads!Fail
<1>3. op \in Payloads!Ops /\ Payloads!Parse(op, body) = Payloads!Panic
  BY <1>1 DEF PayloadsInv
<1>4. op # "autoload"
  BY <1>1, <1>2, <1>3 DEF Payloads!Parse, Payloads!ParseSetAutoload
<1>5. CASE fields \in Payloads!Fields /\ body = Payloads!Build(op, fields)
  <2>1. op # "comment"
    BY <1>2, <1>3, <1>5, CommentRoundTrip DEF Payloads!Parse, Payloads!Build
  <2> QED
    BY <1>3, <1>4, <2>1 DEF Payloads!Parse, Payloads!Ops
<1>6. CASE fields = Payloads!NotBuilt /\ body \in Payloads!Texts(MaxBody)
  <2>1. body \in Seq(Nat)
    BY <1>6, TextsAreSequences, PayloadsAssumption DEF Payloads!FieldsAreShort
  <2>2. op # "comment"
    BY <1>3, <2>1, CommentsDoNotPanic DEF Payloads!Parse
  <2> QED
    BY <1>3, <1>4, <2>2 DEF Payloads!Parse, Payloads!Ops
<1> QED
  BY <1>5, <1>6 DEF PayloadsInv

(* The inductive invariant of the requests: an answer is what the parser makes of the
   body, and a body is the client's own or any other (vault/op.go). *)
THEOREM PayloadsInvariance == Spec => []PayloadsInv
<1>1. Init => PayloadsInv
  BY PayloadsStart, NoPayloadIsSuch DEF Init
<1> QED
  BY <1>1, PayloadsNext, PayloadSteps, PTL DEF Spec

(* What a client lays out the daemon takes apart, for any byte base and any fields whose
   length fits the last byte of their length field; and no body at all, of whatever
   length, is read past its end but the one kind (vault/payload.go:11-58,
   vault/op.go:122-198). *)
THEOREM ClientAndDaemonAgree == Spec => []PayloadsAgree
<1>1. PayloadsInv => Payloads!RoundTrip
  <2>1. ASSUME PayloadsInv, fields # Payloads!NotBuilt, answer # Payloads!Pending PROVE Payloads!RoundTrip
    BY <2>1, BuiltIsParsed DEF PayloadsInv
  <2> QED
    BY <2>1 DEF Payloads!RoundTrip
<1>2. PayloadsInv => Payloads!ReadsInside
  BY OnlyKeysPanic, PanicIsKnown DEF Payloads!ReadsInside
<1> QED
  BY <1>1, <1>2, PayloadsInvariance, PTL DEF PayloadsAgree, Payloads!PayloadsAgree

-----------------------------------------------------------------------------
(* ClientCommands. *)

EditStages ==
  {"editFile", "editPub", "editProbe", "editLoaded", "editList", "editRemove", "editAdd",
   "editComment"}
ReloadStages == {"reloadList", "reloadWant", "reloadAdd", "reloadRemove"}
ListStages == {"addList", "addKey", "removeList", "removeFind", "removeKey"}
VaultStages == {"vaultOpen", "vaultProbe", "vaultUnlock", "vaultOp"}
LockStages == {"lockProbe", "lockDo"}

Labels ==
  EditStages \cup ReloadStages \cup ListStages \cup VaultStages \cup LockStages
    \cup {"idle", "ended"}

Words == {"error", "reloaded", "reloadFailed", "synced", "syncFailed", "already", "set"}

Records ==
  [req : Commands!Requests \cup {Commands!NoRequest},
   at : Labels,
   cfg : [vault : Commands!Holder, keyPaths : SUBSET Key], mode : {"keys", "vault"},
   seen : SUBSET Key, todo : SUBSET Key, drop : SUBSET Key, read : BOOLEAN, told : SUBSET Words,
   done : SUBSET Key, cut : BOOLEAN, alone : BOOLEAN, prompted : Commands!Holder]

StoreTypes == store \in [Commands!Holder -> [Key -> Commands!Identities \cup {None}]]
TookTypes == took \in [Commands!Holder -> [Key -> Client \cup {None}]]
RecordTypes == cli \in [Client -> Records]

AgentTypes ==
  /\ StoreTypes /\ TookTypes
  /\ served \in Commands!Holder /\ locked \in BOOLEAN
  /\ shown \in SUBSET Key /\ hidden \in SUBSET Key

FileTypes ==
  /\ config \in [vault : Commands!Holder, keyPaths : SUBSET Key]
  /\ readable \in SUBSET Vault
  /\ file \in [Key -> {"old", "new"}] /\ pub \in [Key -> {"old", "new"}]

(* A command is at a step of its verb, and one that lost its session was crossed. *)
InStep(r) ==
  /\ r.at \in EditStages => r.req.verb = "edit"
  /\ r.at \in ReloadStages => r.req.verb = "reload"
  /\ r.at \in ListStages => r.req.verb \in {"add", "remove"}
  /\ r.at \in VaultStages => r.req.verb \in Commands!VaultVerbs
  /\ r.at \in LockStages => r.req.verb \in {"lock", "unlock", "unlockRecovery"}
  /\ r.at = "idle" => r.req = Commands!NoRequest
  /\ r.cut => ~r.alone

(* What a command takes, it takes from the vault its session is with. *)
TakesFromServed(c) ==
  \A v \in Commands!Holder, k \in Key : took[v][k] = c /\ ~cli[c].cut => served = v

(* An edit: an identity it took out is either about to come back or reported lost, and
   the files are ahead of the agent. *)
EditSoFar(c) ==
  Commands!Command(c).verb = "edit" =>
    /\ Commands!Command(c).keys # {}
    /\ cli[c].at \in EditStages \ {"editComment"} => cli[c].told = {}
    /\ \A v \in Commands!Holder, k \in Key : took[v][k] = c /\ store[v][k] = None /\ ~cli[c].cut =>
         \/ Commands!At(c, "editAdd") /\ k = Commands!EditKey(c)
         \/ "reloadFailed" \in cli[c].told

FilesAhead(c) ==
  Commands!Command(c).verb = "edit" /\ ~Commands!Command(c).on =>
    /\ ~Commands!At(c, "editFile") /\ "error" \notin cli[c].told => file[Commands!EditKey(c)] = "new"
    /\ ~Commands!At(c, "editFile") /\ ~Commands!At(c, "editPub") /\ "error" \notin cli[c].told =>
         pub[Commands!EditKey(c)] = "new"
    /\ cli[c].alone /\ ("reloaded" \in cli[c].told \/ "synced" \in cli[c].told) =>
         store[served][Commands!EditKey(c)] # None /\ store[served][Commands!EditKey(c)].comment = "new"

(* A reload: what it has to drop is neither wanted by key_paths nor in the vault of its
   configuration, if that could be read. *)
ReloadSpares(c) ==
  Commands!Command(c).verb = "reload" =>
    /\ cli[c].at \in {"reloadList", "reloadWant"} =>
         \A v \in Commands!Holder, k \in Key : took[v][k] # c
    /\ Commands!At(c, "reloadWant") /\ cli[c].alone => cli[c].seen = Commands!Rows
    /\ Commands!At(c, "reloadAdd") => cli[c].todo \subseteq cli[c].cfg.keyPaths
    /\ cli[c].at \in {"reloadAdd", "reloadRemove"} /\ cli[c].alone =>
         \A k \in cli[c].drop :
           /\ k \notin cli[c].cfg.keyPaths
           /\ cli[c].read => cli[c].cfg.vault # NoVault /\ store[cli[c].cfg.vault][k] = None
    /\ \A v \in Vault, k \in Key :
         took[v][k] = c /\ cli[c].alone => cli[c].cfg.vault # v \/ ~cli[c].read

Accounted(c, k) ==
  \/ k \in cli[c].cfg.keyPaths
  \/ cli[c].cfg.vault # NoVault /\ store[cli[c].cfg.vault][k] # None
  \/ ~cli[c].read

ReloadSoFar(c) ==
  Commands!Command(c).verb = "reload" /\ cli[c].alone /\ cli[c].told = {} =>
    /\ Commands!At(c, "reloadAdd") /\ ~locked => cli[c].cfg.keyPaths \subseteq Commands!Rows \cup cli[c].todo
    /\ cli[c].at \in {"reloadRemove", "ended"} /\ ~locked => cli[c].cfg.keyPaths \subseteq Commands!Rows
    /\ cli[c].at \in {"reloadAdd", "reloadRemove"} =>
         \A k \in Commands!Rows : k \in cli[c].drop \/ Accounted(c, k)
    /\ Commands!At(c, "ended") => \A k \in Commands!Rows : Accounted(c, k)

(* What a vault verb has done is so. *)
IsSo(c, k) ==
  CASE Commands!Command(c).verb = "vaultRemove"   -> store[served][k] = None
    [] Commands!Command(c).verb = "vaultAutoload" -> store[served][k] # None
                                              /\ store[served][k].autoload = Commands!Command(c).on
    [] OTHER                             -> store[served][k] # None /\ (k \in Commands!Rows \/ k \in hidden)

VerbSoFar(c) ==
  Commands!Command(c).verb \in Commands!VaultVerbs =>
    /\ Commands!At(c, "vaultUnlock") => Commands!Command(c).path = cli[c].cfg.vault
    /\ cli[c].prompted # NoVault =>
         cli[c].prompted = Commands!Command(c).path \/ cli[c].prompted # cli[c].cfg.vault
    /\ cli[c].at \in {"vaultOpen", "vaultProbe", "vaultUnlock"} => cli[c].done = {}
    /\ cli[c].alone => \A k \in cli[c].done : IsSo(c, k)

CommandInv(c) ==
  /\ InStep(cli[c]) /\ TakesFromServed(c)
  /\ EditSoFar(c) /\ FilesAhead(c) /\ ReloadSpares(c) /\ ReloadSoFar(c) /\ VerbSoFar(c)

CommandsInv ==
  /\ AgentTypes /\ FileTypes /\ RecordTypes
  /\ \A c \in Client : CommandInv(c)

LEMMA RequestIs ==
  ASSUME NEW r \in Commands!Requests \cup {Commands!NoRequest}
  PROVE  /\ r.keys \in SUBSET Key /\ r.on \in BOOLEAN /\ r.path \in Commands!Holder
         /\ r.verb = "edit" => r.keys # {}
<1>1. CASE r = Commands!NoRequest
  BY <1>1 DEF Commands!NoRequest, Commands!Holder
<1>2. CASE r \in Commands!Requests
  BY <1>2 DEF Commands!Requests, Commands!Holder, Commands!VaultVerbs
<1> QED
  BY <1>1, <1>2

LEMMA RecordIs ==
  ASSUME NEW r \in Records
  PROVE  /\ r.req \in Commands!Requests \cup {Commands!NoRequest} /\ r.at \in Labels
         /\ r.cfg \in [vault : Commands!Holder, keyPaths : SUBSET Key] /\ r.mode \in {"keys", "vault"}
         /\ r.seen \in SUBSET Key /\ r.todo \in SUBSET Key /\ r.drop \in SUBSET Key
         /\ r.read \in BOOLEAN /\ r.told \in SUBSET Words /\ r.done \in SUBSET Key
         /\ r.cut \in BOOLEAN /\ r.alone \in BOOLEAN /\ r.prompted \in Commands!Holder
BY DEF Records

(* What the steps of a command make of its record. *)
Kept(s, r) ==
  /\ s \in Records /\ s.req = r.req /\ s.cfg = r.cfg /\ s.cut = r.cut /\ s.alone = r.alone

LEMMA AtSet ==
  ASSUME NEW r \in Records, NEW l \in Labels
  PROVE  LET s == [r EXCEPT !.at = l] IN
           /\ Kept(s, r) /\ s.at = l
           /\ s.mode = r.mode /\ s.seen = r.seen /\ s.todo = r.todo /\ s.drop = r.drop
           /\ s.read = r.read /\ s.told = r.told /\ s.done = r.done /\ s.prompted = r.prompted
BY DEF Records, Kept

LEMMA ToldSet ==
  ASSUME NEW r \in Records, NEW w \in Words
  PROVE  LET s == Commands!Tell(r, w) IN
           /\ Kept(s, r) /\ s.at = r.at
           /\ s.mode = r.mode /\ s.seen = r.seen /\ s.todo = r.todo /\ s.drop = r.drop
           /\ s.read = r.read /\ s.told = r.told \cup {w} /\ s.done = r.done
           /\ s.prompted = r.prompted
BY DEF Records, Kept, Commands!Tell

LEMMA EndSet ==
  ASSUME NEW r \in Records
  PROVE  LET s == Commands!End(r) IN
           /\ Kept(s, r) /\ s.at = "ended"
           /\ s.mode = r.mode /\ s.seen = {} /\ s.todo = {} /\ s.drop = {}
           /\ s.read = r.read /\ s.told = r.told /\ s.done = r.done /\ s.prompted = r.prompted
BY DEF Records, Kept, Labels, Commands!End

LEMMA AloneLost ==
  ASSUME NEW r \in Records
  PROVE  LET s == [r EXCEPT !.alone = FALSE] IN
           /\ s \in Records /\ s.req = r.req /\ s.cfg = r.cfg /\ s.cut = r.cut /\ ~s.alone
           /\ s.at = r.at /\ s.mode = r.mode /\ s.seen = r.seen /\ s.todo = r.todo
           /\ s.drop = r.drop /\ s.read = r.read /\ s.told = r.told /\ s.done = r.done
           /\ s.prompted = r.prompted
BY DEF Records

LEMMA SessionLost ==
  ASSUME NEW r \in Records
  PROVE  LET s == [r EXCEPT !.cut = TRUE, !.alone = FALSE] IN
           /\ s \in Records /\ s.req = r.req /\ s.cfg = r.cfg /\ s.cut /\ ~s.alone
           /\ s.at = r.at /\ s.mode = r.mode /\ s.seen = r.seen /\ s.todo = r.todo
           /\ s.drop = r.drop /\ s.read = r.read /\ s.told = r.told /\ s.done = r.done
           /\ s.prompted = r.prompted
BY DEF Records

LEMMA KeyOfEdit ==
  ASSUME NEW c \in Client, cli[c] \in Records, Commands!Command(c).verb = "edit"
  PROVE  Commands!EditKey(c) \in Key
<1>1. Commands!Command(c).keys # {} /\ Commands!Command(c).keys \in SUBSET Key
  BY RecordIs, RequestIs DEF Commands!Command
<1> QED
  BY <1>1 DEF Commands!EditKey

LEMMA SameRequest ==
  ASSUME NEW c \in Client, cli'[c].req = cli[c].req
  PROVE  Commands!Command(c)' = Commands!Command(c) /\ Commands!EditKey(c)' = Commands!EditKey(c)
BY DEF Commands!Command, Commands!EditKey

(* A terminal that nobody disturbs. *)
LEMMA Undisturbed ==
  ASSUME NEW d \in Client, CommandInv(d), cli'[d] = cli[d],
         UNCHANGED <<Commands!agent, Commands!files>>,
         \A v \in Commands!Holder, k \in Key : took'[v][k] = d => took[v][k] = d
  PROVE  CommandInv(d)'
<1>1. Commands!Command(d)' = Commands!Command(d) /\ Commands!EditKey(d)' = Commands!EditKey(d)
  BY SameRequest
<1>2. Commands!Rows' = Commands!Rows
  BY DEF Commands!Rows, Commands!HeldIn, Commands!agent
<1> USE <1>1, <1>2 DEF CommandInv, Commands!agent, Commands!files, Commands!At
<1>3. InStep(cli[d])' /\ TakesFromServed(d)'
  BY DEF InStep, TakesFromServed
<1>4. EditSoFar(d)' /\ FilesAhead(d)'
  BY DEF EditSoFar, FilesAhead
<1>5. store' = store /\ served' = served /\ locked' = locked
  OBVIOUS
<1>6. ReloadSpares(d)'
  <2>1. ReloadSpares(d)
    OBVIOUS
  <2> QED
    BY <1>5, <2>1 DEF ReloadSpares, Commands!Holder
<1>7. ReloadSoFar(d)'
  BY DEF ReloadSoFar, Accounted
<1>8. VerbSoFar(d)'
  BY DEF VerbSoFar, IsSo
<1> QED
  BY <1>3, <1>4, <1>6, <1>7, <1>8

(* The files only ever change to the new comment. *)
FilesGrow ==
  \A k \in Key : (file[k] = "new" => file'[k] = "new") /\ (pub[k] = "new" => pub'[k] = "new")

(* A terminal whose command is crossed by another: nobody else takes an identity in its
   name. *)
LEMMA Crossed ==
  ASSUME NEW d \in Client, CommandInv(d), cli[d] \in Records,
         cli'[d] = [cli[d] EXCEPT !.alone = FALSE],
         served' = served, FilesGrow,
         \A v \in Commands!Holder, k \in Key :
           took'[v][k] = d => took[v][k] = d /\ (store'[v][k] = None => store[v][k] = None)
  PROVE  CommandInv(d)'
<1> DEFINE s == [cli[d] EXCEPT !.alone = FALSE]
<1>0. /\ cli'[d] = s
      /\ s.req = cli[d].req /\ s.cfg = cli[d].cfg /\ s.cut = cli[d].cut /\ ~s.alone
      /\ s.at = cli[d].at /\ s.told = cli[d].told /\ s.done = cli[d].done
      /\ s.prompted = cli[d].prompted
  BY AloneLost
<1> HIDE DEF s
<1>1. Commands!Command(d)' = Commands!Command(d) /\ Commands!EditKey(d)' = Commands!EditKey(d)
  BY <1>0, SameRequest
<1> USE <1>0, <1>1 DEF CommandInv, Commands!At
<1>3. InStep(cli[d])' /\ TakesFromServed(d)'
  BY DEF InStep, TakesFromServed
<1>4. EditSoFar(d)'
  BY DEF EditSoFar
<1>5. FilesAhead(d)'
  BY KeyOfEdit DEF FilesAhead, FilesGrow
<1>6. ReloadSpares(d)' /\ ReloadSoFar(d)'
  BY DEF ReloadSpares, ReloadSoFar
<1>7. VerbSoFar(d)'
  BY DEF VerbSoFar
<1> QED
  BY <1>3, <1>4, <1>5, <1>6, <1>7

(* Whoever moves takes identities in its own name only. *)
TakesInOwnName(c) ==
  \A v \in Commands!Holder, k \in Key :
    \/ took'[v][k] = c
    \/ took'[v][k] = took[v][k] /\ (store'[v][k] = None => store[v][k] = None)

LEMMA QuietlyKeeps ==
  ASSUME CommandsInv, NEW c \in Client, NEW r \in Records, Commands!Quietly(c, r), Commands!NoChange,
         cli'[c] = r => CommandInv(c)'
  PROVE  CommandsInv'
<1> USE DEF CommandsInv
<1>1. /\ UNCHANGED <<Commands!agent, Commands!files, took, config, readable>>
      /\ cli' = [cli EXCEPT ![c] = r]
  BY DEF Commands!Quietly, Commands!NoChange
<1>2. cli'[c] = r /\ RecordTypes' /\ \A d \in Client \ {c} : cli'[d] = cli[d]
  BY <1>1 DEF RecordTypes
<1>3. AgentTypes' /\ FileTypes'
  BY <1>1 DEF AgentTypes, StoreTypes, TookTypes, FileTypes, Commands!agent, Commands!files
<1>4. ASSUME NEW d \in Client PROVE CommandInv(d)'
  <2>1. CASE d = c
    BY <1>2, <2>1
  <2>2. CASE d # c
    <3>1. CommandInv(d) /\ cli'[d] = cli[d] /\ UNCHANGED <<Commands!agent, Commands!files>>
      BY <1>1, <1>2, <2>2
    <3>2. \A v \in Commands!Holder, k \in Key : took'[v][k] = d => took[v][k] = d
      BY <1>1
    <3> QED
      BY <3>1, <3>2, Undisturbed
  <2> QED
    BY <2>1, <2>2
<1> QED
  BY <1>2, <1>3, <1>4

LEMMA VisiblyKeeps ==
  ASSUME CommandsInv, NEW c \in Client, NEW r \in Records, Commands!Visibly(c, r),
         AgentTypes', file' \in [Key -> {"old", "new"}], pub' \in [Key -> {"old", "new"}],
         served' = served, FilesGrow, TakesInOwnName(c),
         cli'[c] = r => CommandInv(c)'
  PROVE  CommandsInv'
<1> USE DEF CommandsInv
<1>1. /\ cli' = [d \in Client |-> IF d = c THEN r ELSE [cli[d] EXCEPT !.alone = FALSE]]
      /\ UNCHANGED <<config, readable>>
  BY DEF Commands!Visibly
<1>2. /\ cli'[c] = r
      /\ \A d \in Client \ {c} : cli'[d] = [cli[d] EXCEPT !.alone = FALSE]
  BY <1>1
<1>3. ASSUME NEW d \in Client PROVE cli[d] \in Records /\ [cli[d] EXCEPT !.alone = FALSE] \in Records
  BY AloneLost DEF RecordTypes
<1>4. RecordTypes'
  BY <1>1, <1>3 DEF RecordTypes
<1>5. FileTypes'
  BY <1>1 DEF FileTypes
<1>6. ASSUME NEW d \in Client PROVE CommandInv(d)'
  <2>1. CASE d = c
    BY <1>2, <2>1
  <2>2. CASE d # c
    <3>1. CommandInv(d) /\ cli[d] \in Records /\ cli'[d] = [cli[d] EXCEPT !.alone = FALSE]
      BY <1>2, <1>3, <2>2
    <3>2. \A v \in Commands!Holder, k \in Key :
            took'[v][k] = d => took[v][k] = d /\ (store'[v][k] = None => store[v][k] = None)
      BY <2>2 DEF TakesInOwnName
    <3> QED
      BY <3>1, <3>2, Crossed
  <2> QED
    BY <2>1, <2>2
<1> QED
  BY <1>4, <1>5, <1>6

(* What the requests do to the agent. *)
LEMMA StatusTells ==
  ASSUME NEW c \in Client, NEW k \in Key
  PROVE  /\ Commands!Status(c, k) = "ok" => ~cli[c].cut /\ ~locked /\ store[served][k] # None
         /\ Commands!Status(c, k) \notin {"gone", "locked"} => ~cli[c].cut /\ ~locked
BY DEF Commands!Status

LEMMA Stored ==
  ASSUME AgentTypes, NEW k \in Key, NEW i \in Commands!Identities \cup {None},
         store' = [store EXCEPT ![served][k] = i]
  PROVE  /\ StoreTypes'
         /\ store'[served][k] = i
         /\ \A v \in Commands!Holder, j \in Key : v # served \/ j # k => store'[v][j] = store[v][j]
BY DEF AgentTypes, StoreTypes

LEMMA PutEffect ==
  ASSUME AgentTypes, FileTypes, NEW k \in Key, NEW auto \in BOOLEAN, Commands!Put(k, auto), ~locked
  PROVE  /\ AgentTypes'
         /\ file' = file /\ pub' = pub /\ served' = served /\ took' = took /\ ~locked'
         /\ hidden' = hidden
         /\ store'[served][k] # None
         /\ \A v \in Commands!Holder, j \in Key : v # served \/ j # k => store'[v][j] = store[v][j]
         /\ \A j \in Key : j # k => (j \in Commands!Rows' <=> j \in Commands!Rows)
         /\ ~auto => k \in Commands!Rows'
         /\ k \in Commands!Rows' \/ k \in hidden'
<1>1. /\ store' = [store EXCEPT ![served][k] =
                     [comment |-> file[k], autoload |-> auto \/ served = NoVault]]
      /\ shown' = IF served # NoVault /\ ~auto THEN shown \cup {k} ELSE shown
      /\ UNCHANGED <<served, locked, hidden, file, pub, took>>
  BY DEF Commands!Put, Commands!files
<1>2. PICK i \in Commands!Identities : /\ i.autoload <=> (auto \/ served = NoVault)
                              /\ store' = [store EXCEPT ![served][k] = i]
  <2>1. file[k] \in {"old", "new"}
    BY DEF FileTypes
  <2>2. [comment |-> file[k], autoload |-> auto \/ served = NoVault] \in Commands!Identities
    BY <2>1 DEF Commands!Identities
  <2> QED
    BY <1>1, <2>2
<1>3. /\ StoreTypes' /\ store'[served][k] = i
      /\ \A v \in Commands!Holder, j \in Key : v # served \/ j # k => store'[v][j] = store[v][j]
  BY <1>2, Stored
<1>4. served \in Commands!Holder /\ i # None
  BY CommandsAssumption DEF AgentTypes, Commands!NamesDiffer
<1>5. AgentTypes'
  BY <1>1, <1>3 DEF AgentTypes, TookTypes
<1>6. \A j \in Key : j # k => (j \in Commands!Rows' <=> j \in Commands!Rows)
  BY <1>1, <1>3, <1>4 DEF Commands!Rows, Commands!HeldIn
<1>7. k \in Commands!Rows' <=> IF served = NoVault THEN TRUE
                      ELSE IF auto THEN k \notin hidden ELSE k \in shown'
  BY <1>1, <1>2, <1>3, <1>4 DEF Commands!Rows, Commands!HeldIn
<1> QED
  BY <1>1, <1>3, <1>4, <1>5, <1>6, <1>7

LEMMA TakeEffect ==
  ASSUME AgentTypes, NEW c \in Client, NEW k \in Key, Commands!Take(c, k)
  PROVE  /\ AgentTypes'
         /\ file' = file /\ pub' = pub /\ served' = served /\ (locked' <=> locked)
         /\ store'[served][k] = None
         /\ \A v \in Commands!Holder, j \in Key : v # served \/ j # k => store'[v][j] = store[v][j]
         /\ took'[served][k] = c
         /\ \A v \in Commands!Holder, j \in Key : v # served \/ j # k => took'[v][j] = took[v][j]
         /\ \A j \in Key : j # k => (j \in Commands!Rows' <=> j \in Commands!Rows) /\ (j \in hidden' <=> j \in hidden)
         /\ k \notin Commands!Rows'
<1>1. /\ store' = [store EXCEPT ![served][k] = None]
      /\ shown' = shown \ {k} /\ hidden' = hidden \ {k}
      /\ took' = [took EXCEPT ![served][k] = c]
      /\ UNCHANGED <<served, locked, file, pub>>
  BY DEF Commands!Take, Commands!files
<1>2. /\ StoreTypes' /\ store'[served][k] = None
      /\ \A v \in Commands!Holder, j \in Key : v # served \/ j # k => store'[v][j] = store[v][j]
  BY <1>1, Stored
<1>3. /\ TookTypes' /\ took'[served][k] = c
      /\ \A v \in Commands!Holder, j \in Key : v # served \/ j # k => took'[v][j] = took[v][j]
  BY <1>1 DEF AgentTypes, TookTypes
<1>4. served \in Commands!Holder
  BY DEF AgentTypes
<1>5. AgentTypes'
  BY <1>1, <1>2, <1>3 DEF AgentTypes
<1>6. \A j \in Key : j # k => (j \in Commands!Rows' <=> j \in Commands!Rows) /\ (j \in hidden' <=> j \in hidden)
  BY <1>1, <1>2, <1>4 DEF Commands!Rows, Commands!HeldIn
<1>7. k \notin Commands!Rows'
  BY <1>1, <1>2 DEF Commands!Rows, Commands!HeldIn
<1> QED
  BY <1>1, <1>2, <1>3, <1>5, <1>6, <1>7

(* The parts of the invariant that do not depend on the verb. *)
LEMMA OwnStep ==
  ASSUME CommandsInv, NEW c \in Client, NEW r \in Records, Kept(r, cli[c]), InStep(r),
         cli'[c] = r, served' = served,
         \A v \in Commands!Holder, k \in Key : took'[v][k] = c => took[v][k] = c \/ v = served
  PROVE  /\ InStep(cli[c])' /\ TakesFromServed(c)'
         /\ Commands!Command(c)' = Commands!Command(c) /\ Commands!EditKey(c)' = Commands!EditKey(c)
<1>1. CommandInv(c) /\ r.req = cli[c].req /\ r.cut = cli[c].cut
  BY DEF CommandsInv, Kept
<1>2. InStep(cli[c])'
  BY DEF InStep
<1>3. TakesFromServed(c)'
  BY <1>1 DEF CommandInv, TakesFromServed
<1> QED
  BY <1>1, <1>2, <1>3, SameRequest

LEMMA PlainStep ==
  ASSUME CommandsInv, NEW c \in Client, NEW r \in Records, Kept(r, cli[c]), InStep(r),
         cli'[c] = r, served' = served,
         \A v \in Commands!Holder, k \in Key : took'[v][k] = c => took[v][k] = c \/ v = served,
         Commands!Command(c).verb \notin {"edit", "reload"} \cup Commands!VaultVerbs
  PROVE  CommandInv(c)'
<1>1. /\ InStep(cli[c])' /\ TakesFromServed(c)'
      /\ Commands!Command(c)' = Commands!Command(c)
  BY OwnStep
<1> QED
  BY <1>1 DEF CommandInv, EditSoFar, FilesAhead, ReloadSpares, ReloadSoFar, VerbSoFar

LEMMA TodoSet ==
  ASSUME NEW r \in Records, NEW todo \in SUBSET Key
  PROVE  LET s == [r EXCEPT !.todo = todo] IN
           /\ Kept(s, r) /\ s.at = r.at /\ s.mode = r.mode /\ s.seen = r.seen /\ s.todo = todo
           /\ s.drop = r.drop /\ s.read = r.read /\ s.told = r.told /\ s.done = r.done
           /\ s.prompted = r.prompted
BY DEF Records, Kept

LEMMA FailedIs ==
  ASSUME NEW r \in Records, NEW w \in Words, NEW s, s = Commands!End(Commands!Tell(r, w))
  PROVE  /\ Kept(s, r) /\ s.at = "ended" /\ s.read = r.read
         /\ s.told = r.told \cup {w} /\ s.done = r.done
         /\ s.prompted = r.prompted
<1> DEFINE t == Commands!Tell(r, w)
<1>1. Kept(t, r) /\ t.read = r.read /\ t.told = r.told \cup {w}
      /\ t.done = r.done /\ t.prompted = r.prompted
  BY ToldSet
<1>2. t \in Records /\ s = Commands!End(t)
  BY <1>1 DEF Kept
<1> HIDE DEF t
<1>3. /\ Kept(s, t) /\ s.at = "ended" /\ s.read = t.read /\ s.told = t.told
      /\ s.done = t.done /\ s.prompted = t.prompted
  BY <1>2, EndSet
<1> QED
  BY <1>1, <1>3 DEF Kept

LEMMA GotoIs ==
  ASSUME NEW c \in Client, cli[c] \in Records, NEW l \in Labels
  PROVE  LET s == Commands!Goto(c, l) IN
           /\ Kept(s, cli[c]) /\ s.at = l
           /\ s.mode = cli[c].mode /\ s.seen = cli[c].seen /\ s.todo = cli[c].todo
           /\ s.drop = cli[c].drop /\ s.read = cli[c].read /\ s.told = cli[c].told
           /\ s.done = cli[c].done /\ s.prompted = cli[c].prompted
BY AtSet DEF Commands!Goto

(* Quiet steps of the commands whose promises nothing is said of. *)
LEMMA PlainQuietly ==
  ASSUME CommandsInv, NEW c \in Client, NEW r \in Records, Kept(r, cli[c]), InStep(r),
         Commands!Command(c).verb \notin {"edit", "reload"} \cup Commands!VaultVerbs,
         Commands!Quietly(c, r), Commands!NoChange
  PROVE  CommandsInv'
<1>1. ASSUME cli'[c] = r PROVE CommandInv(c)'
  BY <1>1, PlainStep DEF Commands!NoChange, Commands!agent
<1> QED
  BY <1>1, QuietlyKeeps

LEMMA PlainFails ==
  ASSUME CommandsInv, NEW c \in Client,
         Commands!Command(c).verb \notin {"edit", "reload"} \cup Commands!VaultVerbs,
         Commands!Fails(c), Commands!NoChange
  PROVE  CommandsInv'
<1>1. cli[c] \in Records /\ InStep(cli[c])
  BY DEF CommandsInv, RecordTypes, CommandInv
<1>2. PICK r : r = Commands!End(Commands!Tell(cli[c], "error"))
  OBVIOUS
<1>3. Commands!Quietly(c, r)
  BY <1>2 DEF Commands!Fails
<1>4. Kept(r, cli[c]) /\ r.at = "ended"
  <2>1. "error" \in Words /\ cli[c] \in Records
    BY <1>1 DEF Words
  <2> QED
    BY <1>2, <2>1, FailedIs
<1>5. r \in Records /\ InStep(r)
  BY <1>1, <1>4 DEF Kept, InStep, EditStages, ReloadStages, ListStages, VaultStages, LockStages
<1> QED
  BY <1>3, <1>4, <1>5, PlainQuietly

Classes == {EditStages, ReloadStages, ListStages, VaultStages, LockStages}

LEMMA StaysInStep ==
  ASSUME NEW s, InStep(s), NEW r, Kept(r, s),
         r.at = "ended" \/ \E S \in Classes : r.at \in S /\ s.at \in S
  PROVE  InStep(r)
<1>1. r.req = s.req /\ r.cut = s.cut /\ r.alone = s.alone
  BY DEF Kept
<1>2. CASE r.at = "ended"
  BY <1>1, <1>2 DEF InStep, EditStages, ReloadStages, ListStages, VaultStages, LockStages
<1>3. CASE \E S \in Classes : r.at \in S /\ s.at \in S
  BY <1>1, <1>3
     DEF InStep, Classes, EditStages, ReloadStages, ListStages, VaultStages, LockStages
<1> QED
  BY <1>2, <1>3

(* What is known of the command that moves. *)
LEMMA OwnRecord ==
  ASSUME CommandsInv, NEW c \in Client
  PROVE  /\ cli[c] \in Records /\ InStep(cli[c]) /\ CommandInv(c)
         /\ Commands!Command(c) \in Commands!Requests \cup {Commands!NoRequest}
         /\ AgentTypes /\ FileTypes
BY RecordIs DEF CommandsInv, RecordTypes, CommandInv, Commands!Command

LEMMA PutKeeps ==
  ASSUME CommandsInv, NEW c \in Client, NEW r \in Records, Commands!Visibly(c, r),
         NEW k \in Key, NEW auto \in BOOLEAN, Commands!Put(k, auto),
         Commands!Status(c, k) \notin {"gone", "locked"},
         cli'[c] = r => CommandInv(c)'
  PROVE  CommandsInv'
<1>1. AgentTypes /\ FileTypes /\ ~locked
  BY OwnRecord, StatusTells
<1>2. /\ AgentTypes' /\ file' = file /\ pub' = pub /\ served' = served /\ took' = took
      /\ store'[served][k] # None
      /\ \A v \in Commands!Holder, j \in Key : v # served \/ j # k => store'[v][j] = store[v][j]
  BY <1>1, PutEffect
<1>3. file' \in [Key -> {"old", "new"}] /\ pub' \in [Key -> {"old", "new"}]
  BY <1>1, <1>2 DEF FileTypes
<1>4. FilesGrow
  BY <1>2 DEF FilesGrow
<1>5. TakesInOwnName(c)
  BY <1>2 DEF TakesInOwnName
<1> QED
  BY <1>2, <1>3, <1>4, <1>5, VisiblyKeeps

LEMMA TakeKeeps ==
  ASSUME CommandsInv, NEW c \in Client, NEW r \in Records, Commands!Visibly(c, r),
         NEW k \in Key, Commands!Take(c, k),
         cli'[c] = r => CommandInv(c)'
  PROVE  CommandsInv'
<1>1. AgentTypes /\ FileTypes
  BY OwnRecord
<1>2. /\ AgentTypes' /\ file' = file /\ pub' = pub /\ served' = served
      /\ \A v \in Commands!Holder, j \in Key : v # served \/ j # k => store'[v][j] = store[v][j]
      /\ took'[served][k] = c
      /\ \A v \in Commands!Holder, j \in Key : v # served \/ j # k => took'[v][j] = took[v][j]
  BY <1>1, TakeEffect
<1>3. file' \in [Key -> {"old", "new"}] /\ pub' \in [Key -> {"old", "new"}]
  BY <1>1, <1>2 DEF FileTypes
<1>4. FilesGrow
  BY <1>2 DEF FilesGrow
<1>5. TakesInOwnName(c)
  BY <1>2 DEF TakesInOwnName
<1> QED
  BY <1>2, <1>3, <1>4, <1>5, VisiblyKeeps

(* Changes to what the agent lists, and to nothing else. *)
LEMMA ListingKeeps ==
  ASSUME CommandsInv, NEW c \in Client, NEW r \in Records, Commands!Visibly(c, r),
         locked' \in BOOLEAN, shown' \in SUBSET Key, hidden' \in SUBSET Key,
         UNCHANGED <<served, store, Commands!files, took>>,
         cli'[c] = r => CommandInv(c)'
  PROVE  CommandsInv'
<1>1. AgentTypes /\ FileTypes
  BY OwnRecord
<1>2. file' = file /\ pub' = pub /\ served' = served /\ store' = store /\ took' = took
  BY DEF Commands!files
<1>3. AgentTypes'
  BY <1>1, <1>2 DEF AgentTypes, StoreTypes, TookTypes
<1>4. file' \in [Key -> {"old", "new"}] /\ pub' \in [Key -> {"old", "new"}]
  BY <1>1, <1>2 DEF FileTypes
<1>5. FilesGrow
  BY <1>2 DEF FilesGrow
<1>6. TakesInOwnName(c)
  BY <1>2 DEF TakesInOwnName
<1> QED
  BY <1>2, <1>3, <1>4, <1>5, <1>6, VisiblyKeeps

(* sshush add and sshush remove. *)
LEMMA AddListSteps ==
  ASSUME CommandsInv, NEW c \in Client, Commands!AddList(c)
  PROVE  CommandsInv'
<1>1. cli[c].at = "addList" /\ Commands!NoChange
  BY DEF Commands!AddList, Commands!At
<1>2. cli[c] \in Records /\ InStep(cli[c])
  BY OwnRecord
<1>3. Commands!Command(c).verb \notin {"edit", "reload"} \cup Commands!VaultVerbs
  BY <1>1, <1>2 DEF InStep, ListStages, Commands!Command, Commands!VaultVerbs
<1>4. CASE Commands!Fails(c)
  BY <1>1, <1>3, <1>4, PlainFails
<1>5. CASE Commands!Quietly(c, Commands!Goto(c, "addKey"))
  <2>1. PICK r : r = Commands!Goto(c, "addKey")
    OBVIOUS
  <2>2. Kept(r, cli[c]) /\ r.at = "addKey"
    BY <1>2, <2>1, GotoIs DEF Labels, ListStages
  <2>3. InStep(r) /\ r \in Records
    BY <1>1, <1>2, <2>2, StaysInStep DEF Classes, ListStages, Kept
  <2> QED
    BY <1>1, <1>3, <1>5, <2>1, <2>2, <2>3, PlainQuietly
<1> QED
  BY <1>4, <1>5 DEF Commands!AddList

LEMMA SeenSet ==
  ASSUME NEW r \in Records, NEW seen \in SUBSET Key
  PROVE  LET s == [r EXCEPT !.seen = seen] IN
           /\ Kept(s, r) /\ s.at = r.at /\ s.mode = r.mode /\ s.seen = seen /\ s.todo = r.todo
           /\ s.drop = r.drop /\ s.read = r.read /\ s.told = r.told /\ s.done = r.done
           /\ s.prompted = r.prompted
BY DEF Records, Kept

LEMMA KeptOn ==
  ASSUME NEW r, NEW s, NEW t, Kept(s, r), Kept(t, s)
  PROVE  Kept(t, r)
BY DEF Kept

LEMMA RowsAreKeys == Commands!Rows \in SUBSET Key /\ \A v \in Commands!Holder : Commands!HeldIn(v) \in SUBSET Key
BY DEF Commands!Rows, Commands!HeldIn

LEMMA PlainPut ==
  ASSUME CommandsInv, NEW c \in Client, NEW r \in Records, Kept(r, cli[c]), InStep(r),
         Commands!Command(c).verb \notin {"edit", "reload"} \cup Commands!VaultVerbs,
         NEW k \in Key, NEW auto \in BOOLEAN, Commands!Put(k, auto), Commands!Visibly(c, r),
         Commands!Status(c, k) \notin {"gone", "locked"}
  PROVE  CommandsInv'
<1>1. ASSUME cli'[c] = r PROVE CommandInv(c)'
  <2>1. served' = served /\ took' = took
    BY DEF Commands!Put
  <2> QED
    BY <1>1, <2>1, PlainStep
<1> QED
  BY <1>1, PutKeeps

LEMMA PlainTake ==
  ASSUME CommandsInv, NEW c \in Client, NEW r \in Records, Kept(r, cli[c]), InStep(r),
         Commands!Command(c).verb \notin {"edit", "reload"} \cup Commands!VaultVerbs,
         NEW k \in Key, Commands!Take(c, k), Commands!Visibly(c, r)
  PROVE  CommandsInv'
<1>1. ASSUME cli'[c] = r PROVE CommandInv(c)'
  <2>1. served' = served
    BY DEF Commands!Take
  <2>2. \A v \in Commands!Holder, j \in Key : v # served => took'[v][j] = took[v][j]
    BY OwnRecord, TakeEffect
  <2> QED
    BY <1>1, <2>1, <2>2, PlainStep
<1> QED
  BY <1>1, TakeKeeps

LEMMA AddKeySteps ==
  ASSUME CommandsInv, NEW c \in Client, Commands!AddKey(c)
  PROVE  CommandsInv'
<1>1. cli[c].at = "addKey"
  BY DEF Commands!AddKey, Commands!At
<1>2. cli[c] \in Records /\ InStep(cli[c]) /\ Commands!Command(c) \in Commands!Requests \cup {Commands!NoRequest}
  BY OwnRecord
<1>3. Commands!Command(c).verb \notin {"edit", "reload"} \cup Commands!VaultVerbs
  BY <1>1, <1>2 DEF InStep, ListStages, Commands!Command, Commands!VaultVerbs
<1>4. CASE Commands!Fails(c) /\ Commands!NoChange
  BY <1>3, <1>4, PlainFails
<1>5. CASE Commands!Quietly(c, Commands!End(cli[c])) /\ Commands!NoChange
  <2>1. PICK r : r = Commands!End(cli[c])
    OBVIOUS
  <2>2. Kept(r, cli[c]) /\ r.at = "ended"
    BY <1>2, <2>1, EndSet
  <2>3. InStep(r) /\ r \in Records
    BY <1>2, <2>2, StaysInStep DEF Kept
  <2> QED
    BY <1>3, <1>5, <2>1, <2>2, <2>3, PlainQuietly
<1>6. ASSUME NEW k \in cli[c].todo, Commands!Status(c, k) \notin {"gone", "locked"},
             Commands!Put(k, Commands!Command(c).on), Commands!Visibly(c, [cli[c] EXCEPT !.todo = @ \ {k}])
      PROVE  CommandsInv'
  <2>1. cli[c].todo \in SUBSET Key /\ Commands!Command(c).on \in BOOLEAN
    BY <1>2, RecordIs, RequestIs
  <2>2. PICK r : r = [cli[c] EXCEPT !.todo = cli[c].todo \ {k}]
    OBVIOUS
  <2>3. Kept(r, cli[c]) /\ r.at = cli[c].at
    BY <1>2, <2>1, <2>2, TodoSet
  <2>4. InStep(r) /\ r \in Records
    BY <1>1, <1>2, <2>3, StaysInStep DEF Classes, ListStages, Kept
  <2>5. Commands!Visibly(c, r)
    BY <1>2, <1>6, <2>2
  <2> QED
    BY <1>3, <1>6, <2>1, <2>3, <2>4, <2>5, PlainPut
<1> QED
  BY <1>4, <1>5, <1>6 DEF Commands!AddKey

LEMMA RemoveListSteps ==
  ASSUME CommandsInv, NEW c \in Client, Commands!RemoveList(c)
  PROVE  CommandsInv'
<1>1. cli[c].at = "removeList" /\ Commands!NoChange
  BY DEF Commands!RemoveList, Commands!At
<1>2. cli[c] \in Records /\ InStep(cli[c])
  BY OwnRecord
<1>3. Commands!Command(c).verb \notin {"edit", "reload"} \cup Commands!VaultVerbs
  BY <1>1, <1>2 DEF InStep, ListStages, Commands!Command, Commands!VaultVerbs
<1>4. CASE Commands!Fails(c)
  BY <1>1, <1>3, <1>4, PlainFails
<1>5. CASE Commands!Quietly(c, [Commands!Goto(c, "removeFind") EXCEPT !.todo = @ \cap Commands!Rows])
  <2>1. PICK g : g = Commands!Goto(c, "removeFind")
    OBVIOUS
  <2>2. Kept(g, cli[c]) /\ g.at = "removeFind" /\ g \in Records /\ g.todo \in SUBSET Key
    BY <1>2, <2>1, GotoIs, RecordIs DEF Labels, ListStages, Kept
  <2>3. PICK r : r = [g EXCEPT !.todo = g.todo \cap Commands!Rows]
    OBVIOUS
  <2>4. Kept(r, g) /\ r.at = "removeFind"
    BY <2>2, <2>3, TodoSet
  <2>5. Kept(r, cli[c]) /\ r \in Records
    BY <2>2, <2>4, KeptOn DEF Kept
  <2>6. InStep(r)
    BY <1>1, <1>2, <2>4, <2>5, StaysInStep DEF Classes, ListStages
  <2>7. Commands!Quietly(c, r)
    BY <1>5, <2>1, <2>2, <2>3
  <2> QED
    BY <1>1, <1>3, <2>5, <2>6, <2>7, PlainQuietly
<1> QED
  BY <1>4, <1>5 DEF Commands!RemoveList

LEMMA RemoveFindSteps ==
  ASSUME CommandsInv, NEW c \in Client, Commands!RemoveFind(c)
  PROVE  CommandsInv'
<1>1. cli[c].at = "removeFind" /\ Commands!NoChange
  BY DEF Commands!RemoveFind, Commands!At
<1>2. cli[c] \in Records /\ InStep(cli[c]) /\ cli[c].todo \in SUBSET Key
  BY OwnRecord, RecordIs
<1>3. Commands!Command(c).verb \notin {"edit", "reload"} \cup Commands!VaultVerbs
  BY <1>1, <1>2 DEF InStep, ListStages, Commands!Command, Commands!VaultVerbs
<1>4. CASE Commands!Fails(c)
  BY <1>1, <1>3, <1>4, PlainFails
<1>5. CASE Commands!Quietly(c, Commands!End(cli[c]))
  <2>1. PICK r : r = Commands!End(cli[c])
    OBVIOUS
  <2>2. Kept(r, cli[c]) /\ r.at = "ended"
    BY <1>2, <2>1, EndSet
  <2>3. InStep(r) /\ r \in Records
    BY <1>2, <2>2, StaysInStep DEF Kept
  <2> QED
    BY <1>1, <1>3, <1>5, <2>1, <2>2, <2>3, PlainQuietly
<1>6. ASSUME NEW k \in cli[c].todo, Commands!Quietly(c, [Commands!Goto(c, "removeKey") EXCEPT !.seen = {k}])
      PROVE  CommandsInv'
  <2>1. PICK g : g = Commands!Goto(c, "removeKey")
    OBVIOUS
  <2>2. Kept(g, cli[c]) /\ g.at = "removeKey" /\ g \in Records
    BY <1>2, <2>1, GotoIs DEF Labels, ListStages, Kept
  <2>3. PICK r : r = [g EXCEPT !.seen = {k}]
    OBVIOUS
  <2>4. {k} \in SUBSET Key
    BY <1>2
  <2>5. Kept(r, g) /\ r.at = "removeKey"
    BY <2>2, <2>3, <2>4, SeenSet
  <2>6. Kept(r, cli[c]) /\ r \in Records
    BY <2>2, <2>5, KeptOn DEF Kept
  <2>7. InStep(r)
    BY <1>1, <1>2, <2>5, <2>6, StaysInStep DEF Classes, ListStages
  <2> QED
    BY <1>1, <1>3, <1>6, <2>1, <2>3, <2>6, <2>7, PlainQuietly
<1>7. ASSUME NEW k \in cli[c].todo, Commands!Quietly(c, [cli[c] EXCEPT !.todo = @ \ {k}])
      PROVE  CommandsInv'
  <2>1. PICK r : r = [cli[c] EXCEPT !.todo = cli[c].todo \ {k}]
    OBVIOUS
  <2>2. Kept(r, cli[c]) /\ r.at = cli[c].at
    BY <1>2, <2>1, TodoSet
  <2>3. InStep(r) /\ r \in Records
    BY <1>1, <1>2, <2>2, StaysInStep DEF Classes, ListStages, Kept
  <2>4. Commands!Quietly(c, r)
    BY <1>2, <1>7, <2>1
  <2> QED
    BY <1>1, <1>3, <2>2, <2>3, <2>4, PlainQuietly
<1> QED
  BY <1>1, <1>4, <1>5, <1>6, <1>7 DEF Commands!RemoveFind

LEMMA RemoveKeySteps ==
  ASSUME CommandsInv, NEW c \in Client, Commands!RemoveKey(c)
  PROVE  CommandsInv'
<1>1. cli[c].at = "removeKey"
  BY DEF Commands!RemoveKey, Commands!At
<1>2. /\ cli[c] \in Records /\ InStep(cli[c])
      /\ cli[c].todo \in SUBSET Key /\ cli[c].seen \in SUBSET Key
  BY OwnRecord, RecordIs
<1>3. Commands!Command(c).verb \notin {"edit", "reload"} \cup Commands!VaultVerbs
  BY <1>1, <1>2 DEF InStep, ListStages, Commands!Command, Commands!VaultVerbs
<1>4. CASE Commands!Fails(c) /\ Commands!NoChange
  BY <1>3, <1>4, PlainFails
<1>5. ASSUME NEW k \in cli[c].seen, Commands!Take(c, k),
             Commands!Visibly(c, [Commands!Goto(c, "removeFind") EXCEPT !.todo = @ \ {k}])
      PROVE  CommandsInv'
  <2>1. PICK g : g = Commands!Goto(c, "removeFind")
    OBVIOUS
  <2>2. Kept(g, cli[c]) /\ g.at = "removeFind" /\ g \in Records /\ g.todo \in SUBSET Key
    BY <1>2, <2>1, GotoIs, RecordIs DEF Labels, ListStages, Kept
  <2>3. PICK r : r = [g EXCEPT !.todo = g.todo \ {k}]
    OBVIOUS
  <2>4. Kept(r, g) /\ r.at = "removeFind"
    BY <2>2, <2>3, TodoSet
  <2>5. Kept(r, cli[c]) /\ r \in Records
    BY <2>2, <2>4, KeptOn DEF Kept
  <2>6. InStep(r)
    BY <1>1, <1>2, <2>4, <2>5, StaysInStep DEF Classes, ListStages
  <2>7. Commands!Visibly(c, r)
    BY <1>5, <2>1, <2>2, <2>3
  <2> QED
    BY <1>2, <1>3, <1>5, <2>5, <2>6, <2>7, PlainTake
<1> QED
  BY <1>4, <1>5 DEF Commands!RemoveKey

(* sshush lock, unlock and vault unlock-recovery. *)
LEMMA LockProbeSteps ==
  ASSUME CommandsInv, NEW c \in Client, Commands!LockProbe(c)
  PROVE  CommandsInv'
<1>1. cli[c].at = "lockProbe" /\ Commands!NoChange
  BY DEF Commands!LockProbe, Commands!At
<1>2. cli[c] \in Records /\ InStep(cli[c])
  BY OwnRecord
<1>3. Commands!Command(c).verb \notin {"edit", "reload"} \cup Commands!VaultVerbs
  BY <1>1, <1>2 DEF InStep, LockStages, Commands!Command, Commands!VaultVerbs
<1>4. CASE Commands!Fails(c)
  BY <1>1, <1>3, <1>4, PlainFails
<1>5. CASE Commands!Quietly(c, Commands!End(Commands!Tell(cli[c], "already")))
  <2>1. PICK r : r = Commands!End(Commands!Tell(cli[c], "already"))
    OBVIOUS
  <2>2. "already" \in Words
    BY DEF Words
  <2>3. Kept(r, cli[c]) /\ r.at = "ended"
    BY <1>2, <2>1, <2>2, FailedIs
  <2>4. InStep(r) /\ r \in Records
    BY <1>2, <2>3, StaysInStep DEF Kept
  <2> QED
    BY <1>1, <1>3, <1>5, <2>1, <2>3, <2>4, PlainQuietly
<1>6. CASE Commands!Quietly(c, Commands!Goto(c, "lockDo"))
  <2>1. PICK r : r = Commands!Goto(c, "lockDo")
    OBVIOUS
  <2>2. Kept(r, cli[c]) /\ r.at = "lockDo"
    BY <1>2, <2>1, GotoIs DEF Labels, LockStages
  <2>3. InStep(r) /\ r \in Records
    BY <1>1, <1>2, <2>2, StaysInStep DEF Classes, LockStages, Kept
  <2> QED
    BY <1>1, <1>3, <1>6, <2>1, <2>2, <2>3, PlainQuietly
<1>7. \/ ~Commands!Reaches(c) \/ cli[c].cut
      \/ Commands!Reaches(c) /\ ~cli[c].cut
  OBVIOUS
<1>8. Commands!Fails(c) \/ Commands!Quietly(c, Commands!End(Commands!Tell(cli[c], "already"))) \/ Commands!Quietly(c, Commands!Goto(c, "lockDo"))
  BY <1>7 DEF Commands!LockProbe
<1> QED
  BY <1>4, <1>5, <1>6, <1>8

LEMMA LockDoSteps ==
  ASSUME CommandsInv, NEW c \in Client, Commands!LockDo(c)
  PROVE  CommandsInv'
<1>1. cli[c].at = "lockDo"
  BY DEF Commands!LockDo, Commands!At
<1>2. cli[c] \in Records /\ InStep(cli[c]) /\ AgentTypes
  BY OwnRecord
<1>3. Commands!Command(c).verb \notin {"edit", "reload"} \cup Commands!VaultVerbs
  BY <1>1, <1>2 DEF InStep, LockStages, Commands!Command, Commands!VaultVerbs
<1>4. CASE Commands!Fails(c) /\ Commands!NoChange
  BY <1>3, <1>4, PlainFails
<1>5. ASSUME locked' = Commands!WantsLocked(c), UNCHANGED <<served, store, shown, hidden, Commands!files, took>>,
             Commands!Visibly(c, Commands!End(Commands!Tell(cli[c], "set")))
      PROVE  CommandsInv'
  <2>1. PICK r : r = Commands!End(Commands!Tell(cli[c], "set"))
    OBVIOUS
  <2>2. "set" \in Words
    BY DEF Words
  <2>3. Kept(r, cli[c]) /\ r.at = "ended"
    BY <1>2, <2>1, <2>2, FailedIs
  <2>4. InStep(r) /\ r \in Records
    BY <1>2, <2>3, StaysInStep DEF Kept
  <2>5. Commands!Visibly(c, r)
    BY <1>5, <2>1
  <2>6. ASSUME cli'[c] = r PROVE CommandInv(c)'
    <3>1. served' = served /\ took' = took
      BY <1>5
    <3> QED
      BY <1>3, <2>3, <2>4, <2>6, <3>1, PlainStep
  <2>7. locked' \in BOOLEAN
    BY <1>5, Zenon DEF Commands!WantsLocked
  <2>8. shown' \in SUBSET Key /\ hidden' \in SUBSET Key
    BY <1>2, <1>5 DEF AgentTypes
  <2> QED
    BY <1>5, <2>4, <2>5, <2>6, <2>7, <2>8, ListingKeeps
<1> QED
  BY <1>4, <1>5 DEF Commands!LockDo

(* The vault verbs. *)
LEMMA VerbStep ==
  ASSUME CommandsInv, NEW c \in Client, NEW r \in Records, Kept(r, cli[c]), InStep(r),
         cli'[c] = r, served' = served,
         \A v \in Commands!Holder, k \in Key : took'[v][k] = c => took[v][k] = c \/ v = served,
         Commands!Command(c).verb \in Commands!VaultVerbs, VerbSoFar(c)'
  PROVE  CommandInv(c)'
<1>1. /\ InStep(cli[c])' /\ TakesFromServed(c)'
      /\ Commands!Command(c)' = Commands!Command(c)
  BY OwnStep
<1> QED
  BY <1>1 DEF CommandInv, EditSoFar, FilesAhead, ReloadSpares, ReloadSoFar, Commands!VaultVerbs

LEMMA VerbQuietly ==
  ASSUME CommandsInv, NEW c \in Client, NEW r \in Records, Kept(r, cli[c]), InStep(r),
         Commands!Command(c).verb \in Commands!VaultVerbs, Commands!Quietly(c, r), Commands!NoChange,
         r.at = "vaultUnlock" => Commands!Command(c).path = r.cfg.vault,
         r.prompted # NoVault => r.prompted = Commands!Command(c).path \/ r.prompted # r.cfg.vault,
         r.at \in {"vaultOpen", "vaultProbe", "vaultUnlock"} => r.done = {},
         r.done = cli[c].done
  PROVE  CommandsInv'
<1>0. VerbSoFar(c)
  BY OwnRecord DEF CommandInv
<1>1. ASSUME cli'[c] = r PROVE CommandInv(c)'
  <2>1. UNCHANGED <<served, locked, store, shown, hidden, took>>
    BY DEF Commands!NoChange, Commands!agent
  <2>2. Commands!Command(c)' = Commands!Command(c) /\ r.alone = cli[c].alone
    BY <1>1, SameRequest DEF Kept
  <2>3. Commands!Rows' = Commands!Rows
    BY <2>1 DEF Commands!Rows, Commands!HeldIn
  <2>4. ASSUME cli[c].alone PROVE \A k \in cli[c].done : IsSo(c, k)'
    BY <1>0, <2>1, <2>2, <2>3, <2>4 DEF VerbSoFar, IsSo
  <2>5. VerbSoFar(c)'
    BY <1>1, <2>2, <2>4 DEF VerbSoFar, Commands!At
  <2> QED
    BY <1>1, <2>1, <2>5, VerbStep
<1> QED
  BY <1>1, QuietlyKeeps

LEMMA VerbFails ==
  ASSUME CommandsInv, NEW c \in Client, Commands!Command(c).verb \in Commands!VaultVerbs, Commands!Fails(c), Commands!NoChange
  PROVE  CommandsInv'
<1>1. cli[c] \in Records /\ InStep(cli[c]) /\ VerbSoFar(c)
  BY OwnRecord DEF CommandInv
<1>2. PICK r : r = Commands!End(Commands!Tell(cli[c], "error"))
  OBVIOUS
<1>3. Commands!Quietly(c, r)
  BY <1>2 DEF Commands!Fails
<1>4. "error" \in Words
  BY DEF Words
<1>5. /\ Kept(r, cli[c]) /\ r.at = "ended" /\ r.done = cli[c].done
      /\ r.prompted = cli[c].prompted
  BY <1>1, <1>2, <1>4, FailedIs
<1>6. r \in Records /\ InStep(r) /\ r.cfg = cli[c].cfg
  BY <1>1, <1>5, StaysInStep DEF Kept
<1> QED
  BY <1>1, <1>3, <1>5, <1>6, VerbQuietly DEF VerbSoFar

LEMMA VaultOpenSteps ==
  ASSUME CommandsInv, NEW c \in Client, Commands!VaultOpen(c)
  PROVE  CommandsInv'
<1>1. cli[c].at = "vaultOpen" /\ Commands!NoChange
  BY DEF Commands!VaultOpen, Commands!At
<1>2. cli[c] \in Records /\ InStep(cli[c]) /\ Commands!Command(c) \in Commands!Requests \cup {Commands!NoRequest}
      /\ VerbSoFar(c)
  BY OwnRecord DEF CommandInv
<1>3. Commands!Command(c).verb \in Commands!VaultVerbs
  BY <1>1, <1>2 DEF InStep, VaultStages, Commands!Command
<1>4. CASE Commands!Fails(c)
  BY <1>1, <1>3, <1>4, VerbFails
<1>5. CASE Commands!Quietly(c, [Commands!Goto(c, "vaultProbe") EXCEPT !.seen = Commands!HeldIn(Commands!Command(c).path)])
  <2>1. PICK g : g = Commands!Goto(c, "vaultProbe")
    OBVIOUS
  <2>2. /\ Kept(g, cli[c]) /\ g.at = "vaultProbe" /\ g \in Records
        /\ g.done = cli[c].done /\ g.prompted = cli[c].prompted
    BY <1>2, <2>1, GotoIs DEF Labels, VaultStages, Kept
  <2>3. PICK r : r = [g EXCEPT !.seen = Commands!HeldIn(Commands!Command(c).path)]
    OBVIOUS
  <2>4. Commands!HeldIn(Commands!Command(c).path) \in SUBSET Key
    BY <1>2, RequestIs, RowsAreKeys
  <2>5. Kept(r, g) /\ r.at = "vaultProbe" /\ r.done = g.done /\ r.prompted = g.prompted
    BY <2>2, <2>3, <2>4, SeenSet
  <2>6. Kept(r, cli[c]) /\ r \in Records /\ r.cfg = cli[c].cfg
    BY <2>2, <2>5, KeptOn DEF Kept
  <2>7. InStep(r)
    BY <1>1, <1>2, <2>5, <2>6, StaysInStep DEF Classes, VaultStages
  <2>8. cli[c].done = {}
    BY <1>1, <1>2, <1>3 DEF VerbSoFar
  <2>9. r.prompted # NoVault => r.prompted = Commands!Command(c).path \/ r.prompted # r.cfg.vault
    BY <1>2, <1>3, <2>2, <2>5, <2>6 DEF VerbSoFar
  <2> QED
    BY <1>1, <1>3, <1>5, <2>1, <2>2, <2>3, <2>5, <2>6, <2>7, <2>8, <2>9, VerbQuietly
<1> QED
  BY <1>4, <1>5 DEF Commands!VaultOpen

LEMMA VaultProbeSteps ==
  ASSUME CommandsInv, NEW c \in Client, Commands!VaultProbe(c)
  PROVE  CommandsInv'
<1>1. cli[c].at = "vaultProbe" /\ Commands!NoChange
  BY DEF Commands!VaultProbe, Commands!At
<1>2. cli[c] \in Records /\ InStep(cli[c]) /\ VerbSoFar(c)
  BY OwnRecord DEF CommandInv
<1>3. Commands!Command(c).verb \in Commands!VaultVerbs
  BY <1>1, <1>2 DEF InStep, VaultStages, Commands!Command
<1>4. CASE Commands!Fails(c)
  BY <1>1, <1>3, <1>4, VerbFails
<1>5. ASSUME NEW l \in {"vaultUnlock", "vaultOp"}, Commands!Quietly(c, Commands!Goto(c, l)),
             l = "vaultUnlock" => Commands!MayPrompt(c)
      PROVE  CommandsInv'
  <2>1. PICK r : r = Commands!Goto(c, l)
    OBVIOUS
  <2>2. /\ Kept(r, cli[c]) /\ r.at = l
        /\ r.done = cli[c].done /\ r.prompted = cli[c].prompted
    BY <1>2, <2>1, GotoIs DEF Labels, VaultStages
  <2>3. InStep(r) /\ r \in Records /\ r.cfg = cli[c].cfg
    BY <1>1, <1>2, <2>2, StaysInStep DEF Classes, VaultStages, Kept
  <2>4. l = "vaultUnlock" => Commands!Command(c).path = r.cfg.vault
    BY <1>5, <2>3 DEF Commands!MayPrompt
  <2>5. cli[c].done = {}
    BY <1>1, <1>2, <1>3 DEF VerbSoFar
  <2>6. r.prompted # NoVault => r.prompted = Commands!Command(c).path \/ r.prompted # r.cfg.vault
    BY <1>2, <1>3, <2>2, <2>3 DEF VerbSoFar
  <2> QED
    BY <1>1, <1>3, <1>5, <2>1, <2>2, <2>3, <2>4, <2>5, <2>6, VerbQuietly
<1>6. Commands!Fails(c) \/ Commands!Quietly(c, Commands!Goto(c, IF Commands!MayPrompt(c) THEN "vaultUnlock" ELSE "vaultOp"))
  BY DEF Commands!VaultProbe
<1> QED
  BY <1>4, <1>5, <1>6

LEMMA PromptedSet ==
  ASSUME NEW r \in Records, NEW v \in Commands!Holder
  PROVE  LET s == [r EXCEPT !.prompted = v] IN
           /\ Kept(s, r) /\ s.at = r.at /\ s.mode = r.mode /\ s.seen = r.seen /\ s.todo = r.todo
           /\ s.drop = r.drop /\ s.read = r.read /\ s.told = r.told /\ s.done = r.done
           /\ s.prompted = v
BY DEF Records, Kept

LEMMA DoneSet ==
  ASSUME NEW r \in Records, NEW done \in SUBSET Key
  PROVE  LET s == [r EXCEPT !.done = done] IN
           /\ Kept(s, r) /\ s.at = r.at /\ s.mode = r.mode /\ s.seen = r.seen /\ s.todo = r.todo
           /\ s.drop = r.drop /\ s.read = r.read /\ s.told = r.told /\ s.done = done
           /\ s.prompted = r.prompted
BY DEF Records, Kept

LEMMA VaultUnlockSteps ==
  ASSUME CommandsInv, NEW c \in Client, Commands!VaultUnlock(c)
  PROVE  CommandsInv'
<1>1. cli[c].at = "vaultUnlock"
  BY DEF Commands!VaultUnlock, Commands!At
<1>2. cli[c] \in Records /\ InStep(cli[c]) /\ VerbSoFar(c) /\ AgentTypes
  BY OwnRecord DEF CommandInv
<1>3. Commands!Command(c).verb \in Commands!VaultVerbs
  BY <1>1, <1>2 DEF InStep, VaultStages, Commands!Command
<1>4. Commands!Command(c).path = cli[c].cfg.vault /\ cli[c].done = {}
  BY <1>1, <1>2, <1>3 DEF VerbSoFar, Commands!At
<1>5. PICK r : r = [Commands!Goto(c, "vaultOp") EXCEPT !.prompted = served]
  OBVIOUS
<1>6. PICK g : g = Commands!Goto(c, "vaultOp")
  OBVIOUS
<1>7. Kept(g, cli[c]) /\ g.at = "vaultOp" /\ g \in Records /\ g.done = cli[c].done
  BY <1>2, <1>6, GotoIs DEF Labels, VaultStages, Kept
<1>8. Kept(r, g) /\ r.at = "vaultOp" /\ r.done = g.done /\ r.prompted = served
  BY <1>2, <1>5, <1>6, <1>7, PromptedSet DEF AgentTypes
<1>9. Kept(r, cli[c]) /\ r \in Records /\ r.cfg = cli[c].cfg
  BY <1>7, <1>8, KeptOn DEF Kept
<1>10. InStep(r)
  BY <1>1, <1>2, <1>8, <1>9, StaysInStep DEF Classes, VaultStages
<1>11. r.prompted = Commands!Command(c).path \/ r.prompted # r.cfg.vault
  BY <1>4, <1>9
<1>12. CASE Commands!Quietly(c, r) /\ Commands!NoChange
  BY <1>3, <1>7, <1>8, <1>9, <1>10, <1>11, <1>12, VerbQuietly
<1>13. CASE /\ locked' = FALSE
            /\ UNCHANGED <<served, store, shown, hidden, Commands!files, took>>
            /\ Commands!Visibly(c, r)
  <2>1. ASSUME cli'[c] = r PROVE CommandInv(c)'
    <3>1. Commands!Command(c)' = Commands!Command(c)
      BY <1>9, <2>1, SameRequest DEF Kept
    <3>2. VerbSoFar(c)'
      BY <1>4, <1>7, <1>8, <1>11, <2>1, <3>1 DEF VerbSoFar, Commands!At
    <3>3. served' = served /\ took' = took
      BY <1>13
    <3> QED
      BY <1>3, <1>9, <1>10, <2>1, <3>2, <3>3, VerbStep
  <2>2. locked' \in BOOLEAN /\ shown' \in SUBSET Key /\ hidden' \in SUBSET Key
    BY <1>2, <1>13 DEF AgentTypes
  <2> QED
    BY <1>9, <1>13, <2>1, <2>2, ListingKeeps
<1> QED
  BY <1>5, <1>12, <1>13 DEF Commands!VaultUnlock

(* What a verb does to the agent about k, as its report tells it. *)
DoneAsSaid(c, k) ==
  /\ AgentTypes' /\ file' = file /\ pub' = pub /\ served' = served
  /\ TakesInOwnName(c)
  /\ \A v \in Commands!Holder, j \in Key : took'[v][j] = c => took[v][j] = c \/ v = served
  /\ Commands!Command(c)' = Commands!Command(c) => \A j \in Key : j = k \/ IsSo(c, j) => IsSo(c, j)'

LEMMA AddIsDone ==
  ASSUME CommandsInv, NEW c \in Client, NEW k \in Key, Commands!Command(c).verb = "vaultAdd",
         Commands!Succeeds(c, k), Commands!VaultEffect(c, k)
  PROVE  DoneAsSaid(c, k)
<1>1. AgentTypes /\ FileTypes /\ Commands!Command(c).on \in BOOLEAN
  BY OwnRecord, RequestIs
<1>2. ~locked
  BY StatusTells DEF Commands!Succeeds
<1>3. Commands!Put(k, Commands!Command(c).on)
  BY DEF Commands!VaultEffect
<1>4. /\ AgentTypes'
      /\ file' = file /\ pub' = pub /\ served' = served /\ took' = took
      /\ hidden' = hidden
      /\ store'[served][k] # None
      /\ \A v \in Commands!Holder, j \in Key : v # served \/ j # k => store'[v][j] = store[v][j]
      /\ \A j \in Key : j # k => (j \in Commands!Rows' <=> j \in Commands!Rows)
      /\ k \in Commands!Rows' \/ k \in hidden'
  BY <1>1, <1>2, <1>3, PutEffect
<1>5. served \in Commands!Holder
  BY <1>1 DEF AgentTypes
<1>6. TakesInOwnName(c)
  BY <1>4 DEF TakesInOwnName
<1>7. ASSUME Commands!Command(c)' = Commands!Command(c), NEW j \in Key, j = k \/ IsSo(c, j)
      PROVE  IsSo(c, j)'
  <2>1. CASE j = k
    BY <1>4, <1>7, <2>1 DEF IsSo
  <2>2. CASE j # k /\ IsSo(c, j)
    BY <1>4, <1>5, <1>7, <2>2 DEF IsSo
  <2> QED
    BY <1>7, <2>1, <2>2
<1> QED
  BY <1>4, <1>6, <1>7 DEF DoneAsSaid

LEMMA RemovalIsDone ==
  ASSUME CommandsInv, NEW c \in Client, NEW k \in Key, Commands!Command(c).verb = "vaultRemove",
         Commands!VaultEffect(c, k)
  PROVE  DoneAsSaid(c, k)
<1>1. AgentTypes
  BY OwnRecord
<1>2. Commands!Take(c, k)
  BY DEF Commands!VaultEffect
<1>3. /\ AgentTypes'
      /\ file' = file /\ pub' = pub /\ served' = served
      /\ store'[served][k] = None
      /\ \A v \in Commands!Holder, j \in Key : v # served \/ j # k => store'[v][j] = store[v][j]
      /\ took'[served][k] = c
      /\ \A v \in Commands!Holder, j \in Key : v # served \/ j # k => took'[v][j] = took[v][j]
  BY <1>1, <1>2, TakeEffect
<1>4. served \in Commands!Holder
  BY <1>1 DEF AgentTypes
<1>5. TakesInOwnName(c)
  BY <1>3 DEF TakesInOwnName
<1>6. ASSUME Commands!Command(c)' = Commands!Command(c), NEW j \in Key, j = k \/ IsSo(c, j)
      PROVE  IsSo(c, j)'
  BY <1>3, <1>4, <1>6 DEF IsSo
<1>7. \A v \in Commands!Holder, j \in Key : took'[v][j] = c => took[v][j] = c \/ v = served
  BY <1>3
<1> QED
  BY <1>3, <1>5, <1>6, <1>7 DEF DoneAsSaid

LEMMA LoadIsDone ==
  ASSUME CommandsInv, NEW c \in Client, NEW k \in Key, Commands!Command(c).verb = "vaultLoad",
         Commands!Succeeds(c, k), Commands!VaultEffect(c, k)
  PROVE  DoneAsSaid(c, k)
<1>1. AgentTypes /\ FileTypes
  BY OwnRecord
<1>2. ~locked /\ store[served][k] # None
  BY StatusTells DEF Commands!Succeeds
<1>3. /\ hidden' = hidden \ {k}
      /\ shown' = IF store[served][k].autoload THEN shown ELSE shown \cup {k}
      /\ served' = served /\ locked' = locked /\ store' = store /\ took' = took
      /\ file' = file /\ pub' = pub
  BY DEF Commands!VaultEffect, Commands!files
<1>4. AgentTypes'
  BY <1>1, <1>3 DEF AgentTypes, StoreTypes, TookTypes
<1>5. TakesInOwnName(c)
  BY <1>3 DEF TakesInOwnName
<1>6. k \in Commands!Rows'
  BY <1>2, <1>3 DEF Commands!Rows, Commands!HeldIn
<1>7. \A j \in Key : j # k => (j \in Commands!Rows' <=> j \in Commands!Rows)
  BY <1>3 DEF Commands!Rows, Commands!HeldIn
<1>8. ASSUME Commands!Command(c)' = Commands!Command(c), NEW j \in Key, j = k \/ IsSo(c, j)
      PROVE  IsSo(c, j)'
  <2>1. CASE j = k
    BY <1>2, <1>3, <1>6, <1>8, <2>1 DEF IsSo
  <2>2. CASE j # k /\ IsSo(c, j)
    BY <1>3, <1>7, <1>8, <2>2 DEF IsSo
  <2> QED
    BY <1>8, <2>1, <2>2
<1> QED
  BY <1>3, <1>4, <1>5, <1>8 DEF DoneAsSaid

LEMMA AutoloadIsDone ==
  ASSUME CommandsInv, NEW c \in Client, NEW k \in Key, Commands!Command(c).verb = "vaultAutoload",
         Commands!Succeeds(c, k), Commands!VaultEffect(c, k)
  PROVE  DoneAsSaid(c, k)
<1>1. AgentTypes /\ FileTypes /\ Commands!Command(c).on \in BOOLEAN
  BY OwnRecord, RequestIs
<1>2. served \in Commands!Holder /\ store[served][k] \in Commands!Identities
  BY <1>1, StatusTells DEF AgentTypes, StoreTypes, Commands!Succeeds
<1>3. store[served][k] # None
  BY <1>2, CommandsAssumption DEF Commands!NamesDiffer
<1>4. CASE store[served][k].autoload = Commands!Command(c).on /\ Commands!NoChange
  <2>1. UNCHANGED <<served, locked, store, shown, hidden, file, pub, took>>
    BY <1>4 DEF Commands!NoChange, Commands!agent, Commands!files
  <2>2. AgentTypes'
    BY <1>1, <2>1 DEF AgentTypes, StoreTypes, TookTypes
  <2>3. TakesInOwnName(c)
    BY <2>1 DEF TakesInOwnName
  <2>4. ASSUME Commands!Command(c)' = Commands!Command(c), NEW j \in Key, j = k \/ IsSo(c, j)
        PROVE  IsSo(c, j)'
    BY <1>3, <1>4, <2>1, <2>4 DEF IsSo
  <2> QED
    BY <2>1, <2>2, <2>3, <2>4 DEF DoneAsSaid
<1>5. CASE /\ store' = [store EXCEPT ![served][k].autoload = Commands!Command(c).on]
           /\ hidden' = hidden \ {k}
           /\ shown' = IF Commands!Command(c).on THEN shown \ {k} ELSE shown
           /\ UNCHANGED <<served, locked, Commands!files, took>>
  <2>1. PICK i \in Commands!Identities : i = [store[served][k] EXCEPT !.autoload = Commands!Command(c).on]
    BY <1>1, <1>2 DEF Commands!Identities
  <2>2. i.autoload = Commands!Command(c).on /\ i # None
    BY <1>2, <2>1, CommandsAssumption DEF Commands!NamesDiffer, Commands!Identities
  <2>3. store' = [store EXCEPT ![served][k] = i]
    BY <1>5, <2>1
  <2>4. /\ StoreTypes' /\ store'[served][k] = i
        /\ \A v \in Commands!Holder, j \in Key : v # served \/ j # k => store'[v][j] = store[v][j]
    BY <1>1, <2>3, Stored
  <2>5. file' = file /\ pub' = pub /\ served' = served /\ took' = took /\ locked' = locked
    BY <1>5 DEF Commands!files
  <2>6. AgentTypes'
    BY <1>1, <1>5, <2>4, <2>5 DEF AgentTypes, TookTypes
  <2>7. TakesInOwnName(c)
    BY <2>2, <2>4, <2>5 DEF TakesInOwnName
  <2>8. ASSUME Commands!Command(c)' = Commands!Command(c), NEW j \in Key, j = k \/ IsSo(c, j)
        PROVE  IsSo(c, j)'
    BY <1>2, <2>2, <2>4, <2>5, <2>8 DEF IsSo
  <2> QED
    BY <2>5, <2>6, <2>7, <2>8 DEF DoneAsSaid
<1> QED
  BY <1>4, <1>5 DEF Commands!VaultEffect

LEMMA VaultOpSteps ==
  ASSUME CommandsInv, NEW c \in Client, Commands!VaultOp(c)
  PROVE  CommandsInv'
<1>1. cli[c].at = "vaultOp"
  BY DEF Commands!VaultOp, Commands!At
<1>2. /\ cli[c] \in Records /\ InStep(cli[c]) /\ VerbSoFar(c) /\ AgentTypes /\ FileTypes
      /\ cli[c].todo \in SUBSET Key /\ cli[c].done \in SUBSET Key
  BY OwnRecord, RecordIs DEF CommandInv
<1>3. Commands!Command(c).verb \in Commands!VaultVerbs
  BY <1>1, <1>2 DEF InStep, VaultStages, Commands!Command
<1>4. CASE Commands!Fails(c) /\ Commands!NoChange
  BY <1>3, <1>4, VerbFails
<1>5. CASE Commands!Quietly(c, Commands!End(cli[c])) /\ Commands!NoChange
  <2>1. PICK r : r = Commands!End(cli[c])
    OBVIOUS
  <2>2. Kept(r, cli[c]) /\ r.at = "ended" /\ r.done = cli[c].done /\ r.prompted = cli[c].prompted
    BY <1>2, <2>1, EndSet
  <2>3. InStep(r) /\ r \in Records /\ r.cfg = cli[c].cfg
    BY <1>2, <2>2, StaysInStep DEF Kept
  <2>4. r.prompted # NoVault => r.prompted = Commands!Command(c).path \/ r.prompted # r.cfg.vault
    BY <1>2, <1>3, <2>2, <2>3 DEF VerbSoFar
  <2> QED
    BY <1>3, <1>5, <2>1, <2>2, <2>3, <2>4, VerbQuietly
<1>6. ASSUME NEW k \in cli[c].todo, Commands!Succeeds(c, k), Commands!VaultEffect(c, k),
             Commands!Visibly(c, [cli[c] EXCEPT !.todo = @ \ {k}, !.done = @ \cup {k}])
      PROVE  CommandsInv'
  <2>1. PICK t : t = [cli[c] EXCEPT !.todo = cli[c].todo \ {k}]
    OBVIOUS
  <2>2. /\ Kept(t, cli[c]) /\ t.at = cli[c].at /\ t.done = cli[c].done
        /\ t.prompted = cli[c].prompted /\ t \in Records
    BY <1>2, <2>1, TodoSet DEF Kept
  <2>3. PICK r : r = [t EXCEPT !.done = cli[c].done \cup {k}]
    OBVIOUS
  <2>4. /\ Kept(r, t) /\ r.at = t.at /\ r.done = cli[c].done \cup {k}
        /\ r.prompted = t.prompted
    BY <1>2, <2>2, <2>3, DoneSet
  <2>5. Kept(r, cli[c]) /\ r \in Records /\ r.cfg = cli[c].cfg /\ r.alone = cli[c].alone
    BY <2>2, <2>4, KeptOn DEF Kept
  <2>6. InStep(r)
    BY <1>1, <1>2, <2>2, <2>4, <2>5, StaysInStep DEF Classes, VaultStages
  <2>7. Commands!Visibly(c, r)
    BY <1>2, <1>6, <2>1, <2>2, <2>3
  <2>8. DoneAsSaid(c, k)
    BY <1>2, <1>3, <1>6, AddIsDone, RemovalIsDone, LoadIsDone, AutoloadIsDone
       DEF Commands!VaultVerbs
  <2>9. ASSUME cli'[c] = r PROVE CommandInv(c)'
    <3>1. Commands!Command(c)' = Commands!Command(c)
      BY <2>5, <2>9, SameRequest DEF Kept
    <3>2. ASSUME cli[c].alone, NEW j \in cli[c].done \cup {k} PROVE IsSo(c, j)'
      BY <1>2, <1>3, <2>8, <3>1, <3>2 DEF VerbSoFar, DoneAsSaid
    <3>3. VerbSoFar(c)'
      BY <1>1, <1>2, <1>3, <2>2, <2>4, <2>5, <2>9, <3>1, <3>2 DEF VerbSoFar, Commands!At
    <3> QED
      BY <1>3, <2>5, <2>6, <2>8, <2>9, <3>3, VerbStep DEF DoneAsSaid
  <2>10. file' \in [Key -> {"old", "new"}] /\ pub' \in [Key -> {"old", "new"}]
    BY <1>2, <2>8 DEF FileTypes, DoneAsSaid
  <2>11. FilesGrow
    BY <2>8 DEF FilesGrow, DoneAsSaid
  <2> QED
    BY <2>5, <2>7, <2>8, <2>9, <2>10, <2>11, VisiblyKeeps DEF DoneAsSaid
<1>7. ASSUME NEW k \in cli[c].todo, Commands!Succeeds(c, k)
      PROVE  ~(Commands!Status(c, k) = "notFound" /\ Commands!Command(c).verb # "vaultAdd")
  BY <1>7 DEF Commands!Succeeds
<1> QED
  BY <1>4, <1>5, <1>6, <1>7 DEF Commands!VaultOp

(* sshush reload. *)
LEMMA ReloadStep ==
  ASSUME CommandsInv, NEW c \in Client, NEW r \in Records, Kept(r, cli[c]), InStep(r),
         cli'[c] = r, served' = served,
         \A v \in Commands!Holder, k \in Key : took'[v][k] = c => took[v][k] = c \/ v = served,
         Commands!Command(c).verb = "reload", ReloadSpares(c)', ReloadSoFar(c)'
  PROVE  CommandInv(c)'
<1>1. /\ InStep(cli[c])' /\ TakesFromServed(c)'
      /\ Commands!Command(c)' = Commands!Command(c)
  BY OwnStep
<1> QED
  BY <1>1 DEF CommandInv, EditSoFar, FilesAhead, VerbSoFar, Commands!VaultVerbs

(* ReloadSpares and ReloadSoFar of a command whose record becomes r. *)
SparesAs(c, r) ==
  /\ r.at \in {"reloadList", "reloadWant"} => \A v \in Commands!Holder, k \in Key : took[v][k] # c
  /\ r.at = "reloadWant" /\ r.alone => r.seen = Commands!Rows
  /\ r.at = "reloadAdd" => r.todo \subseteq r.cfg.keyPaths
  /\ r.at \in {"reloadAdd", "reloadRemove"} /\ r.alone =>
       \A k \in r.drop :
         /\ k \notin r.cfg.keyPaths
         /\ r.read => r.cfg.vault # NoVault /\ store[r.cfg.vault][k] = None
  /\ \A v \in Vault, k \in Key :
       took[v][k] = c /\ r.alone => r.cfg.vault # v \/ ~r.read

AccountedAs(r, k) ==
  \/ k \in r.cfg.keyPaths
  \/ r.cfg.vault # NoVault /\ store[r.cfg.vault][k] # None
  \/ ~r.read

SoFarAs(r) ==
  r.alone /\ r.told = {} =>
    /\ r.at = "reloadAdd" /\ ~locked => r.cfg.keyPaths \subseteq Commands!Rows \cup r.todo
    /\ r.at \in {"reloadRemove", "ended"} /\ ~locked => r.cfg.keyPaths \subseteq Commands!Rows
    /\ r.at \in {"reloadAdd", "reloadRemove"} => \A k \in Commands!Rows : k \in r.drop \/ AccountedAs(r, k)
    /\ r.at = "ended" => \A k \in Commands!Rows : AccountedAs(r, k)

LEMMA ReloadAs ==
  ASSUME NEW c \in Client, Commands!Command(c).verb = "reload"
  PROVE  /\ ReloadSpares(c) <=> SparesAs(c, cli[c])
         /\ ReloadSoFar(c) <=> SoFarAs(cli[c])
<1>1. ReloadSpares(c) <=> SparesAs(c, cli[c])
  BY Zenon DEF ReloadSpares, SparesAs, Commands!At
<1>2. \A k : Accounted(c, k) <=> AccountedAs(cli[c], k)
  BY Zenon DEF Accounted, AccountedAs
<1>3. ReloadSoFar(c) <=> SoFarAs(cli[c])
  BY <1>2 DEF ReloadSoFar, SoFarAs, Commands!At
<1> QED
  BY <1>1, <1>3

LEMMA ReloadQuietly ==
  ASSUME CommandsInv, NEW c \in Client, NEW r \in Records, Kept(r, cli[c]), InStep(r),
         Commands!Command(c).verb = "reload", Commands!Quietly(c, r), Commands!NoChange, SparesAs(c, r), SoFarAs(r)
  PROVE  CommandsInv'
<1>1. ASSUME cli'[c] = r PROVE CommandInv(c)'
  <2>1. UNCHANGED <<served, locked, store, shown, hidden, took>>
    BY DEF Commands!NoChange, Commands!agent
  <2>2. Commands!Command(c)' = Commands!Command(c)
    BY <1>1, SameRequest DEF Kept
  <2>3. Commands!Rows' = Commands!Rows
    BY <2>1 DEF Commands!Rows, Commands!HeldIn
  <2>4. ReloadSpares(c)'
    BY <1>1, <2>1, <2>2, <2>3 DEF ReloadSpares, SparesAs, Commands!At
  <2>5. \A k : Accounted(c, k)' <=> AccountedAs(r, k)
    BY <1>1, <2>1 DEF Accounted, AccountedAs
  <2>6. ReloadSoFar(c)'
    BY <1>1, <2>1, <2>2, <2>3, <2>5 DEF ReloadSoFar, SoFarAs, Commands!At
  <2> QED
    BY <1>1, <2>1, <2>4, <2>6, ReloadStep
<1> QED
  BY <1>1, QuietlyKeeps

LEMMA ReloadListSteps ==
  ASSUME CommandsInv, NEW c \in Client, Commands!ReloadList(c)
  PROVE  CommandsInv'
<1>1. cli[c].at = "reloadList" /\ Commands!NoChange
  BY DEF Commands!ReloadList, Commands!At
<1>2. cli[c] \in Records /\ InStep(cli[c]) /\ ReloadSpares(c)
  BY OwnRecord DEF CommandInv
<1>3. Commands!Command(c).verb = "reload"
  BY <1>1, <1>2 DEF InStep, ReloadStages, Commands!Command
<1>4. SparesAs(c, cli[c])
  BY <1>2, <1>3, ReloadAs
<1>5. CASE cli[c].cut /\ Commands!Quietly(c, Commands!End(cli[c]))
  <2>1. PICK r : r = Commands!End(cli[c])
    OBVIOUS
  <2>2. Kept(r, cli[c]) /\ r.at = "ended"
    BY <1>2, <2>1, EndSet
  <2>3. InStep(r) /\ r \in Records
    BY <1>2, <2>2, StaysInStep DEF Kept
  <2>4. ~r.alone
    BY <1>2, <1>5, <2>2 DEF Kept, InStep
  <2>5. SparesAs(c, r) /\ SoFarAs(r)
    BY <2>2, <2>4 DEF SparesAs, SoFarAs
  <2> QED
    BY <1>1, <1>3, <1>5, <2>1, <2>2, <2>3, <2>5, ReloadQuietly
<1>6. CASE Commands!Quietly(c, [Commands!Goto(c, "reloadWant") EXCEPT !.seen = Commands!Rows])
  <2>1. PICK g : g = Commands!Goto(c, "reloadWant")
    OBVIOUS
  <2>2. /\ Kept(g, cli[c]) /\ g.at = "reloadWant" /\ g \in Records
        /\ g.read = cli[c].read
    BY <1>2, <2>1, GotoIs DEF Labels, ReloadStages, Kept
  <2>3. PICK r : r = [g EXCEPT !.seen = Commands!Rows]
    OBVIOUS
  <2>4. Kept(r, g) /\ r.at = "reloadWant" /\ r.seen = Commands!Rows /\ r.read = g.read
    BY <2>2, <2>3, SeenSet, RowsAreKeys
  <2>5. Kept(r, cli[c]) /\ r \in Records
    BY <2>2, <2>4, KeptOn DEF Kept
  <2>6. InStep(r)
    BY <1>1, <1>2, <2>4, <2>5, StaysInStep DEF Classes, ReloadStages
  <2>7. SparesAs(c, r) /\ SoFarAs(r)
    BY <1>1, <1>4, <2>2, <2>4, <2>5 DEF SparesAs, SoFarAs, Kept
  <2> QED
    BY <1>1, <1>3, <1>6, <2>1, <2>3, <2>5, <2>6, <2>7, ReloadQuietly
<1> QED
  BY <1>5, <1>6 DEF Commands!ReloadList

LEMMA DropSet ==
  ASSUME NEW r \in Records, NEW drop \in SUBSET Key
  PROVE  LET s == [r EXCEPT !.drop = drop] IN
           /\ Kept(s, r) /\ s.at = r.at /\ s.mode = r.mode /\ s.seen = r.seen /\ s.todo = r.todo
           /\ s.drop = drop /\ s.read = r.read /\ s.told = r.told /\ s.done = r.done
           /\ s.prompted = r.prompted
BY DEF Records, Kept

LEMMA ReadSet ==
  ASSUME NEW r \in Records, NEW read \in BOOLEAN
  PROVE  LET s == [r EXCEPT !.read = read] IN
           /\ Kept(s, r) /\ s.at = r.at /\ s.mode = r.mode /\ s.seen = r.seen /\ s.todo = r.todo
           /\ s.drop = r.drop /\ s.read = read /\ s.told = r.told /\ s.done = r.done
           /\ s.prompted = r.prompted
BY DEF Records, Kept

LEMMA ReloadWantSteps ==
  ASSUME CommandsInv, NEW c \in Client, Commands!ReloadWant(c)
  PROVE  CommandsInv'
<1>1. cli[c].at = "reloadWant" /\ Commands!NoChange
  BY DEF Commands!ReloadWant, Commands!At
<1>2. /\ cli[c] \in Records /\ InStep(cli[c]) /\ ReloadSpares(c) /\ FileTypes
      /\ cli[c].seen \in SUBSET Key /\ cli[c].cfg.vault \in Commands!Holder
      /\ cli[c].cfg.keyPaths \in SUBSET Key
  BY OwnRecord, RecordIs DEF CommandInv
<1>3. Commands!Command(c).verb = "reload"
  BY <1>1, <1>2 DEF InStep, ReloadStages, Commands!Command
<1>4. SparesAs(c, cli[c])
  BY <1>2, <1>3, ReloadAs
<1> DEFINE cfg == cli[c].cfg
           opens == cfg.vault \in readable
           want == cfg.keyPaths \cup IF opens THEN Commands!WantedFromVault(cfg.vault) ELSE {}
           todo == cfg.keyPaths \ cli[c].seen
           drop == cli[c].seen \ want
<1>5. Commands!Quietly(c, [Commands!Goto(c, "reloadAdd") EXCEPT !.todo = todo, !.drop = drop, !.read = opens])
  BY DEF Commands!ReloadWant
<1>6. todo \in SUBSET Key /\ drop \in SUBSET Key /\ opens \in BOOLEAN
  BY <1>2
<1>7. opens => cfg.vault # NoVault
  BY <1>2, CommandsAssumption DEF FileTypes, Commands!NamesDiffer
<1>8. \A k \in Key : k \in want <=>
        \/ k \in cfg.keyPaths
        \/ opens /\ store[cfg.vault][k] # None
  BY DEF Commands!WantedFromVault, Commands!HeldIn
<1> HIDE DEF opens, want, todo, drop
<1>9. PICK g : g = Commands!Goto(c, "reloadAdd")
  OBVIOUS
<1>10. /\ Kept(g, cli[c]) /\ g.at = "reloadAdd" /\ g \in Records /\ g.told = cli[c].told
  BY <1>2, <1>9, GotoIs DEF Labels, ReloadStages, Kept
<1>11. PICK t : t = [g EXCEPT !.todo = todo]
  OBVIOUS
<1>11a. /\ Kept(t, g) /\ t.at = g.at /\ t.todo = todo /\ t.told = g.told /\ t \in Records
  BY <1>6, <1>10, <1>11, TodoSet DEF Kept
<1>11b. PICK d : d = [t EXCEPT !.drop = drop]
  OBVIOUS
<1>11c. /\ Kept(d, t) /\ d.at = t.at /\ d.todo = t.todo /\ d.drop = drop /\ d.told = t.told
        /\ d \in Records
  BY <1>6, <1>11a, <1>11b, DropSet DEF Kept
<1>11d. PICK o \in BOOLEAN : o = opens
  BY <1>6
<1>11e. PICK r : r = [d EXCEPT !.read = o]
  OBVIOUS
<1>11f. /\ Kept(r, d) /\ r.at = d.at /\ r.todo = d.todo /\ r.drop = d.drop /\ r.read = o
        /\ r.told = d.told
  BY <1>11c, <1>11e, ReadSet
<1>12. /\ Kept(r, g) /\ r.at = "reloadAdd" /\ r.todo = todo /\ r.drop = drop
       /\ (r.read <=> opens) /\ r.told = g.told
  BY <1>10, <1>11a, <1>11c, <1>11d, <1>11f, KeptOn
<1>13. Kept(r, cli[c]) /\ r \in Records
  BY <1>10, <1>12, KeptOn DEF Kept
<1>14. InStep(r) /\ r.cfg = cfg /\ r.alone = cli[c].alone
  BY <1>1, <1>2, <1>12, <1>13, StaysInStep DEF Classes, ReloadStages, Kept
<1>15. SparesAs(c, r)
  <2>1. \A v \in Commands!Holder, k \in Key : took[v][k] # c
    BY <1>1, <1>4 DEF SparesAs
  <2>2. \A v \in Vault, k \in Key : took[v][k] # c
    BY <2>1 DEF Commands!Holder
  <2>3. r.todo \subseteq r.cfg.keyPaths
    BY <1>12, <1>14 DEF todo
  <2>4. ASSUME NEW k \in r.drop
        PROVE  /\ k \notin r.cfg.keyPaths
               /\ r.read => r.cfg.vault # NoVault /\ store[r.cfg.vault][k] = None
    BY <1>6, <1>7, <1>8, <1>12, <1>14, <2>4 DEF drop
  <2> QED
    BY <1>12, <2>2, <2>3, <2>4 DEF SparesAs
<1>16. SoFarAs(r)
  <2>1. ASSUME r.alone PROVE cli[c].seen = Commands!Rows
    BY <1>1, <1>4, <1>14, <2>1 DEF SparesAs
  <2>2. ASSUME r.alone PROVE r.cfg.keyPaths \subseteq Commands!Rows \cup r.todo
    BY <1>12, <1>14, <2>1, <2>2 DEF todo
  <2>3. ASSUME r.alone, NEW k \in Commands!Rows PROVE k \in r.drop \/ AccountedAs(r, k)
    BY <1>2, <1>7, <1>8, <1>12, <1>14, <2>1, <2>3 DEF AccountedAs, drop
  <2> QED
    BY <1>12, <2>2, <2>3 DEF SoFarAs
<1>17. Commands!Quietly(c, r)
  <2>1. r = [g EXCEPT !.todo = todo, !.drop = drop, !.read = opens]
    BY <1>10, <1>11, <1>11b, <1>11d, <1>11e DEF Records
  <2> QED
    BY <1>5, <1>9, <2>1
<1> QED
  BY <1>1, <1>3, <1>13, <1>14, <1>15, <1>16, <1>17, ReloadQuietly

(* A key of the list whose request failed: reload goes on with the next. *)
LEMMA ReloadTold ==
  ASSUME CommandsInv, NEW c \in Client, Commands!Command(c).verb = "reload",
         NEW t \in Records, Kept(t, cli[c]), InStep(t), SparesAs(c, t),
         Commands!Quietly(c, Commands!Tell(t, "error")), Commands!NoChange
  PROVE  CommandsInv'
<1>1. PICK r : r = Commands!Tell(t, "error")
  OBVIOUS
<1>2. "error" \in Words
  BY DEF Words
<1>3. /\ Kept(r, t) /\ r.at = t.at /\ r.seen = t.seen /\ r.todo = t.todo /\ r.drop = t.drop
      /\ r.read = t.read /\ r.told = t.told \cup {"error"}
  BY <1>1, <1>2, ToldSet
<1>4. Kept(r, cli[c]) /\ r \in Records /\ r.cfg = t.cfg /\ r.alone = t.alone
  BY <1>3, KeptOn DEF Kept
<1>5. InStep(r)
  BY <1>3 DEF InStep, Kept
<1>6. SparesAs(c, r) /\ SoFarAs(r)
  BY <1>3, <1>4 DEF SparesAs, SoFarAs
<1> QED
  BY <1>1, <1>4, <1>5, <1>6, ReloadQuietly

LEMMA ReloadAddSteps ==
  ASSUME CommandsInv, NEW c \in Client, Commands!ReloadAdd(c)
  PROVE  CommandsInv'
<1>1. cli[c].at = "reloadAdd"
  BY DEF Commands!ReloadAdd, Commands!At
<1>2. /\ cli[c] \in Records /\ InStep(cli[c]) /\ ReloadSpares(c) /\ ReloadSoFar(c)
      /\ AgentTypes /\ FileTypes
      /\ cli[c].todo \in SUBSET Key /\ cli[c].drop \in SUBSET Key /\ cli[c].cfg.vault \in Commands!Holder
  BY OwnRecord, RecordIs DEF CommandInv
<1>3. Commands!Command(c).verb = "reload"
  BY <1>1, <1>2 DEF InStep, ReloadStages, Commands!Command
<1>4. SparesAs(c, cli[c]) /\ SoFarAs(cli[c])
  BY <1>2, <1>3, ReloadAs
<1>5. CASE cli[c].todo = {} /\ Commands!Quietly(c, Commands!Goto(c, "reloadRemove")) /\ Commands!NoChange
  <2>1. PICK r : r = Commands!Goto(c, "reloadRemove")
    OBVIOUS
  <2>2. /\ Kept(r, cli[c]) /\ r.at = "reloadRemove" /\ r.drop = cli[c].drop
        /\ r.read = cli[c].read /\ r.told = cli[c].told
    BY <1>2, <2>1, GotoIs DEF Labels, ReloadStages
  <2>3. InStep(r) /\ r \in Records /\ r.cfg = cli[c].cfg /\ r.alone = cli[c].alone
    BY <1>1, <1>2, <2>2, StaysInStep DEF Classes, ReloadStages, Kept
  <2>4. SparesAs(c, r)
    BY <1>1, <1>4, <2>2, <2>3 DEF SparesAs
  <2>5. SoFarAs(r)
    BY <1>1, <1>4, <1>5, <2>2, <2>3 DEF SoFarAs, AccountedAs
  <2> QED
    BY <1>3, <1>5, <2>1, <2>2, <2>3, <2>4, <2>5, ReloadQuietly
<1>6. ASSUME NEW k \in cli[c].todo, NEW t, t = [cli[c] EXCEPT !.todo = cli[c].todo \ {k}]
      PROVE  /\ Kept(t, cli[c]) /\ t.at = "reloadAdd" /\ t.todo = cli[c].todo \ {k}
             /\ t.drop = cli[c].drop /\ t.read = cli[c].read /\ t.told = cli[c].told
             /\ t \in Records /\ InStep(t) /\ t.cfg = cli[c].cfg /\ t.alone = cli[c].alone
  <2>1. /\ Kept(t, cli[c]) /\ t.at = "reloadAdd" /\ t.todo = cli[c].todo \ {k}
        /\ t.drop = cli[c].drop /\ t.read = cli[c].read /\ t.told = cli[c].told
    BY <1>1, <1>2, <1>6, TodoSet
  <2> QED
    BY <1>1, <1>2, <2>1, StaysInStep DEF Classes, ReloadStages, Kept
<1>7. ASSUME NEW k \in cli[c].todo, Commands!NoChange,
             Commands!Quietly(c, Commands!Tell([cli[c] EXCEPT !.todo = @ \ {k}], "error"))
      PROVE  CommandsInv'
  <2>1. PICK t : t = [cli[c] EXCEPT !.todo = cli[c].todo \ {k}]
    OBVIOUS
  <2>2. /\ Kept(t, cli[c]) /\ t.at = "reloadAdd" /\ t.todo = cli[c].todo \ {k}
        /\ t.drop = cli[c].drop /\ t.read = cli[c].read
        /\ t \in Records /\ InStep(t) /\ t.cfg = cli[c].cfg /\ t.alone = cli[c].alone
    BY <1>6, <2>1
  <2>3. SparesAs(c, t)
    BY <1>1, <1>4, <2>2 DEF SparesAs
  <2>4. Commands!Quietly(c, Commands!Tell(t, "error"))
    BY <1>2, <1>7, <2>1
  <2> QED
    BY <1>3, <1>7, <2>2, <2>3, <2>4, ReloadTold
<1>8. ASSUME NEW k \in cli[c].todo, Commands!Status(c, k) \notin {"gone", "locked"}, Commands!Put(k, FALSE),
             Commands!Visibly(c, [cli[c] EXCEPT !.todo = @ \ {k}])
      PROVE  CommandsInv'
  <2>1. PICK r : r = [cli[c] EXCEPT !.todo = cli[c].todo \ {k}]
    OBVIOUS
  <2>2. /\ Kept(r, cli[c]) /\ r.at = "reloadAdd" /\ r.todo = cli[c].todo \ {k}
        /\ r.drop = cli[c].drop /\ r.read = cli[c].read /\ r.told = cli[c].told
        /\ r \in Records /\ InStep(r) /\ r.cfg = cli[c].cfg /\ r.alone = cli[c].alone
    BY <1>6, <2>1
  <2>3. k \in Key /\ k \in cli[c].cfg.keyPaths /\ ~locked
    BY <1>1, <1>2, <1>4, <1>8, StatusTells DEF SparesAs
  <2>4. /\ served' = served /\ took' = took
        /\ \A v \in Commands!Holder, j \in Key : v # served \/ j # k => store'[v][j] = store[v][j]
        /\ \A j \in Key : j # k => (j \in Commands!Rows' <=> j \in Commands!Rows)
        /\ k \in Commands!Rows'
    BY <1>2, <1>8, <2>3, PutEffect
  <2>5. ASSUME cli'[c] = r PROVE CommandInv(c)'
    <3>1. Commands!Command(c)' = Commands!Command(c) /\ r.cfg.vault \in Commands!Holder
      BY <1>2, <2>2, <2>5, SameRequest DEF Kept
    <3>2. ASSUME r.alone, NEW j \in r.drop
          PROVE  /\ j \notin r.cfg.keyPaths
                 /\ r.read => r.cfg.vault # NoVault /\ store'[r.cfg.vault][j] = None
      <4>1. /\ j \notin r.cfg.keyPaths /\ j \in Key
            /\ r.read => r.cfg.vault # NoVault /\ store[r.cfg.vault][j] = None
        BY <1>1, <1>2, <1>4, <2>2, <3>2 DEF SparesAs
      <4>2. j # k
        BY <2>2, <2>3, <4>1
      <4> QED
        BY <2>4, <3>1, <4>1, <4>2
    <3>3. ReloadSpares(c)'
      <4>1. r.todo \subseteq r.cfg.keyPaths
        BY <1>1, <1>4, <2>2 DEF SparesAs
      <4>2. \A v \in Vault, j \in Key :
              took'[v][j] = c /\ r.alone => r.cfg.vault # v \/ ~r.read
        BY <1>4, <2>2, <2>4 DEF SparesAs
      <4> QED
        BY <2>2, <2>5, <3>1, <3>2, <4>1, <4>2 DEF ReloadSpares, Commands!At
    <3>4. ASSUME r.alone, r.told = {}
          PROVE  /\ r.cfg.keyPaths \subseteq Commands!Rows' \cup r.todo
                 /\ \A j \in Commands!Rows' : j \in r.drop \/ Accounted(c, j)'
      <4>1. r.cfg.keyPaths \subseteq Commands!Rows \cup cli[c].todo
        BY <1>1, <1>4, <2>2, <2>3, <3>4 DEF SoFarAs
      <4>2. r.cfg.keyPaths \subseteq Key
        BY <2>2, OwnRecord, RecordIs
      <4>3. r.cfg.keyPaths \subseteq Commands!Rows' \cup r.todo
        BY <2>2, <2>4, <4>1, <4>2
      <4>4. ASSUME NEW j \in Commands!Rows' PROVE j \in r.drop \/ Accounted(c, j)'
        <5>1. j \in Key
          BY <4>4 DEF Commands!Rows, Commands!HeldIn
        <5>2. CASE j = k
          BY <2>2, <2>3, <2>5, <5>2 DEF Accounted
        <5>3. CASE j # k
          <6>1. j \in cli[c].drop \/ AccountedAs(cli[c], j)
            BY <1>1, <1>4, <2>2, <2>4, <3>4, <4>4, <5>1, <5>3 DEF SoFarAs
          <6> QED
            BY <2>2, <2>4, <2>5, <3>1, <5>1, <5>3, <6>1 DEF Accounted, AccountedAs
        <5> QED
          BY <5>2, <5>3
      <4> QED
        BY <4>3, <4>4
    <3>5. ReloadSoFar(c)'
      BY <2>2, <2>5, <3>1, <3>4 DEF ReloadSoFar, Commands!At
    <3> QED
      BY <1>3, <2>2, <2>4, <2>5, <3>3, <3>5, ReloadStep
  <2>6. Commands!Visibly(c, r)
    BY <1>2, <1>8, <2>1
  <2> QED
    BY <1>8, <2>2, <2>3, <2>5, <2>6, PutKeeps
<1> QED
  BY <1>5, <1>7, <1>8 DEF Commands!ReloadAdd, Commands!AddsMissing

LEMMA ReloadRemoveSteps ==
  ASSUME CommandsInv, NEW c \in Client, Commands!ReloadRemove(c)
  PROVE  CommandsInv'
<1>1. cli[c].at = "reloadRemove"
  BY DEF Commands!ReloadRemove, Commands!At
<1>2. /\ cli[c] \in Records /\ InStep(cli[c]) /\ ReloadSpares(c) /\ ReloadSoFar(c)
      /\ AgentTypes /\ FileTypes
      /\ cli[c].drop \in SUBSET Key /\ cli[c].cfg.vault \in Commands!Holder
      /\ cli[c].cfg.keyPaths \in SUBSET Key
  BY OwnRecord, RecordIs DEF CommandInv
<1>3. Commands!Command(c).verb = "reload"
  BY <1>1, <1>2 DEF InStep, ReloadStages, Commands!Command
<1>4. SparesAs(c, cli[c]) /\ SoFarAs(cli[c])
  BY <1>2, <1>3, ReloadAs
<1>5. CASE cli[c].drop = {} /\ Commands!Quietly(c, Commands!End(cli[c])) /\ Commands!NoChange
  <2>1. PICK r : r = Commands!End(cli[c])
    OBVIOUS
  <2>2. Kept(r, cli[c]) /\ r.at = "ended" /\ r.read = cli[c].read /\ r.told = cli[c].told
    BY <1>2, <2>1, EndSet
  <2>3. InStep(r) /\ r \in Records /\ r.cfg = cli[c].cfg /\ r.alone = cli[c].alone
    BY <1>2, <2>2, StaysInStep DEF Kept
  <2>4. SparesAs(c, r)
    BY <1>4, <2>2, <2>3 DEF SparesAs
  <2>5. SoFarAs(r)
    BY <1>1, <1>4, <1>5, <2>2, <2>3 DEF SoFarAs, AccountedAs
  <2> QED
    BY <1>3, <1>5, <2>1, <2>2, <2>3, <2>4, <2>5, ReloadQuietly
<1>6. ASSUME NEW k \in cli[c].drop, NEW t, t = [cli[c] EXCEPT !.drop = cli[c].drop \ {k}]
      PROVE  /\ Kept(t, cli[c]) /\ t.at = "reloadRemove" /\ t.drop = cli[c].drop \ {k}
             /\ t.read = cli[c].read /\ t.told = cli[c].told
             /\ t \in Records /\ InStep(t) /\ t.cfg = cli[c].cfg /\ t.alone = cli[c].alone
  <2>1. /\ Kept(t, cli[c]) /\ t.at = "reloadRemove" /\ t.drop = cli[c].drop \ {k}
        /\ t.read = cli[c].read /\ t.told = cli[c].told
    BY <1>1, <1>2, <1>6, DropSet
  <2> QED
    BY <1>1, <1>2, <2>1, StaysInStep DEF Classes, ReloadStages, Kept
<1>7. ASSUME NEW k \in cli[c].drop, Commands!NoChange,
             Commands!Quietly(c, Commands!Tell([cli[c] EXCEPT !.drop = @ \ {k}], "error"))
      PROVE  CommandsInv'
  <2>1. PICK t : t = [cli[c] EXCEPT !.drop = cli[c].drop \ {k}]
    OBVIOUS
  <2>2. /\ Kept(t, cli[c]) /\ t.at = "reloadRemove" /\ t.drop = cli[c].drop \ {k}
        /\ t.read = cli[c].read
        /\ t \in Records /\ InStep(t) /\ t.cfg = cli[c].cfg /\ t.alone = cli[c].alone
    BY <1>6, <2>1
  <2>3. SparesAs(c, t)
    BY <1>1, <1>4, <2>2 DEF SparesAs
  <2>4. Commands!Quietly(c, Commands!Tell(t, "error"))
    BY <1>2, <1>7, <2>1
  <2> QED
    BY <1>3, <1>7, <2>2, <2>3, <2>4, ReloadTold
<1>8. ASSUME NEW k \in cli[c].drop, Commands!Status(c, k) = "ok", Commands!Take(c, k),
             Commands!Visibly(c, [cli[c] EXCEPT !.drop = @ \ {k}])
      PROVE  CommandsInv'
  <2>1. PICK r : r = [cli[c] EXCEPT !.drop = cli[c].drop \ {k}]
    OBVIOUS
  <2>2. /\ Kept(r, cli[c]) /\ r.at = "reloadRemove" /\ r.drop = cli[c].drop \ {k}
        /\ r.read = cli[c].read /\ r.told = cli[c].told
        /\ r \in Records /\ InStep(r) /\ r.cfg = cli[c].cfg /\ r.alone = cli[c].alone
    BY <1>6, <2>1
  <2>3. k \in Key /\ ~locked /\ store[served][k] # None /\ served \in Commands!Holder
    BY <1>2, <1>8, StatusTells DEF AgentTypes
  <2>4. /\ served' = served /\ (locked' <=> locked)
        /\ \A v \in Commands!Holder, j \in Key : v # served \/ j # k => store'[v][j] = store[v][j]
        /\ took'[served][k] = c
        /\ \A v \in Commands!Holder, j \in Key : v # served \/ j # k => took'[v][j] = took[v][j]
        /\ \A j \in Key : j # k => (j \in Commands!Rows' <=> j \in Commands!Rows)
        /\ k \notin Commands!Rows'
    BY <1>2, <1>8, <2>3, TakeEffect
  <2>5. r.alone => /\ k \notin r.cfg.keyPaths
                   /\ r.read => r.cfg.vault # NoVault /\ r.cfg.vault # served
    BY <1>1, <1>4, <2>2, <2>3 DEF SparesAs
  <2>6. ASSUME cli'[c] = r PROVE CommandInv(c)'
    <3>1. Commands!Command(c)' = Commands!Command(c) /\ r.cfg.vault \in Commands!Holder
      BY <1>2, <2>2, <2>6, SameRequest DEF Kept
    <3>2. ASSUME r.alone, NEW j \in r.drop
          PROVE  /\ j \notin r.cfg.keyPaths
                 /\ r.read => r.cfg.vault # NoVault /\ store'[r.cfg.vault][j] = None
      <4>1. /\ j \notin r.cfg.keyPaths /\ j \in Key /\ j # k
            /\ r.read => r.cfg.vault # NoVault /\ store[r.cfg.vault][j] = None
        BY <1>1, <1>2, <1>4, <2>2, <3>2 DEF SparesAs
      <4> QED
        BY <2>4, <3>1, <4>1
    <3>3. ReloadSpares(c)'
      <4>1. ASSUME NEW v \in Vault, NEW j \in Key, took'[v][j] = c, r.alone
            PROVE  r.cfg.vault # v \/ ~r.read
        <5>1. v \in Commands!Holder
          BY DEF Commands!Holder
        <5>2. CASE v = served /\ j = k
          BY <2>5, <4>1, <5>2
        <5>3. CASE v # served \/ j # k
          BY <1>4, <2>2, <2>4, <4>1, <5>1, <5>3 DEF SparesAs
        <5> QED
          BY <5>2, <5>3
      <4> QED
        BY <2>2, <2>6, <3>1, <3>2, <4>1 DEF ReloadSpares, Commands!At
    <3>4. ASSUME r.alone, r.told = {}
          PROVE  /\ r.cfg.keyPaths \subseteq Commands!Rows'
                 /\ \A j \in Commands!Rows' : j \in r.drop \/ Accounted(c, j)'
      <4>1. r.cfg.keyPaths \subseteq Commands!Rows
        BY <1>1, <1>4, <2>2, <2>3, <3>4 DEF SoFarAs
      <4>2. r.cfg.keyPaths \subseteq Commands!Rows'
        BY <1>2, <2>2, <2>4, <2>5, <3>4, <4>1
      <4>3. ASSUME NEW j \in Commands!Rows' PROVE j \in r.drop \/ Accounted(c, j)'
        <5>1. j \in Key /\ j # k
          BY <2>4, <4>3 DEF Commands!Rows, Commands!HeldIn
        <5>2. j \in cli[c].drop \/ AccountedAs(cli[c], j)
          BY <1>1, <1>4, <2>2, <2>4, <3>4, <4>3, <5>1 DEF SoFarAs
        <5> QED
          BY <2>2, <2>4, <2>6, <3>1, <5>1, <5>2 DEF Accounted, AccountedAs
      <4> QED
        BY <4>2, <4>3
    <3>5. ReloadSoFar(c)'
      BY <2>2, <2>6, <3>1, <3>4 DEF ReloadSoFar, Commands!At
    <3>6. \A v \in Commands!Holder, j \in Key : took'[v][j] = c => took[v][j] = c \/ v = served
      BY <2>4
    <3> QED
      BY <1>3, <2>2, <2>4, <2>6, <3>3, <3>5, <3>6, ReloadStep
  <2>7. Commands!Visibly(c, r)
    BY <1>2, <1>8, <2>1
  <2> QED
    BY <1>8, <2>2, <2>3, <2>6, <2>7, TakeKeeps
<1> QED
  BY <1>5, <1>7, <1>8 DEF Commands!ReloadRemove

(* sshush edit. *)
LEMMA EditStep ==
  ASSUME CommandsInv, NEW c \in Client, NEW r \in Records, Kept(r, cli[c]), InStep(r),
         cli'[c] = r, served' = served,
         \A v \in Commands!Holder, k \in Key : took'[v][k] = c => took[v][k] = c \/ v = served,
         Commands!Command(c).verb = "edit", EditSoFar(c)', FilesAhead(c)'
  PROVE  CommandInv(c)'
<1>1. /\ InStep(cli[c])' /\ TakesFromServed(c)'
      /\ Commands!Command(c)' = Commands!Command(c)
  BY OwnStep
<1> QED
  BY <1>1 DEF CommandInv, ReloadSpares, ReloadSoFar, VerbSoFar, Commands!VaultVerbs

LEMMA EditQuietly ==
  ASSUME CommandsInv, NEW c \in Client, NEW r \in Records, Kept(r, cli[c]), InStep(r),
         Commands!Command(c).verb = "edit", Commands!Quietly(c, r), Commands!NoChange,
         r.at \in EditStages \ {"editComment"} => r.told = {},
         cli[c].told \subseteq r.told,
         cli[c].at = "editAdd" => "reloadFailed" \in r.told,
         cli[c].at \in {"editFile", "editPub"} => Commands!Command(c).on \/ "error" \in r.told,
         "reloaded" \in r.told \/ "synced" \in r.told =>
           "reloaded" \in cli[c].told \/ "synced" \in cli[c].told
  PROVE  CommandsInv'
<1>1. EditSoFar(c) /\ FilesAhead(c)
  BY OwnRecord DEF CommandInv
<1>2. ASSUME cli'[c] = r PROVE CommandInv(c)'
  <2>1. UNCHANGED <<served, store, took, file, pub>>
    BY DEF Commands!NoChange, Commands!agent, Commands!files
  <2>2. /\ Commands!Command(c)' = Commands!Command(c) /\ Commands!EditKey(c)' = Commands!EditKey(c)
        /\ r.cut = cli[c].cut /\ r.alone = cli[c].alone
    BY <1>2, SameRequest DEF Kept
  <2>3. EditSoFar(c)'
    BY <1>1, <1>2, <2>1, <2>2 DEF EditSoFar, Commands!At
  <2>4. FilesAhead(c)'
    <3>1. CASE Commands!Command(c).on
      BY <2>2, <3>1 DEF FilesAhead
    <3>2. CASE ~Commands!Command(c).on
      <4>1. "error" \notin r.told =>
              file[Commands!EditKey(c)] = "new" /\ pub[Commands!EditKey(c)] = "new"
        BY <1>1, <3>2 DEF FilesAhead, Commands!At
      <4>2. r.alone /\ ("reloaded" \in r.told \/ "synced" \in r.told) =>
              store[served][Commands!EditKey(c)] # None /\ store[served][Commands!EditKey(c)].comment = "new"
        BY <1>1, <2>2, <3>2 DEF FilesAhead
      <4> QED
        BY <1>2, <2>1, <2>2, <4>1, <4>2 DEF FilesAhead
    <3> QED
      BY <3>1, <3>2
  <2> QED
    BY <1>2, <2>1, <2>3, <2>4, EditStep
<1> QED
  BY <1>2, QuietlyKeeps

LEMMA EditGoes ==
  ASSUME CommandsInv, NEW c \in Client, cli[c].at \in EditStages \ {"editComment", "editAdd"},
         NEW l \in EditStages \cup {"ended"}, NEW r \in Records, Kept(r, cli[c]), r.at = l,
         r.told = {}, Commands!Quietly(c, r), Commands!NoChange,
         cli[c].at \in {"editFile", "editPub"} => Commands!Command(c).on
  PROVE  CommandsInv'
<1>1. cli[c] \in Records /\ InStep(cli[c]) /\ EditSoFar(c)
  BY OwnRecord DEF CommandInv
<1>2. Commands!Command(c).verb = "edit"
  BY <1>1 DEF InStep, Commands!Command
<1>3. cli[c].told = {}
  BY <1>1, <1>2 DEF EditSoFar
<1>4. InStep(r)
  BY <1>1, StaysInStep DEF Classes
<1> QED
  BY <1>2, <1>3, <1>4, EditQuietly

LEMMA EditFails ==
  ASSUME CommandsInv, NEW c \in Client, cli[c].at \in {"editFile", "editPub"},
         Commands!Fails(c), Commands!NoChange
  PROVE  CommandsInv'
<1>1. cli[c] \in Records /\ InStep(cli[c]) /\ EditSoFar(c)
  BY OwnRecord DEF CommandInv
<1>2. Commands!Command(c).verb = "edit"
  BY <1>1 DEF InStep, Commands!Command, EditStages
<1>3. cli[c].told = {}
  BY <1>1, <1>2 DEF EditSoFar, EditStages
<1>4. PICK r : r = Commands!End(Commands!Tell(cli[c], "error"))
  OBVIOUS
<1>5. Commands!Quietly(c, r)
  BY <1>4 DEF Commands!Fails
<1>6. "error" \in Words
  BY DEF Words
<1>7. Kept(r, cli[c]) /\ r.at = "ended" /\ r.told = {"error"}
  BY <1>1, <1>3, <1>4, <1>6, FailedIs
<1>8. InStep(r) /\ r \in Records
  BY <1>1, <1>7, StaysInStep DEF Kept
<1>9. r.at \notin EditStages
  BY <1>7 DEF EditStages
<1> QED
  BY <1>2, <1>3, <1>5, <1>7, <1>8, <1>9, EditQuietly

LEMMA ModeSet ==
  ASSUME NEW r \in Records, NEW mode \in {"keys", "vault"}
  PROVE  LET s == [r EXCEPT !.mode = mode] IN
           /\ Kept(s, r) /\ s.at = r.at /\ s.mode = mode /\ s.seen = r.seen /\ s.todo = r.todo
           /\ s.drop = r.drop /\ s.read = r.read /\ s.told = r.told /\ s.done = r.done
           /\ s.prompted = r.prompted
BY DEF Records, Kept

LEMMA AfterReloadIs ==
  ASSUME NEW c \in Client, NEW t \in Records, NEW s, s = Commands!AfterReload(c, t)
  PROVE  Kept(s, t) /\ s.at \in {"editComment", "ended"} /\ s.told = t.told
<1>1. CASE s = [t EXCEPT !.at = "editComment"]
  BY <1>1, AtSet DEF Labels, EditStages
<1>2. CASE s = Commands!End(t)
  BY <1>2, EndSet
<1> QED
  BY <1>1, <1>2 DEF Commands!AfterReload

LEMMA FilesKeep ==
  ASSUME CommandsInv, NEW c \in Client, NEW r \in Records, Commands!Visibly(c, r),
         UNCHANGED <<Commands!agent, took>>, FilesGrow,
         file' \in [Key -> {"old", "new"}], pub' \in [Key -> {"old", "new"}],
         cli'[c] = r => CommandInv(c)'
  PROVE  CommandsInv'
<1>1. UNCHANGED <<served, locked, store, shown, hidden, took>>
  BY DEF Commands!agent
<1>2. AgentTypes'
  BY <1>1, OwnRecord DEF AgentTypes, StoreTypes, TookTypes
<1>3. TakesInOwnName(c)
  BY <1>1 DEF TakesInOwnName
<1> QED
  BY <1>1, <1>2, <1>3, VisiblyKeeps

LEMMA StoredKeeps ==
  ASSUME CommandsInv, NEW c \in Client, NEW r \in Records, Commands!Visibly(c, r),
         NEW k \in Key, NEW i \in Commands!Identities, store' = [store EXCEPT ![served][k] = i],
         UNCHANGED <<served, locked, shown, hidden, Commands!files, took>>,
         cli'[c] = r => CommandInv(c)'
  PROVE  CommandsInv'
<1>1. AgentTypes /\ FileTypes
  BY OwnRecord
<1>2. /\ StoreTypes' /\ store'[served][k] = i
      /\ \A v \in Commands!Holder, j \in Key : v # served \/ j # k => store'[v][j] = store[v][j]
  BY <1>1, Stored
<1>3. file' = file /\ pub' = pub /\ served' = served /\ took' = took /\ i # None
  BY CommandsAssumption DEF Commands!files, Commands!NamesDiffer
<1>4. AgentTypes'
  BY <1>1, <1>2, <1>3 DEF AgentTypes, TookTypes
<1>5. file' \in [Key -> {"old", "new"}] /\ pub' \in [Key -> {"old", "new"}] /\ FilesGrow
  BY <1>1, <1>3 DEF FileTypes, FilesGrow
<1>6. TakesInOwnName(c)
  BY <1>2, <1>3 DEF TakesInOwnName
<1> QED
  BY <1>3, <1>4, <1>5, <1>6, VisiblyKeeps

(* What is known of an edit under way. *)
LEMMA EditUnderWay ==
  ASSUME CommandsInv, NEW c \in Client, cli[c].at \in EditStages
  PROVE  /\ cli[c] \in Records /\ InStep(cli[c]) /\ EditSoFar(c) /\ FilesAhead(c)
         /\ TakesFromServed(c)
         /\ Commands!Command(c).verb = "edit" /\ Commands!EditKey(c) \in Key
         /\ cli[c].at # "editComment" => cli[c].told = {}
<1>1. /\ cli[c] \in Records /\ InStep(cli[c]) /\ EditSoFar(c) /\ FilesAhead(c)
      /\ TakesFromServed(c)
  BY OwnRecord DEF CommandInv
<1>2. Commands!Command(c).verb = "edit"
  BY <1>1 DEF InStep, Commands!Command
<1>3. cli[c].at # "editComment" => cli[c].told = {}
  BY <1>1, <1>2 DEF EditSoFar
<1> QED
  BY <1>1, <1>2, <1>3, KeyOfEdit

LEMMA EditFileSteps ==
  ASSUME CommandsInv, NEW c \in Client, Commands!EditFile(c)
  PROVE  CommandsInv'
<1>1. cli[c].at = "editFile" /\ cli[c].at \in EditStages
  BY DEF Commands!EditFile, Commands!At, EditStages
<1>2. /\ cli[c] \in Records /\ InStep(cli[c]) /\ EditSoFar(c)
      /\ Commands!Command(c).verb = "edit" /\ Commands!EditKey(c) \in Key /\ cli[c].told = {}
  BY <1>1, EditUnderWay
<1>3. CASE Commands!Fails(c) /\ Commands!NoChange
  BY <1>1, <1>3, EditFails
<1>4. CASE Commands!Command(c).on /\ Commands!Quietly(c, Commands!Goto(c, "editProbe")) /\ Commands!NoChange
  <2>1. PICK r : r = Commands!Goto(c, "editProbe")
    OBVIOUS
  <2>2. Kept(r, cli[c]) /\ r.at = "editProbe" /\ r.told = {} /\ r \in Records
    BY <1>2, <2>1, GotoIs DEF Labels, EditStages, Kept
  <2> QED
    BY <1>1, <1>4, <2>1, <2>2, EditGoes DEF EditStages
<1>5. CASE /\ ~Commands!Command(c).on
           /\ file' = [file EXCEPT ![Commands!EditKey(c)] = "new"]
           /\ Commands!Visibly(c, Commands!Goto(c, "editPub"))
           /\ UNCHANGED <<Commands!agent, pub, took>>
  <2>1. PICK r : r = Commands!Goto(c, "editPub")
    OBVIOUS
  <2>2. Kept(r, cli[c]) /\ r.at = "editPub" /\ r.told = {} /\ r \in Records
    BY <1>2, <2>1, GotoIs DEF Labels, EditStages, Kept
  <2>3. InStep(r)
    BY <1>1, <1>2, <2>2, StaysInStep DEF Classes, EditStages
  <2>4. FileTypes
    BY OwnRecord
  <2>5. /\ file' \in [Key -> {"old", "new"}] /\ pub' \in [Key -> {"old", "new"}]
        /\ FilesGrow /\ file'[Commands!EditKey(c)] = "new"
    BY <1>2, <1>5, <2>4 DEF FileTypes, FilesGrow
  <2>6. ASSUME cli'[c] = r PROVE CommandInv(c)'
    <3>1. Commands!Command(c)' = Commands!Command(c) /\ Commands!EditKey(c)' = Commands!EditKey(c) /\ r.cut = cli[c].cut
      BY <2>2, <2>6, SameRequest DEF Kept
    <3>2. UNCHANGED <<served, store, took>>
      BY <1>5 DEF Commands!agent
    <3>3. EditSoFar(c)'
      BY <1>1, <1>2, <2>2, <2>6, <3>1, <3>2 DEF EditSoFar, Commands!At
    <3>4. FilesAhead(c)'
      BY <2>2, <2>5, <2>6, <3>1 DEF FilesAhead, Commands!At
    <3> QED
      BY <1>2, <2>2, <2>3, <2>6, <3>2, <3>3, <3>4, EditStep
  <2> QED
    BY <1>5, <2>1, <2>2, <2>5, <2>6, FilesKeep
<1> QED
  BY <1>3, <1>4, <1>5 DEF Commands!EditFile

LEMMA EditPubSteps ==
  ASSUME CommandsInv, NEW c \in Client, Commands!EditPub(c)
  PROVE  CommandsInv'
<1>1. cli[c].at = "editPub" /\ cli[c].at \in EditStages
  BY DEF Commands!EditPub, Commands!At, EditStages
<1>2. /\ cli[c] \in Records /\ InStep(cli[c]) /\ EditSoFar(c) /\ FilesAhead(c)
      /\ Commands!Command(c).verb = "edit" /\ Commands!EditKey(c) \in Key /\ cli[c].told = {}
  BY <1>1, EditUnderWay
<1>3. CASE Commands!Fails(c) /\ Commands!NoChange
  BY <1>1, <1>3, EditFails
<1>4. CASE /\ pub' = [pub EXCEPT ![Commands!EditKey(c)] = "new"]
           /\ Commands!Visibly(c, Commands!Goto(c, "editProbe"))
           /\ UNCHANGED <<Commands!agent, file, took>>
  <2>1. PICK r : r = Commands!Goto(c, "editProbe")
    OBVIOUS
  <2>2. Kept(r, cli[c]) /\ r.at = "editProbe" /\ r.told = {} /\ r \in Records
    BY <1>2, <2>1, GotoIs DEF Labels, EditStages, Kept
  <2>3. InStep(r)
    BY <1>1, <1>2, <2>2, StaysInStep DEF Classes, EditStages
  <2>4. FileTypes
    BY OwnRecord
  <2>5. /\ file' \in [Key -> {"old", "new"}] /\ pub' \in [Key -> {"old", "new"}]
        /\ FilesGrow /\ pub'[Commands!EditKey(c)] = "new"
    BY <1>2, <1>4, <2>4 DEF FileTypes, FilesGrow
  <2>6. ASSUME cli'[c] = r PROVE CommandInv(c)'
    <3>1. Commands!Command(c)' = Commands!Command(c) /\ Commands!EditKey(c)' = Commands!EditKey(c) /\ r.cut = cli[c].cut
      BY <2>2, <2>6, SameRequest DEF Kept
    <3>2. UNCHANGED <<served, store, took, file>>
      BY <1>4 DEF Commands!agent
    <3>3. EditSoFar(c)'
      BY <1>1, <1>2, <2>2, <2>6, <3>1, <3>2 DEF EditSoFar, Commands!At
    <3>4. ~Commands!Command(c).on => file[Commands!EditKey(c)] = "new"
      BY <1>1, <1>2 DEF FilesAhead, Commands!At
    <3>5. FilesAhead(c)'
      BY <2>2, <2>5, <2>6, <3>1, <3>2, <3>4 DEF FilesAhead, Commands!At
    <3> QED
      BY <1>2, <2>2, <2>3, <2>6, <3>2, <3>3, <3>5, EditStep
  <2> QED
    BY <1>4, <2>1, <2>2, <2>5, <2>6, FilesKeep
<1> QED
  BY <1>3, <1>4 DEF Commands!EditPub

LEMMA EditProbeSteps ==
  ASSUME CommandsInv, NEW c \in Client, Commands!EditProbe(c)
  PROVE  CommandsInv'
<1>1. /\ cli[c].at = "editProbe" /\ Commands!NoChange
      /\ cli[c].at \in EditStages \ {"editComment", "editAdd"}
  BY DEF Commands!EditProbe, Commands!At, EditStages
<1>2. cli[c] \in Records /\ cli[c].told = {}
  BY <1>1, EditUnderWay
<1>3. CASE Commands!Quietly(c, Commands!End(cli[c]))
  <2>1. PICK r : r = Commands!End(cli[c])
    OBVIOUS
  <2>2. Kept(r, cli[c]) /\ r.at = "ended" /\ r.told = {} /\ r \in Records
    BY <1>2, <2>1, EndSet DEF Kept
  <2> QED
    BY <1>1, <1>3, <2>1, <2>2, EditGoes
<1>4. ASSUME NEW mode \in {"keys", "vault"},
             Commands!Quietly(c, [Commands!Goto(c, "editLoaded") EXCEPT !.mode = mode])
      PROVE  CommandsInv'
  <2>1. PICK g : g = Commands!Goto(c, "editLoaded")
    OBVIOUS
  <2>2. Kept(g, cli[c]) /\ g.at = "editLoaded" /\ g.told = {} /\ g \in Records
    BY <1>2, <2>1, GotoIs DEF Labels, EditStages, Kept
  <2>3. PICK r : r = [g EXCEPT !.mode = mode]
    OBVIOUS
  <2>4. Kept(r, g) /\ r.at = "editLoaded" /\ r.told = {}
    BY <2>2, <2>3, ModeSet
  <2>5. Kept(r, cli[c]) /\ r \in Records
    BY <2>2, <2>4, KeptOn DEF Kept
  <2> QED
    BY <1>1, <1>4, <2>1, <2>3, <2>4, <2>5, EditGoes DEF EditStages
<1> QED
  BY <1>3, <1>4 DEF Commands!EditProbe

(* The backend decides whether the comment is told to the daemon as well. *)
LEMMA EditGoesOn ==
  ASSUME CommandsInv, NEW c \in Client, cli[c].at \in EditStages \ {"editComment", "editAdd"},
         cli[c].at \notin {"editFile", "editPub"},
         NEW t \in Records, Kept(t, cli[c]), t.told \subseteq {"reloadFailed"},
         Commands!Quietly(c, Commands!AfterReload(c, t)), Commands!NoChange
  PROVE  CommandsInv'
<1>1. /\ cli[c] \in Records /\ InStep(cli[c]) /\ Commands!Command(c).verb = "edit"
      /\ cli[c].told = {}
  BY EditUnderWay
<1>2. PICK r : r = Commands!AfterReload(c, t)
  OBVIOUS
<1>3. Kept(r, t) /\ r.at \in {"editComment", "ended"} /\ r.told = t.told
  BY <1>2, AfterReloadIs
<1>4. Kept(r, cli[c]) /\ r \in Records
  BY <1>3, KeptOn DEF Kept
<1>5. InStep(r)
  BY <1>1, <1>3, <1>4, StaysInStep DEF Classes, EditStages
<1>6. r.at \notin EditStages \ {"editComment"}
  BY <1>3 DEF EditStages
<1> QED
  BY <1>1, <1>2, <1>3, <1>4, <1>5, <1>6, EditQuietly

LEMMA EditLoadedSteps ==
  ASSUME CommandsInv, NEW c \in Client, Commands!EditLoaded(c)
  PROVE  CommandsInv'
<1>1. /\ cli[c].at = "editLoaded" /\ Commands!NoChange
      /\ cli[c].at \in EditStages \ {"editComment", "editAdd"}
  BY DEF Commands!EditLoaded, Commands!At, EditStages
<1>2. cli[c] \in Records /\ cli[c].told = {}
  BY <1>1, EditUnderWay
<1>3. CASE Commands!Quietly(c, Commands!Goto(c, "editList"))
  <2>1. PICK r : r = Commands!Goto(c, "editList")
    OBVIOUS
  <2>2. Kept(r, cli[c]) /\ r.at = "editList" /\ r.told = {} /\ r \in Records
    BY <1>2, <2>1, GotoIs DEF Labels, EditStages, Kept
  <2> QED
    BY <1>1, <1>3, <2>1, <2>2, EditGoes DEF EditStages
<1>4. CASE Commands!Quietly(c, Commands!AfterReload(c, cli[c]))
  BY <1>1, <1>2, <1>4, EditGoesOn DEF Kept
<1> QED
  BY <1>3, <1>4 DEF Commands!EditLoaded

LEMMA EditListSteps ==
  ASSUME CommandsInv, NEW c \in Client, Commands!EditList(c)
  PROVE  CommandsInv'
<1>1. /\ cli[c].at = "editList" /\ Commands!NoChange
      /\ cli[c].at \in EditStages \ {"editComment", "editAdd"}
  BY DEF Commands!EditList, Commands!At, EditStages
<1>2. cli[c] \in Records /\ cli[c].told = {}
  BY <1>1, EditUnderWay
<1>3. CASE Commands!Quietly(c, Commands!AfterReload(c, Commands!Tell(cli[c], "reloadFailed")))
  <2>1. PICK t : t = Commands!Tell(cli[c], "reloadFailed")
    OBVIOUS
  <2>2. "reloadFailed" \in Words
    BY DEF Words
  <2>3. Kept(t, cli[c]) /\ t.told = {"reloadFailed"} /\ t \in Records
    BY <1>2, <2>1, <2>2, ToldSet DEF Kept
  <2> QED
    BY <1>1, <1>3, <2>1, <2>3, EditGoesOn
<1>4. ASSUME NEW l \in {"editRemove", "editAdd"}, Commands!Quietly(c, Commands!Goto(c, l))
      PROVE  CommandsInv'
  <2>1. PICK r : r = Commands!Goto(c, l)
    OBVIOUS
  <2>2. Kept(r, cli[c]) /\ r.at = l /\ r.told = {} /\ r \in Records
    BY <1>2, <2>1, GotoIs DEF Labels, EditStages, Kept
  <2> QED
    BY <1>1, <1>4, <2>1, <2>2, EditGoes DEF EditStages
<1>5. \/ Commands!Quietly(c, Commands!AfterReload(c, Commands!Tell(cli[c], "reloadFailed")))
      \/ Commands!Quietly(c, Commands!Goto(c, IF Commands!EditKey(c) \in Commands!Rows THEN "editRemove" ELSE "editAdd"))
  BY DEF Commands!EditList
<1> QED
  BY <1>3, <1>4, <1>5

LEMMA EditRemoveSteps ==
  ASSUME CommandsInv, NEW c \in Client, Commands!EditRemove(c)
  PROVE  CommandsInv'
<1>1. /\ cli[c].at = "editRemove"
      /\ cli[c].at \in EditStages \ {"editComment", "editAdd"}
  BY DEF Commands!EditRemove, Commands!At, EditStages
<1>2. /\ cli[c] \in Records /\ InStep(cli[c]) /\ EditSoFar(c) /\ FilesAhead(c)
      /\ Commands!Command(c).verb = "edit" /\ Commands!EditKey(c) \in Key /\ cli[c].told = {}
  BY <1>1, EditUnderWay
<1>3. PICK r : r = Commands!Goto(c, "editAdd")
  OBVIOUS
<1>4. Kept(r, cli[c]) /\ r.at = "editAdd" /\ r.told = {} /\ r \in Records
  BY <1>2, <1>3, GotoIs DEF Labels, EditStages, Kept
<1>5. CASE Commands!NoChange /\ Commands!Quietly(c, r)
  BY <1>1, <1>4, <1>5, EditGoes DEF EditStages
<1>6. CASE Commands!Take(c, Commands!EditKey(c)) /\ Commands!Visibly(c, r)
  <2>1. InStep(r)
    BY <1>1, <1>2, <1>4, StaysInStep DEF Classes, EditStages
  <2>2. /\ file' = file /\ pub' = pub /\ served' = served
        /\ \A v \in Commands!Holder, j \in Key :
             v # served \/ j # Commands!EditKey(c) => store'[v][j] = store[v][j]
        /\ \A v \in Commands!Holder, j \in Key :
             v # served \/ j # Commands!EditKey(c) => took'[v][j] = took[v][j]
    BY <1>2, <1>6, OwnRecord, TakeEffect
  <2>3. ASSUME cli'[c] = r PROVE CommandInv(c)'
    <3>1. Commands!Command(c)' = Commands!Command(c) /\ Commands!EditKey(c)' = Commands!EditKey(c) /\ r.cut = cli[c].cut
      BY <1>4, <2>3, SameRequest DEF Kept
    <3>2. ASSUME NEW v \in Commands!Holder, NEW k \in Key, took'[v][k] = c, store'[v][k] = None, ~r.cut
          PROVE  k = Commands!EditKey(c)
      BY <1>1, <1>2, <2>2, <3>1, <3>2 DEF EditSoFar, Commands!At
    <3>3. EditSoFar(c)'
      BY <1>2, <1>4, <2>3, <3>1, <3>2 DEF EditSoFar, Commands!At
    <3>4. FilesAhead(c)'
      BY <1>1, <1>2, <1>4, <2>2, <2>3, <3>1 DEF FilesAhead, Commands!At
    <3>5. \A v \in Commands!Holder, k \in Key : took'[v][k] = c => took[v][k] = c \/ v = served
      BY <2>2
    <3> QED
      BY <1>2, <1>4, <2>1, <2>2, <2>3, <3>3, <3>4, <3>5, EditStep
  <2> QED
    BY <1>2, <1>4, <1>6, <2>3, TakeKeeps
<1> QED
  BY <1>3, <1>5, <1>6 DEF Commands!EditRemove

LEMMA EditAddSteps ==
  ASSUME CommandsInv, NEW c \in Client, Commands!EditAdd(c)
  PROVE  CommandsInv'
<1>1. cli[c].at = "editAdd" /\ cli[c].at \in EditStages
  BY DEF Commands!EditAdd, Commands!At, EditStages
<1>2. /\ cli[c] \in Records /\ InStep(cli[c]) /\ EditSoFar(c) /\ FilesAhead(c)
      /\ TakesFromServed(c)
      /\ Commands!Command(c).verb = "edit" /\ Commands!EditKey(c) \in Key /\ cli[c].told = {}
  BY <1>1, EditUnderWay
<1>3. ASSUME NEW w \in Words, NEW r, r = Commands!AfterReload(c, Commands!Tell(cli[c], w))
      PROVE  /\ Kept(r, cli[c]) /\ r \in Records /\ r.at \in {"editComment", "ended"}
             /\ r.told = {w} /\ InStep(r)
  <2>1. PICK t : t = Commands!Tell(cli[c], w)
    OBVIOUS
  <2>2. Kept(t, cli[c]) /\ t.told = {w} /\ t \in Records
    BY <1>2, <2>1, ToldSet DEF Kept
  <2>3. Kept(r, t) /\ r.at \in {"editComment", "ended"} /\ r.told = t.told
    BY <1>3, <2>1, <2>2, AfterReloadIs
  <2>4. Kept(r, cli[c]) /\ r \in Records
    BY <2>2, <2>3, KeptOn DEF Kept
  <2>5. InStep(r)
    BY <1>1, <1>2, <2>3, <2>4, StaysInStep DEF Classes, EditStages
  <2> QED
    BY <2>2, <2>3, <2>4, <2>5
<1>4. CASE Commands!NoChange /\ Commands!Quietly(c, Commands!AfterReload(c, Commands!ReloadError(c)))
  <2>1. PICK r : r = Commands!AfterReload(c, Commands!Tell(cli[c], "reloadFailed"))
    OBVIOUS
  <2>2. /\ Kept(r, cli[c]) /\ r \in Records /\ r.at \in {"editComment", "ended"}
        /\ r.told = {"reloadFailed"} /\ InStep(r)
    BY <1>3, <2>1 DEF Words
  <2>3. r.at \notin EditStages \ {"editComment"}
    BY <2>2 DEF EditStages
  <2>4. Commands!Quietly(c, r)
    BY <1>4, <2>1 DEF Commands!ReloadError
  <2> QED
    BY <1>1, <1>2, <1>4, <2>2, <2>3, <2>4, EditQuietly
<1>5. CASE /\ store' = [store EXCEPT ![served][Commands!EditKey(c)] =
                          [comment |-> Commands!ReAddComment(Commands!EditKey(c)), autoload |-> TRUE]]
           /\ UNCHANGED <<served, locked, shown, hidden, Commands!files, took>>
           /\ Commands!Visibly(c, Commands!AfterReload(c, Commands!Tell(cli[c], "reloaded")))
  <2>1. PICK r : r = Commands!AfterReload(c, Commands!Tell(cli[c], "reloaded"))
    OBVIOUS
  <2>2. /\ Kept(r, cli[c]) /\ r \in Records /\ r.at \in {"editComment", "ended"}
        /\ r.told = {"reloaded"} /\ InStep(r)
    BY <1>3, <2>1 DEF Words
  <2>3. AgentTypes /\ FileTypes
    BY OwnRecord
  <2>4. PICK i \in Commands!Identities : /\ store' = [store EXCEPT ![served][Commands!EditKey(c)] = i]
                                /\ i.comment = file[Commands!EditKey(c)]
    <3>1. file[Commands!EditKey(c)] \in {"old", "new"}
      BY <1>2, <2>3 DEF FileTypes
    <3>2. [comment |-> file[Commands!EditKey(c)], autoload |-> TRUE] \in Commands!Identities
      BY <3>1 DEF Commands!Identities
    <3> QED
      BY <1>5, <3>2 DEF Commands!ReAddComment
  <2>5. /\ store'[served][Commands!EditKey(c)] = i
        /\ \A v \in Commands!Holder, j \in Key :
             v # served \/ j # Commands!EditKey(c) => store'[v][j] = store[v][j]
    BY <1>2, <2>3, <2>4, Stored
  <2>6. i # None
    BY CommandsAssumption DEF Commands!NamesDiffer
  <2>7. file' = file /\ pub' = pub /\ served' = served /\ took' = took
    BY <1>5 DEF Commands!files
  <2>8. ASSUME cli'[c] = r PROVE CommandInv(c)'
    <3>1. Commands!Command(c)' = Commands!Command(c) /\ Commands!EditKey(c)' = Commands!EditKey(c) /\ r.cut = cli[c].cut
      BY <2>2, <2>8, SameRequest DEF Kept
    <3>2. ASSUME NEW v \in Commands!Holder, NEW k \in Key, took'[v][k] = c, store'[v][k] = None, ~r.cut
          PROVE  FALSE
      <4>1. v # served \/ k # Commands!EditKey(c)
        BY <2>5, <2>6, <3>2
      <4>2. took[v][k] = c /\ store[v][k] = None /\ ~cli[c].cut
        BY <2>5, <2>7, <3>1, <3>2, <4>1
      <4>3. k = Commands!EditKey(c)
        BY <1>2, <4>2 DEF EditSoFar, Commands!At
      <4>4. served = v
        BY <1>2, <4>2 DEF TakesFromServed
      <4> QED
        BY <4>1, <4>3, <4>4
    <3>3. EditSoFar(c)'
      <4>1. Commands!Command(c).keys # {}
        BY <1>2 DEF EditSoFar
      <4>2. r.at \notin EditStages \ {"editComment"}
        BY <2>2 DEF EditStages
      <4> QED
        BY <2>8, <3>1, <3>2, <4>1, <4>2 DEF EditSoFar, Commands!At
    <3>4. ~Commands!Command(c).on => file[Commands!EditKey(c)] = "new" /\ pub[Commands!EditKey(c)] = "new"
      BY <1>1, <1>2 DEF FilesAhead, Commands!At
    <3>5. FilesAhead(c)'
      BY <2>4, <2>5, <2>6, <2>7, <2>8, <3>1, <3>4 DEF FilesAhead
    <3> QED
      BY <1>2, <2>2, <2>7, <2>8, <3>3, <3>5, EditStep
  <2>9. Commands!Visibly(c, r)
    BY <1>5, <2>1
  <2> QED
    <3>1. UNCHANGED <<served, locked, shown, hidden, Commands!files, took>>
      BY <1>5
    <3>2. store' = [store EXCEPT ![served][Commands!EditKey(c)] = i]
      BY <2>4
    <3> QED
      BY <1>2, <2>2, <2>8, <2>9, <3>1, <3>2, StoredKeeps
<1> QED
  BY <1>4, <1>5 DEF Commands!EditAdd

LEMMA EditCommentSteps ==
  ASSUME CommandsInv, NEW c \in Client, Commands!EditComment(c)
  PROVE  CommandsInv'
<1>1. cli[c].at = "editComment" /\ cli[c].at \in EditStages
  BY DEF Commands!EditComment, Commands!At, EditStages
<1>2. /\ cli[c] \in Records /\ InStep(cli[c]) /\ EditSoFar(c) /\ FilesAhead(c)
      /\ Commands!Command(c).verb = "edit" /\ Commands!EditKey(c) \in Key
  BY <1>1, EditUnderWay
<1>3. ASSUME NEW w \in Words, NEW r, r = Commands!End(Commands!Tell(cli[c], w))
      PROVE  /\ Kept(r, cli[c]) /\ r \in Records /\ r.at = "ended"
             /\ r.told = cli[c].told \cup {w} /\ InStep(r)
  <2>1. Kept(r, cli[c]) /\ r.at = "ended" /\ r.told = cli[c].told \cup {w}
    BY <1>2, <1>3, FailedIs
  <2> QED
    BY <1>2, <2>1, StaysInStep DEF Kept
<1>4. CASE Commands!NoChange /\ Commands!Quietly(c, Commands!End(Commands!Tell(cli[c], "syncFailed")))
  <2>1. PICK r : r = Commands!End(Commands!Tell(cli[c], "syncFailed"))
    OBVIOUS
  <2>2. /\ Kept(r, cli[c]) /\ r \in Records /\ r.at = "ended"
        /\ r.told = cli[c].told \cup {"syncFailed"} /\ InStep(r)
    BY <1>3, <2>1 DEF Words
  <2>3. r.at \notin EditStages
    BY <2>2 DEF EditStages
  <2>4. Commands!Quietly(c, r)
    BY <1>4, <2>1
  <2> QED
    BY <1>1, <1>2, <1>4, <2>2, <2>3, <2>4, EditQuietly
<1>5. CASE /\ Commands!Status(c, Commands!EditKey(c)) = "ok"
           /\ store' = [store EXCEPT ![served][Commands!EditKey(c)].comment = "new"]
           /\ UNCHANGED <<served, locked, shown, hidden, Commands!files, took>>
           /\ Commands!Visibly(c, Commands!End(Commands!Tell(cli[c], "synced")))
  <2>1. PICK r : r = Commands!End(Commands!Tell(cli[c], "synced"))
    OBVIOUS
  <2>2. /\ Kept(r, cli[c]) /\ r \in Records /\ r.at = "ended"
        /\ r.told = cli[c].told \cup {"synced"} /\ InStep(r)
    BY <1>3, <2>1 DEF Words
  <2>3. AgentTypes /\ FileTypes
    BY OwnRecord
  <2>4. store[served][Commands!EditKey(c)] # None /\ store[served][Commands!EditKey(c)] \in Commands!Identities
    BY <1>2, <1>5, <2>3, StatusTells DEF AgentTypes, StoreTypes
  <2>5. PICK i \in Commands!Identities : i = [store[served][Commands!EditKey(c)] EXCEPT !.comment = "new"]
    BY <2>4 DEF Commands!Identities
  <2>6. i.comment = "new" /\ i # None
    BY <2>4, <2>5, CommandsAssumption DEF Commands!Identities, Commands!NamesDiffer
  <2>7. store' = [store EXCEPT ![served][Commands!EditKey(c)] = i]
    BY <1>5, <2>5
  <2>8. /\ store'[served][Commands!EditKey(c)] = i
        /\ \A v \in Commands!Holder, j \in Key :
             v # served \/ j # Commands!EditKey(c) => store'[v][j] = store[v][j]
    BY <1>2, <2>3, <2>7, Stored
  <2>9. file' = file /\ pub' = pub /\ served' = served /\ took' = took
    BY <1>5 DEF Commands!files
  <2>10. ASSUME cli'[c] = r PROVE CommandInv(c)'
    <3>1. Commands!Command(c)' = Commands!Command(c) /\ Commands!EditKey(c)' = Commands!EditKey(c) /\ r.cut = cli[c].cut
      BY <2>2, <2>10, SameRequest DEF Kept
    <3>2. ASSUME NEW v \in Commands!Holder, NEW k \in Key, took'[v][k] = c, store'[v][k] = None, ~r.cut
          PROVE  "reloadFailed" \in r.told
      <4>1. took[v][k] = c /\ store[v][k] = None /\ ~cli[c].cut
        BY <2>6, <2>8, <2>9, <3>1, <3>2
      <4>2. "reloadFailed" \in cli[c].told
        BY <1>1, <1>2, <4>1 DEF EditSoFar, Commands!At
      <4> QED
        BY <2>2, <4>2
    <3>3. EditSoFar(c)'
      <4>1. Commands!Command(c).keys # {}
        BY <1>2 DEF EditSoFar
      <4>2. r.at \notin EditStages
        BY <2>2 DEF EditStages
      <4> QED
        BY <2>10, <3>1, <3>2, <4>1, <4>2 DEF EditSoFar, Commands!At
    <3>4. ~Commands!Command(c).on /\ "error" \notin r.told =>
            file[Commands!EditKey(c)] = "new" /\ pub[Commands!EditKey(c)] = "new"
      BY <1>1, <1>2, <2>2 DEF FilesAhead, Commands!At
    <3>5. FilesAhead(c)'
      BY <2>6, <2>8, <2>9, <2>10, <3>1, <3>4 DEF FilesAhead
    <3> QED
      BY <1>2, <2>2, <2>9, <2>10, <3>3, <3>5, EditStep
  <2>11. Commands!Visibly(c, r)
    BY <1>5, <2>1
  <2> QED
    BY <1>2, <1>5, <2>2, <2>7, <2>10, <2>11, StoredKeeps
<1> QED
  BY <1>4, <1>5 DEF Commands!EditComment

(* A terminal begins a command, and the environment moves. *)
LEMMA BegunIs ==
  ASSUME FileTypes, NEW r \in Commands!Requests, NEW s,
         s = [Commands!Idle EXCEPT !.req = r, !.at = Commands!FirstStep(r.verb), !.cfg = config, !.todo = r.keys]
  PROVE  /\ s \in Records /\ s.req = r /\ s.at = Commands!FirstStep(r.verb) /\ s.told = {}
         /\ s.done = {} /\ ~s.cut /\ s.prompted = NoVault
         /\ InStep(s)
         /\ r.verb = "edit" => s.at = "editFile"
         /\ r.verb = "reload" => s.at = "reloadList"
<1>1. r.keys \in SUBSET Key
  BY RequestIs
<1>2. r.verb \in {"edit", "reload", "add", "remove", "lock", "unlock", "unlockRecovery"}
                    \cup Commands!VaultVerbs
  BY DEF Commands!Requests, Commands!VaultVerbs
<1>3. /\ Commands!FirstStep(r.verb) \in Labels
      /\ r.verb = "edit" => Commands!FirstStep(r.verb) = "editFile"
      /\ r.verb = "reload" => Commands!FirstStep(r.verb) = "reloadList"
  BY <1>2 DEF Commands!FirstStep, Labels, EditStages, ReloadStages, ListStages, VaultStages,
     LockStages,
     Commands!VaultVerbs
<1>4. /\ s.req = r /\ s.at = Commands!FirstStep(r.verb) /\ s.cfg = config /\ s.mode = "keys" /\ s.seen = {}
      /\ s.todo = r.keys /\ s.drop = {} /\ s.told = {} /\ s.done = {} /\ ~s.cut
      /\ s.prompted = NoVault
  BY DEF Commands!Idle
<1>5. s \in Records
  BY <1>1, <1>3 DEF FileTypes, Commands!Idle, Records, Commands!Holder
<1>6. InStep(s)
  BY <1>2, <1>4
     DEF InStep, Commands!FirstStep, EditStages, ReloadStages, ListStages, VaultStages,
     LockStages, Commands!VaultVerbs
<1> QED
  BY <1>3, <1>4, <1>5, <1>6

LEMMA CommandBegins ==
  ASSUME CommandsInv, NEW c \in Client, Commands!Begin(c)
  PROVE  CommandsInv'
<1> USE DEF CommandsInv
<1>1. PICK r \in Commands!Requests :
        cli' = [cli EXCEPT ![c] = [Commands!Idle EXCEPT !.req = r, !.at = Commands!FirstStep(r.verb),
                                              !.cfg = config, !.todo = r.keys]]
  BY DEF Commands!Begin
<1>2. PICK s : s = [Commands!Idle EXCEPT !.req = r, !.at = Commands!FirstStep(r.verb), !.cfg = config,
                               !.todo = r.keys]
  OBVIOUS
<1>4. /\ s \in Records /\ s.req = r /\ s.at = Commands!FirstStep(r.verb) /\ s.told = {}
      /\ s.done = {} /\ ~s.cut /\ s.prompted = NoVault /\ InStep(s)
      /\ r.verb = "edit" => s.at = "editFile"
      /\ r.verb = "reload" => s.at = "reloadList"
  BY <1>2, BegunIs
<1>5. cli'[c] = s /\ RecordTypes' /\ \A d \in Client \ {c} : cli'[d] = cli[d]
  BY <1>1, <1>2, <1>4 DEF RecordTypes
<1>6. /\ UNCHANGED <<config, Commands!agent, readable, Commands!files>>
      /\ took' = [v \in Commands!Holder |-> [k \in Key |-> IF took[v][k] = c THEN None ELSE took[v][k]]]
  BY DEF Commands!Begin
<1>7. /\ TookTypes'
      /\ \A v \in Commands!Holder, k \in Key : took'[v][k] # c
      /\ \A d \in Client, v \in Commands!Holder, k \in Key : took'[v][k] = d => took[v][k] = d
  BY <1>6, CommandsAssumption DEF AgentTypes, TookTypes, Commands!NamesDiffer
<1>8. AgentTypes' /\ FileTypes'
  BY <1>6, <1>7 DEF AgentTypes, StoreTypes, FileTypes, Commands!agent, Commands!files
<1>9. CommandInv(c)'
  <2>2. Commands!Command(c)' = r
    BY <1>4, <1>5 DEF Commands!Command
  <2>3. r.verb = "edit" => r.keys # {}
    BY RequestIs
  <2>4. InStep(cli[c])' /\ TakesFromServed(c)'
    BY <1>4, <1>5, <1>7 DEF InStep, TakesFromServed
  <2>5. EditSoFar(c)' /\ FilesAhead(c)'
    BY <1>4, <1>5, <1>7, <2>2, <2>3 DEF EditSoFar, FilesAhead, Commands!At
  <2>6. ReloadSpares(c)' /\ ReloadSoFar(c)'
    BY <1>4, <1>5, <1>7, <2>2 DEF ReloadSpares, ReloadSoFar, Commands!At, Commands!Holder
  <2>7. VerbSoFar(c)'
    <3>1. r.verb \in Commands!VaultVerbs => s.at = "vaultOpen"
      BY <1>4 DEF Commands!FirstStep, Commands!VaultVerbs
    <3> QED
      BY <1>4, <1>5, <2>2, <3>1 DEF VerbSoFar, Commands!At
  <2> QED
    BY <2>4, <2>5, <2>6, <2>7 DEF CommandInv
<1>10. ASSUME NEW d \in Client, d # c PROVE CommandInv(d)'
  <2>1. CommandInv(d) /\ cli'[d] = cli[d] /\ UNCHANGED <<Commands!agent, Commands!files>>
    BY <1>5, <1>6, <1>10
  <2>2. \A v \in Commands!Holder, k \in Key : took'[v][k] = d => took[v][k] = d
    BY <1>7
  <2> QED
    BY <2>1, <2>2, Undisturbed
<1> QED
  BY <1>5, <1>8, <1>9, <1>10

LEMMA ConfigEdits ==
  ASSUME CommandsInv, Commands!EditConfig \/ Commands!VaultFileBreaks
  PROVE  CommandsInv'
<1> USE DEF CommandsInv
<1>1. UNCHANGED <<Commands!agent, Commands!files, cli, took>>
  BY DEF Commands!EditConfig, Commands!VaultFileBreaks, Commands!Event
<1>2. UNCHANGED <<served, locked, store, shown, hidden, file, pub, cli, took>>
  BY <1>1 DEF Commands!agent, Commands!files
<1>3. AgentTypes' /\ RecordTypes'
  BY <1>2 DEF AgentTypes, StoreTypes, TookTypes, RecordTypes
<1>4. FileTypes'
  <2>1. CASE Commands!EditConfig
    BY <1>2, <2>1 DEF Commands!EditConfig, FileTypes
  <2>2. CASE Commands!VaultFileBreaks
    BY <1>2, <2>2 DEF Commands!VaultFileBreaks, FileTypes
  <2> QED
    BY <2>1, <2>2
<1>5. ASSUME NEW d \in Client PROVE CommandInv(d)'
  <2>1. CommandInv(d) /\ cli'[d] = cli[d] /\ UNCHANGED <<Commands!agent, Commands!files>>
    BY <1>1
  <2>2. \A v \in Commands!Holder, k \in Key : took'[v][k] = d => took[v][k] = d
    BY <1>2
  <2> QED
    BY <2>1, <2>2, Undisturbed
<1> QED
  BY <1>3, <1>4, <1>5

(* The promises of a command that a restart cut off are void, but for what it knows of
   its own request. *)
LEMMA CutOff ==
  ASSUME NEW d \in Client, CommandInv(d), cli[d] \in Records,
         cli'[d] = [cli[d] EXCEPT !.cut = TRUE, !.alone = FALSE],
         UNCHANGED <<Commands!files, took>>
  PROVE  CommandInv(d)'
<1> DEFINE s == [cli[d] EXCEPT !.cut = TRUE, !.alone = FALSE]
<1>0. /\ cli'[d] = s
      /\ s.req = cli[d].req /\ s.cfg = cli[d].cfg /\ s.cut /\ ~s.alone
      /\ s.at = cli[d].at /\ s.told = cli[d].told /\ s.done = cli[d].done
      /\ s.todo = cli[d].todo /\ s.prompted = cli[d].prompted
  BY SessionLost
<1> HIDE DEF s
<1>1. Commands!Command(d)' = Commands!Command(d) /\ Commands!EditKey(d)' = Commands!EditKey(d)
  BY <1>0, SameRequest
<1> USE <1>0, <1>1 DEF CommandInv, Commands!At, Commands!files
<1>2. InStep(cli[d])' /\ TakesFromServed(d)'
  BY DEF InStep, TakesFromServed
<1>3. EditSoFar(d)' /\ FilesAhead(d)'
  BY DEF EditSoFar, FilesAhead
<1>4. ReloadSpares(d)' /\ ReloadSoFar(d)'
  BY DEF ReloadSpares, ReloadSoFar
<1>5. VerbSoFar(d)'
  BY DEF VerbSoFar
<1> QED
  BY <1>2, <1>3, <1>4, <1>5

LEMMA RestartSteps ==
  ASSUME CommandsInv, Commands!Restart
  PROVE  CommandsInv'
<1> USE DEF CommandsInv
<1>1. /\ served' = config.vault /\ locked' \in BOOLEAN /\ shown' = {} /\ hidden' = {}
      /\ UNCHANGED <<config, readable, file, pub, took>>
      /\ cli' = [c \in Client |-> [cli[c] EXCEPT !.cut = TRUE, !.alone = FALSE]]
  BY DEF Commands!Restart, Commands!Event, Commands!Everybody, Commands!files
<1>2. StoreTypes'
  <2> DEFINE kept == [k \in Key |-> IF config.vault = NoVault /\ k \in config.keyPaths
                                    THEN [comment |-> file[k], autoload |-> TRUE] ELSE None]
  <2>1. ASSUME NEW k \in Key PROVE [comment |-> file[k], autoload |-> TRUE] \in Commands!Identities
    BY DEF FileTypes, Commands!Identities
  <2>2. kept \in [Key -> Commands!Identities \cup {None}]
    BY <2>1
  <2>3. store' = [store EXCEPT ![NoVault] = kept]
    BY DEF Commands!Restart
  <2> HIDE DEF kept
  <2> QED
    BY <2>2, <2>3 DEF AgentTypes, StoreTypes, Commands!Holder
<1>3. AgentTypes' /\ FileTypes'
  BY <1>1, <1>2 DEF AgentTypes, TookTypes, FileTypes
<1>4. ASSUME NEW d \in Client
      PROVE  /\ cli[d] \in Records
             /\ [cli[d] EXCEPT !.cut = TRUE, !.alone = FALSE] \in Records
  BY SessionLost DEF RecordTypes
<1>5. RecordTypes'
  BY <1>1, <1>4 DEF RecordTypes
<1>6. ASSUME NEW d \in Client PROVE CommandInv(d)'
  <2>1. /\ CommandInv(d) /\ cli[d] \in Records
        /\ cli'[d] = [cli[d] EXCEPT !.cut = TRUE, !.alone = FALSE]
    BY <1>1, <1>4
  <2> QED
    BY <1>1, <2>1, CutOff DEF Commands!files
<1> QED
  BY <1>3, <1>5, <1>6

LEMMA SessionUnloads ==
  ASSUME CommandsInv, NEW k \in Key, Commands!SessionUnload(k)
  PROVE  CommandsInv'
<1> USE DEF CommandsInv
<1>1. /\ shown' = shown \ {k} /\ hidden' = hidden \cup {k}
      /\ UNCHANGED <<config, served, locked, store, readable, file, pub, took>>
      /\ cli' = [c \in Client |-> [cli[c] EXCEPT !.alone = FALSE]]
  BY DEF Commands!SessionUnload, Commands!Event, Commands!Everybody, Commands!files
<1>2. AgentTypes' /\ FileTypes'
  BY <1>1 DEF AgentTypes, StoreTypes, TookTypes, FileTypes
<1>3. ASSUME NEW d \in Client
      PROVE  cli[d] \in Records /\ [cli[d] EXCEPT !.alone = FALSE] \in Records
  BY AloneLost DEF RecordTypes
<1>4. RecordTypes'
  BY <1>1, <1>3 DEF RecordTypes
<1>5. ASSUME NEW d \in Client PROVE CommandInv(d)'
  <2>1. /\ CommandInv(d) /\ cli[d] \in Records
        /\ cli'[d] = [cli[d] EXCEPT !.alone = FALSE]
    BY <1>1, <1>3
  <2>2. FilesGrow
    BY <1>1 DEF FilesGrow
  <2> QED
    BY <1>1, <2>1, <2>2, Crossed
<1> QED
  BY <1>2, <1>4, <1>5

LEMMA CommandStep ==
  ASSUME CommandsInv, NEW c \in Client, Commands!Step(c)
  PROVE  CommandsInv'
BY EditFileSteps, EditPubSteps, EditProbeSteps, EditLoadedSteps, EditListSteps,
   EditRemoveSteps, EditAddSteps, EditCommentSteps,
   ReloadListSteps, ReloadWantSteps, ReloadAddSteps, ReloadRemoveSteps,
   AddListSteps, AddKeySteps, RemoveListSteps, RemoveFindSteps, RemoveKeySteps,
   VaultOpenSteps, VaultProbeSteps, VaultUnlockSteps, VaultOpSteps,
   LockProbeSteps, LockDoSteps
   DEF Commands!Step

LEMMA CommandsInit ==
  ASSUME Commands!Init
  PROVE  CommandsInv
<1> USE DEF Commands!Init
<1>1. Commands!FirstVault \in Vault
  BY CommandsAssumption DEF Commands!FirstVault, Commands!NamesDiffer
<1>2. served \in Commands!Holder /\ config \in [vault : Commands!Holder, keyPaths : SUBSET Key]
  BY <1>1 DEF Commands!Holder
<1>3. StoreTypes
  <2>1. PICK held \in SUBSET Key, auto \in {Key, {}} :
          store = [v \in Commands!Holder |->
            [k \in Key |->
               IF v \notin {Commands!FirstVault, NoVault} THEN [comment |-> "old", autoload |-> TRUE]
               ELSE IF v = served /\ k \in held THEN [comment |-> "old", autoload |-> k \in auto]
               ELSE None]]
    OBVIOUS
  <2>2. ASSUME NEW k \in Key
        PROVE  /\ [comment |-> "old", autoload |-> TRUE] \in Commands!Identities
               /\ [comment |-> "old", autoload |-> k \in auto] \in Commands!Identities
    BY DEF Commands!Identities
  <2> QED
    BY <2>1, <2>2 DEF StoreTypes
<1>4. TookTypes /\ \A v \in Commands!Holder, k \in Key : took[v][k] = None
  BY DEF TookTypes
<1>5. AgentTypes /\ FileTypes
  BY <1>2, <1>3, <1>4 DEF AgentTypes, FileTypes
<1>6. /\ Commands!Idle \in Records /\ Commands!Idle.req = Commands!NoRequest /\ Commands!Idle.at = "idle" /\ InStep(Commands!Idle)
  <2>1. Commands!Idle \in Records
    BY DEF Commands!Idle, Records, Labels, Commands!Holder
  <2> QED
    BY <2>1 DEF Commands!Idle, InStep, EditStages, ReloadStages, ListStages, VaultStages,
       LockStages
<1>7. RecordTypes /\ \A c \in Client : cli[c] = Commands!Idle
  BY <1>6 DEF RecordTypes
<1>8. ASSUME NEW c \in Client PROVE CommandInv(c)
  <2>1. cli[c] = Commands!Idle /\ Commands!Command(c).verb = "none"
    BY <1>6, <1>7 DEF Commands!Command, Commands!NoRequest
  <2>2. TakesFromServed(c)
    BY <1>4, CommandsAssumption DEF TakesFromServed, Commands!NamesDiffer
  <2> QED
    BY <1>6, <2>1, <2>2 DEF CommandInv, EditSoFar, FilesAhead, ReloadSpares, ReloadSoFar,
       VerbSoFar, Commands!VaultVerbs
<1> QED
  BY <1>5, <1>7, <1>8 DEF CommandsInv

LEMMA CommandsNext ==
  ASSUME CommandsInv, [Commands!Next]_commandVars
  PROVE  CommandsInv'
<1>1. CASE Commands!Next
  BY <1>1, CommandBegins, CommandStep, ConfigEdits, RestartSteps, SessionUnloads
     DEF Commands!Next
<1>2. CASE UNCHANGED commandVars
  <2>1. UNCHANGED <<config, Commands!agent, readable, Commands!files, cli, took>>
    BY <1>2 DEF commandVars, Commands!agent, Commands!files
  <2>2. UNCHANGED <<config, served, locked, store, shown, hidden, readable, file, pub, cli, took>>
    BY <1>2 DEF commandVars
  <2>3. AgentTypes' /\ FileTypes' /\ RecordTypes'
    BY <2>2 DEF CommandsInv, AgentTypes, StoreTypes, TookTypes, FileTypes, RecordTypes
  <2>4. ASSUME NEW d \in Client PROVE CommandInv(d)'
    <3>1. CommandInv(d)
      BY OwnRecord
    <3> QED
      BY <2>1, <2>2, <3>1, Undisturbed
  <2> QED
    BY <2>3, <2>4 DEF CommandsInv
<1> QED
  BY <1>1, <1>2

(* What every command has done and told so far, and what it knows of the agent, in every
   behaviour of the commands (ClientCommands). *)
THEOREM CommandsInvariance == Spec => []CommandsInv
<1>1. Init => CommandsInv
  BY CommandsInit DEF Init, NoCommand
<1>2. CommandsInv /\ [Commands!Next]_commandVars => CommandsInv'
  BY CommandsNext
<1> QED
  BY <1>1, <1>2, CommandSteps, PTL DEF Spec

(* An edit loses no identity in silence and leaves no two comments on one, whatever other
   terminals, the user's editor and a restart do between its requests
   (editcomment/sync.go:29-31, :87-123). *)
THEOREM EditsKeepTheirKeys == Spec => []EditKeepsKeys
<1>1. CommandsInv => Commands!EditTellsLoss
  <2>1. ASSUME CommandsInv, NEW c \in Client, NEW v \in Commands!Holder, NEW k \in Key,
               Commands!Ended(c, "edit"), took[v][k] = c, store[v][k] = None, ~cli[c].cut
        PROVE  "reloadFailed" \in cli[c].told
    <3>1. EditSoFar(c)
      BY <2>1, OwnRecord DEF CommandInv
    <3> QED
      BY <2>1, <3>1 DEF EditSoFar, Commands!Ended, Commands!At
  <2> QED
    BY <2>1 DEF Commands!EditTellsLoss
<1>2. CommandsInv => Commands!CommentsAgree
  <2>1. ASSUME CommandsInv, NEW c \in Client, Commands!Ended(c, "edit"), cli[c].alone, ~Commands!Command(c).on,
               cli[c].told # {}, cli[c].told \subseteq {"reloaded", "synced"}
        PROVE  /\ file[Commands!EditKey(c)] = "new" /\ pub[Commands!EditKey(c)] = "new"
               /\ store[served][Commands!EditKey(c)] # None /\ store[served][Commands!EditKey(c)].comment = "new"
    <3>1. FilesAhead(c)
      BY <2>1, OwnRecord DEF CommandInv
    <3>2. "error" \notin cli[c].told
      BY <2>1
    <3>3. "reloaded" \in cli[c].told \/ "synced" \in cli[c].told
      BY <2>1
    <3> QED
      BY <2>1, <3>1, <3>2, <3>3 DEF FilesAhead, Commands!Ended, Commands!At
  <2> QED
    BY <2>1 DEF Commands!CommentsAgree
<1> QED
  BY <1>1, <1>2, CommandsInvariance, PTL DEF EditKeepsKeys, Commands!EditKeepsKeys

(* A reload takes no identity out of the vault of its configuration, and what it leaves in
   the agent is what key_paths and that vault ask for, unless somebody crossed it
   (cli/reload.go:113-131, :173-198). *)
THEOREM ReloadsDoTheirPart == Spec => []ReloadDoesItsPart
<1>1. CommandsInv => Commands!ReloadSparesItsVault
  <2>1. ASSUME CommandsInv, NEW c \in Client PROVE ReloadSpares(c)
    BY <2>1, OwnRecord DEF CommandInv
  <2> QED
    BY <2>1 DEF ReloadSpares, Commands!ReloadSparesItsVault
<1>2. CommandsInv => Commands!ReloadReconciles
  <2>1. ASSUME CommandsInv, NEW c \in Client, Commands!Ended(c, "reload"), cli[c].alone,
               cli[c].told = {}
        PROVE  /\ ~locked => cli[c].cfg.keyPaths \subseteq Commands!Rows
               /\ \A k \in Commands!Rows : Accounted(c, k)
    <3>1. ReloadSoFar(c)
      BY <2>1, OwnRecord DEF CommandInv
    <3> QED
      BY <2>1, <3>1 DEF ReloadSoFar, Commands!Ended, Commands!At
  <2> QED
    BY <2>1 DEF Commands!ReloadReconciles, Accounted
<1> QED
  BY <1>1, <1>2, CommandsInvariance, PTL DEF ReloadDoesItsPart, Commands!ReloadDoesItsPart

(* The vault verbs ask for the passphrase of the vault they work on, and what they report
   as done is done when they end (vaultops/env.go:23-27, session.go:18-20). *)
THEOREM VerbsAreTrueToTheirWord == Spec => []VerbsKeepTheirWord
<1>1. CommandsInv => Commands!PromptsForOwnVault /\ Commands!VerbsReportTruth
  <2>1. ASSUME CommandsInv, NEW c \in Client PROVE VerbSoFar(c)
    BY <2>1, OwnRecord DEF CommandInv
  <2>2. ASSUME CommandsInv PROVE Commands!PromptsForOwnVault
    BY <2>1, <2>2 DEF VerbSoFar, Commands!PromptsForOwnVault
  <2>3. ASSUME CommandsInv, NEW c \in Client, Commands!Command(c).verb \in Commands!VaultVerbs, cli[c].alone,
               NEW k \in cli[c].done
        PROVE  IsSo(c, k)
    BY <2>1, <2>3 DEF VerbSoFar
  <2>4. ASSUME CommandsInv PROVE Commands!VerbsReportTruth
    BY <2>3, <2>4 DEF IsSo, Commands!VerbsReportTruth
  <2> QED
    BY <2>2, <2>4
<1> QED
  BY <1>1, CommandsInvariance, PTL DEF VerbsKeepTheirWord, Commands!VerbsKeepTheirWord

-----------------------------------------------------------------------------
(* AsksWhatAgentsDo: every request is an operation of AtomicVault, on the vault served. *)

AtomicStep(v) == Commands!AsAtomic(v)!Next \/ UNCHANGED Commands!AsAtomic(v)!avars

LEMMA NotServed ==
  ASSUME NEW v \in Vault, served # v, served' # v, store'[v] = store[v]
  PROVE  AtomicStep(v)
BY DEF AtomicStep, Commands!AsAtomic!avars

LEMMA NothingAsked ==
  ASSUME NEW v \in Vault, UNCHANGED <<served, locked, store, shown, hidden>>
  PROVE  AtomicStep(v)
BY DEF AtomicStep, Commands!AsAtomic!avars

Content == Commands!Identities \cup {None}

(* An identity put in, taken out or changed. *)
LEMMA ServedStore ==
  ASSUME AgentTypes, NEW k \in Key, NEW i, NEW v \in Vault, served = v,
         store' = [store EXCEPT ![served][k] = i]
  PROVE  store'[v] = [store[v] EXCEPT ![k] = i]
BY DEF AgentTypes, StoreTypes, Commands!Holder

LEMMA AtomicAt ==
  ASSUME AgentTypes, NEW k \in Key, NEW i \in Content, NEW v \in Vault,
         store'[v] = [store[v] EXCEPT ![k] = i]
  PROVE  /\ Commands!AsAtomic(v)!OnlyAt({k})
         /\ Commands!AsAtomic(v)!SavedAs("ok")
         /\ store'[v][k] = i
<1>1. store[v] \in [Key -> Content]
  BY DEF AgentTypes, StoreTypes, Content, Commands!Holder
<1>2. store'[v] \in [Key -> Commands!Identities \cup {None}]
  BY <1>1 DEF Content
<1> QED
  BY <1>1, <1>2
     DEF Commands!AsAtomic!OnlyAt, Commands!AsAtomic!SavedAs, Commands!AsAtomic!Holdings

LEMMA OtherVault ==
  ASSUME AgentTypes, NEW k \in Key, NEW i, NEW v \in Vault, served # v, served' = served,
         store' = [store EXCEPT ![served][k] = i]
  PROVE  AtomicStep(v)
BY NotServed DEF AgentTypes, StoreTypes, Commands!Holder

LEMMA AtomicAdd ==
  ASSUME AgentTypes, NEW k \in Key, NEW i \in Commands!Identities, NEW v \in Vault, ~locked,
         store' = [store EXCEPT ![served][k] = i],
         UNCHANGED <<served, locked, hidden>>,
         served = v => shown' = IF i.autoload THEN shown ELSE shown \cup {k}
  PROVE  AtomicStep(v)
<1>1. CASE served # v
  BY <1>1, OtherVault
<1>2. CASE served = v
  <2>1. i # None
    BY CommandsAssumption DEF Commands!NamesDiffer
  <2>2. Commands!AsAtomic(v)!Add(k, "ok")
    <3>1. i \in Content
      BY DEF Content
    <3>2. /\ Commands!AsAtomic(v)!OnlyAt({k})
          /\ Commands!AsAtomic(v)!SavedAs("ok")
          /\ store'[v][k] = i
      <4>1. store'[v] = [store[v] EXCEPT ![k] = i]
        BY <1>2, ServedStore
      <4> QED
        BY <3>1, <4>1, AtomicAt
    <3> QED
      BY <1>2, <2>1, <3>2 DEF Commands!AsAtomic!Add
  <2> QED
    BY <2>2 DEF AtomicStep, Commands!AsAtomic!Next, Commands!AsAtomic!SaveStatus
<1> QED
  BY <1>1, <1>2

LEMMA AtomicPut ==
  ASSUME AgentTypes, FileTypes, NEW k \in Key, NEW auto \in BOOLEAN, Commands!Put(k, auto),
         ~locked, NEW v \in Vault
  PROVE  AtomicStep(v)
<1>1. PICK i \in Commands!Identities :
        /\ i.autoload <=> (auto \/ served = NoVault)
        /\ store' = [store EXCEPT ![served][k] = i]
  <2>1. file[k] \in {"old", "new"}
    BY DEF FileTypes
  <2>2. [comment |-> file[k], autoload |-> auto \/ served = NoVault] \in Commands!Identities
    BY <2>1 DEF Commands!Identities
  <2> QED
    BY <2>2 DEF Commands!Put
<1>2. UNCHANGED <<served, locked, hidden>>
  BY DEF Commands!Put
<1>3. served = v => shown' = IF i.autoload THEN shown ELSE shown \cup {k}
  <2>1. v # NoVault
    BY CommandsAssumption DEF Commands!NamesDiffer
  <2> QED
    BY <1>1, <2>1 DEF Commands!Put
<1> QED
  BY <1>1, <1>2, <1>3, AtomicAdd

LEMMA AtomicTake ==
  ASSUME AgentTypes, NEW c \in Client, NEW k \in Key, Commands!Take(c, k), ~locked,
         store[served][k] # None, NEW v \in Vault
  PROVE  AtomicStep(v)
<1>1. store' = [store EXCEPT ![served][k] = None]
      /\ shown' = shown \ {k} /\ hidden' = hidden \ {k}
      /\ UNCHANGED <<served, locked>>
  BY DEF Commands!Take
<1>2. CASE served # v
  BY <1>1, <1>2, OtherVault
<1>3. CASE served = v
  <2>1. Commands!AsAtomic(v)!Drop({k}, "ok")
    <3>1. /\ Commands!AsAtomic(v)!OnlyAt({k})
          /\ Commands!AsAtomic(v)!SavedAs("ok")
          /\ store'[v][k] = None
      <4>1. store'[v] = [store[v] EXCEPT ![k] = None] /\ None \in Content
        BY <1>1, <1>3, ServedStore DEF Content
      <4> QED
        BY <4>1, AtomicAt
    <3> QED
      BY <1>1, <1>3, <3>1 DEF Commands!AsAtomic!Drop
  <2>2. Commands!AsAtomic(v)!Remove(k, "ok")
    BY <1>3, <2>1 DEF Commands!AsAtomic!Remove, Commands!AsAtomic!Holds
  <2> QED
    BY <2>2 DEF AtomicStep, Commands!AsAtomic!Next, Commands!AsAtomic!SaveStatus
<1> QED
  BY <1>2, <1>3

LEMMA AtomicComment ==
  ASSUME AgentTypes, NEW k \in Key, ~locked, store[served][k] # None,
         store' = [store EXCEPT ![served][k].comment = "new"],
         UNCHANGED <<served, locked, shown, hidden>>, NEW v \in Vault
  PROVE  AtomicStep(v)
<1>1. store[served][k] \in Commands!Identities
  BY DEF AgentTypes, StoreTypes
<1>2. PICK i \in Commands!Identities : i = [store[served][k] EXCEPT !.comment = "new"]
  BY <1>1 DEF Commands!Identities
<1>3. store' = [store EXCEPT ![served][k] = i]
  BY <1>2
<1>4. CASE served # v
  BY <1>3, <1>4, OtherVault
<1>5. CASE served = v
  <2>1. store'[v] = [store[v] EXCEPT ![k] = i] /\ Commands!AsAtomic(v)!SavedAs("ok")
    <3>1. store'[v] = [store[v] EXCEPT ![k] = i]
      <4>1. store[served] \in [Key -> Commands!Identities \cup {None}] /\ served \in DOMAIN store
        BY <1>5 DEF AgentTypes, StoreTypes, Commands!Holder
      <4>2. store'[served] = [store[served] EXCEPT ![k] = i]
        BY <1>3, <4>1
      <4> QED
        BY <1>5, <4>2
    <3>2. i \in Content
      BY DEF Content
    <3> QED
      BY <3>1, <3>2, AtomicAt
  <2>2. CASE store[served][k].comment = "new"
    <3>1. i = store[served][k]
      BY <1>1, <1>2, <2>2 DEF Commands!Identities
    <3>2. store' = store
      BY <1>3, <3>1 DEF AgentTypes, StoreTypes
    <3> QED
      BY <3>2, NothingAsked
  <2>3. CASE store[served][k].comment # "new"
    <3>1. store'[v] = [store[v] EXCEPT ![k].comment = "new"]
      BY <1>2, <1>5, <2>1
    <3>2. Commands!AsAtomic(v)!SetComment(k, "new", "ok")
      BY <1>5, <2>1, <2>3, <3>1 DEF Commands!AsAtomic!SetComment, Commands!AsAtomic!Holds
    <3> QED
      BY <3>2 DEF AtomicStep, Commands!AsAtomic!Next, Commands!AsAtomic!SaveStatus
  <2> QED
    BY <2>2, <2>3
<1> QED
  BY <1>4, <1>5

LEMMA AtomicAutoload ==
  ASSUME AgentTypes, NEW k \in Key, NEW on \in BOOLEAN, ~locked, store[served][k] # None,
         store[served][k].autoload # on,
         store' = [store EXCEPT ![served][k].autoload = on],
         hidden' = hidden \ {k}, shown' = IF on THEN shown \ {k} ELSE shown,
         UNCHANGED <<served, locked>>, NEW v \in Vault
  PROVE  AtomicStep(v)
<1>1. store[served][k] \in Commands!Identities
  BY DEF AgentTypes, StoreTypes
<1>2. PICK i \in Commands!Identities : i = [store[served][k] EXCEPT !.autoload = on]
  BY <1>1 DEF Commands!Identities
<1>3. store' = [store EXCEPT ![served][k] = i]
  BY <1>2
<1>4. CASE served # v
  BY <1>3, <1>4, OtherVault
<1>5. CASE served = v
  <2>1. store'[v] = [store[v] EXCEPT ![k] = i] /\ Commands!AsAtomic(v)!SavedAs("ok")
    <3>1. store'[v] = [store[v] EXCEPT ![k] = i]
      <4>1. store[served] \in [Key -> Commands!Identities \cup {None}] /\ served \in DOMAIN store
        BY <1>5 DEF AgentTypes, StoreTypes, Commands!Holder
      <4>2. store'[served] = [store[served] EXCEPT ![k] = i]
        BY <1>3, <4>1
      <4> QED
        BY <1>5, <4>2
    <3>2. i \in Content
      BY DEF Content
    <3> QED
      BY <3>1, <3>2, AtomicAt
  <2>2. store'[v] = [store[v] EXCEPT ![k].autoload = on]
    BY <1>2, <1>5, <2>1
  <2>3. Commands!AsAtomic(v)!SetAutoload(k, on, "ok")
    BY <1>5, <2>1, <2>2 DEF Commands!AsAtomic!SetAutoload, Commands!AsAtomic!Holds
  <2> QED
    BY <2>3 DEF AtomicStep, Commands!AsAtomic!Next, Commands!AsAtomic!SaveStatus
<1> QED
  BY <1>4, <1>5

LEMMA AtomicLoad ==
  ASSUME AgentTypes, NEW k \in Key, ~locked, store[served][k] # None,
         UNCHANGED <<served, locked, store>>, NEW v \in Vault,
         \/ /\ hidden' = hidden \ {k}
            /\ shown' = IF store[served][k].autoload THEN shown ELSE shown \cup {k}
         \/ shown' = shown \ {k} /\ hidden' = hidden \cup {k}
  PROVE  AtomicStep(v)
<1>1. CASE served # v
  BY <1>1, NotServed
<1>2. CASE served = v
  <2>1. Commands!AsAtomic(v)!SessionLoad(k) \/ Commands!AsAtomic(v)!SessionUnload(k)
    BY <1>2 DEF Commands!AsAtomic!SessionLoad, Commands!AsAtomic!SessionUnload,
       Commands!AsAtomic!Holds
  <2> QED
    BY <2>1 DEF AtomicStep, Commands!AsAtomic!Next
<1> QED
  BY <1>1, <1>2

LEMMA AtomicLocks ==
  ASSUME AgentTypes, UNCHANGED <<served, store, shown, hidden>>, locked' \in BOOLEAN,
         NEW v \in Vault
  PROVE  AtomicStep(v)
<1>1. CASE served # v
  BY <1>1, NotServed
<1>2. CASE served = v /\ (locked' = FALSE \/ locked = FALSE)
  <2>1. Commands!AsAtomic(v)!Unlock \/ Commands!AsAtomic(v)!Lock
    BY <1>2 DEF Commands!AsAtomic!Unlock, Commands!AsAtomic!Lock
  <2> QED
    BY <2>1 DEF AtomicStep, Commands!AsAtomic!Next
<1>3. CASE locked' = locked
  BY <1>3, NothingAsked
<1> QED
  BY <1>1, <1>2, <1>3 DEF AgentTypes

LEMMA AtomicRestart ==
  ASSUME CommandsInv, Commands!Restart, NEW v \in Vault
  PROVE  AtomicStep(v)
<1>1. v # NoVault
  BY CommandsAssumption DEF Commands!NamesDiffer
<1>2. store'[v] = store[v]
  BY <1>1 DEF Commands!Restart, CommandsInv, AgentTypes, StoreTypes, Commands!Holder
<1>3. (served = v => locked)' = TRUE /\ shown' = {} /\ hidden' = {}
  BY <1>1 DEF Commands!Restart
<1>4. Commands!AsAtomic(v)!Restart
  BY <1>2, <1>3 DEF Commands!AsAtomic!Restart
<1> QED
  BY <1>4 DEF AtomicStep, Commands!AsAtomic!Next

LEMMA AtomicSteps ==
  ASSUME CommandsInv, NEW c \in Client, Commands!Step(c), NEW v \in Vault
  PROVE  AtomicStep(v)
<1> USE DEF CommandsInv
<1> DEFINE e == Commands!EditKey(c)
<1>0. cli[c] \in Records
  BY OwnRecord
<1>1. CASE UNCHANGED <<served, locked, store, shown, hidden>>
  BY <1>1, NothingAsked
<1>2. ASSUME Commands!At(c, "editRemove") \/ Commands!At(c, "editAdd") \/ Commands!At(c, "editComment")
      PROVE  e \in Key
  <2>1. Commands!Command(c).verb = "edit"
    BY <1>2 DEF CommandInv, InStep, EditStages, Commands!At, Commands!Command
  <2>2. Commands!Command(c).keys # {} /\ Commands!Command(c).keys \in SUBSET Key
    BY <1>0, <2>1, RecordIs, RequestIs DEF CommandInv, EditSoFar, Commands!Command
  <2> QED
    BY <2>2 DEF Commands!EditKey
<1>3. CASE Commands!EditRemove(c)
  <2>1. e \in Key
    BY <1>2, <1>3 DEF Commands!EditRemove
  <2>2. CASE Commands!Status(c, e) = "ok"
    BY <1>3, <2>1, <2>2, StatusTells, AtomicTake DEF Commands!EditRemove
  <2>3. CASE Commands!Status(c, e) # "ok"
    BY <1>1, <1>3, <2>3 DEF Commands!EditRemove, Commands!NoChange, Commands!agent
  <2> QED
    BY <2>2, <2>3
<1>4. CASE Commands!EditAdd(c)
  <2>1. e \in Key
    BY <1>2, <1>4 DEF Commands!EditAdd
  <2>2. CASE Commands!Status(c, e) \notin {"gone", "locked"}
    <3>1. PICK i \in Commands!Identities :
            i.autoload /\ store' = [store EXCEPT ![served][e] = i]
      <4>1. file[e] \in {"old", "new"}
        BY <2>1 DEF FileTypes
      <4>2. [comment |-> file[e], autoload |-> TRUE] \in Commands!Identities
        BY <4>1 DEF Commands!Identities
      <4> QED
        BY <1>4, <2>2, <4>2 DEF Commands!EditAdd, Commands!ReAddComment
    <3>2. UNCHANGED <<served, locked, shown, hidden>>
      BY <1>4, <2>2 DEF Commands!EditAdd
    <3> QED
      BY <2>1, <2>2, <3>1, <3>2, StatusTells, AtomicAdd
  <2>3. CASE Commands!Status(c, e) \in {"gone", "locked"}
    BY <1>1, <1>4, <2>3 DEF Commands!EditAdd, Commands!NoChange, Commands!agent
  <2> QED
    BY <2>2, <2>3
<1>5. CASE Commands!EditComment(c)
  <2>1. e \in Key
    BY <1>2, <1>5 DEF Commands!EditComment
  <2>2. CASE Commands!Status(c, e) = "ok"
    <3>1. /\ store' = [store EXCEPT ![served][e].comment = "new"]
          /\ UNCHANGED <<served, locked, shown, hidden>>
      BY <1>5, <2>2 DEF Commands!EditComment
    <3> QED
      BY <2>1, <2>2, <3>1, StatusTells, AtomicComment
  <2>3. CASE Commands!Status(c, e) # "ok"
    BY <1>1, <1>5, <2>3 DEF Commands!EditComment, Commands!NoChange, Commands!agent
  <2> QED
    BY <2>2, <2>3
<1>6. cli[c].todo \in SUBSET Key /\ cli[c].drop \in SUBSET Key /\ cli[c].seen \in SUBSET Key
  BY <1>0, RecordIs
<1>7. CASE Commands!ReloadAdd(c)
  <2>1. CASE Commands!NoChange
    BY <1>1, <2>1 DEF Commands!NoChange, Commands!agent
  <2>2. ASSUME ~Commands!NoChange
        PROVE  \E k \in Key : Commands!Status(c, k) \notin {"gone", "locked"} /\ Commands!Put(k, FALSE)
    BY <1>6, <1>7, <2>2 DEF Commands!ReloadAdd, Commands!AddsMissing
  <2> QED
    BY <2>1, <2>2, StatusTells, AtomicPut
<1>8. CASE Commands!AddKey(c)
  <2>1. CASE Commands!NoChange
    BY <1>1, <2>1 DEF Commands!NoChange, Commands!agent
  <2>2. ASSUME ~Commands!NoChange
        PROVE  \E k \in Key : /\ Commands!Status(c, k) \notin {"gone", "locked"}
                              /\ Commands!Put(k, Commands!Command(c).on)
    BY <1>6, <1>8, <2>2 DEF Commands!AddKey
  <2>3. Commands!Command(c).on \in BOOLEAN
    BY <1>0, RecordIs, RequestIs DEF Commands!Command
  <2> QED
    BY <2>1, <2>2, <2>3, StatusTells, AtomicPut
<1>9. CASE Commands!ReloadRemove(c) \/ Commands!RemoveKey(c)
  <2>1. CASE Commands!NoChange
    BY <1>1, <2>1 DEF Commands!NoChange, Commands!agent
  <2>2. ASSUME ~Commands!NoChange
        PROVE  \E k \in Key : Commands!Status(c, k) = "ok" /\ Commands!Take(c, k)
    BY <1>6, <1>9, <2>2 DEF Commands!ReloadRemove, Commands!RemoveKey
  <2> QED
    BY <2>1, <2>2, StatusTells, AtomicTake
<1>10. CASE Commands!VaultUnlock(c)
  <2>1. CASE Commands!NoChange
    BY <1>1, <2>1 DEF Commands!NoChange, Commands!agent
  <2>2. CASE ~Commands!NoChange
    BY <1>10, <2>2, AtomicLocks DEF Commands!VaultUnlock
  <2> QED
    BY <2>1, <2>2
<1>11. CASE Commands!LockDo(c)
  <2>1. CASE Commands!NoChange
    BY <1>1, <2>1 DEF Commands!NoChange, Commands!agent
  <2>2. CASE ~Commands!NoChange
    BY <1>11, <2>2, AtomicLocks DEF Commands!LockDo, Commands!WantsLocked
  <2> QED
    BY <2>1, <2>2
<1>12. CASE Commands!VaultOp(c)
  <2>1. CASE Commands!NoChange
    BY <1>1, <2>1 DEF Commands!NoChange, Commands!agent
  <2>2. CASE ~Commands!NoChange
    <3>1. PICK k \in Key : /\ Commands!Succeeds(c, k) /\ Commands!VaultEffect(c, k)
      BY <1>6, <1>12, <2>2 DEF Commands!VaultOp
    <3>2. Commands!Command(c).on \in BOOLEAN
      BY <1>0, RecordIs, RequestIs DEF Commands!Command
    <3>3. CASE Commands!Command(c).verb = "vaultAdd"
      <4>1. Commands!Put(k, Commands!Command(c).on) /\ Commands!Status(c, k) \in {"ok", "notFound"}
        BY <3>1, <3>3 DEF Commands!VaultEffect, Commands!Succeeds
      <4> QED
        BY <3>2, <4>1, StatusTells, AtomicPut
    <3>4. CASE Commands!Command(c).verb # "vaultAdd"
      <4>1. ~locked /\ store[served][k] # None
        BY <3>1, <3>4, StatusTells DEF Commands!Succeeds
      <4>2. CASE Commands!Command(c).verb = "vaultRemove"
        BY <3>1, <4>1, <4>2, AtomicTake DEF Commands!VaultEffect
      <4>3. CASE Commands!Command(c).verb = "vaultLoad"
        BY <3>1, <4>1, <4>3, AtomicLoad DEF Commands!VaultEffect
      <4>4. CASE Commands!Command(c).verb \notin {"vaultAdd", "vaultRemove", "vaultLoad"}
        BY <2>2, <3>1, <3>2, <4>1, <4>4, AtomicAutoload DEF Commands!VaultEffect
      <4> QED
        BY <3>4, <4>2, <4>3, <4>4
    <3> QED
      BY <3>3, <3>4
  <2> QED
    BY <2>1, <2>2
<1>13. CASE Commands!EditFile(c) \/ Commands!EditPub(c) \/ Commands!EditProbe(c)
            \/ Commands!EditLoaded(c) \/ Commands!EditList(c)
  BY <1>1, <1>13 DEF Commands!EditFile, Commands!EditPub, Commands!EditProbe, Commands!EditLoaded,
     Commands!EditList, Commands!NoChange, Commands!agent
<1>14. CASE Commands!ReloadList(c) \/ Commands!ReloadWant(c) \/ Commands!AddList(c)
            \/ Commands!RemoveList(c) \/ Commands!RemoveFind(c) \/ Commands!VaultOpen(c)
            \/ Commands!VaultProbe(c) \/ Commands!LockProbe(c)
  BY <1>1, <1>14 DEF Commands!ReloadList, Commands!ReloadWant, Commands!AddList,
     Commands!RemoveList, Commands!RemoveFind, Commands!VaultOpen, Commands!VaultProbe,
     Commands!LockProbe, Commands!NoChange, Commands!agent
<1> QED
  BY <1>3, <1>4, <1>5, <1>7, <1>8, <1>9, <1>10, <1>11, <1>12, <1>13, <1>14 DEF Commands!Step

LEMMA AtomicNext ==
  ASSUME CommandsInv, [Commands!Next]_commandVars, NEW v \in Vault
  PROVE  AtomicStep(v)
<1>1. CASE UNCHANGED commandVars
  BY <1>1, NothingAsked DEF commandVars
<1>2. CASE \E c \in Client : Commands!Begin(c)
  BY <1>2, NothingAsked DEF Commands!Begin, Commands!agent
<1>3. CASE \E c \in Client : Commands!Step(c)
  BY <1>3, AtomicSteps
<1>4. CASE Commands!EditConfig \/ Commands!VaultFileBreaks
  BY <1>4, NothingAsked DEF Commands!EditConfig, Commands!VaultFileBreaks, Commands!agent
<1>5. CASE Commands!Restart
  BY <1>5, AtomicRestart
<1>6. CASE \E k \in Key : Commands!SessionUnload(k)
  BY <1>6, AtomicLoad DEF Commands!SessionUnload, CommandsInv
<1> QED
  BY <1>1, <1>2, <1>3, <1>4, <1>5, <1>6 DEF Commands!Next

LEMMA AtomicInit ==
  ASSUME Commands!Init, NEW v \in Vault
  PROVE  Commands!AsAtomic(v)!Init
<1>1. store[v] \in [Key -> Commands!Identities \cup {None}] /\ shown = {} /\ hidden = {}
  BY CommandsInit DEF CommandsInv, AgentTypes, StoreTypes, Commands!Holder, Commands!Init
<1> QED
  BY <1>1 DEF Commands!AsAtomic!Init, Commands!AsAtomic!Holdings

(* Whatever the commands ask of the agent, and however their requests cross, each vault
   goes through the operations of AtomicVault, which VaultAgent implements
   (agent/session.go, vault/agent.go). *)
THEOREM CommandsAskWhatAgentsDo == Spec => AsksWhatAgentsDo
<1>1. Init => \A v \in Vault : Commands!AsAtomic(v)!Init
  <2>1. Init => Commands!Init
    BY DEF Init, NoCommand
  <2> QED
    BY <2>1, AtomicInit
<1>2. CommandsInv /\ [Next]_vars =>
        [\A v \in Vault :
           UNCHANGED Commands!AsAtomic(v)!avars \/ Commands!AsAtomic(v)!Next]_(Commands!agent)
  BY CommandSteps, AtomicNext DEF AtomicStep
<1> QED
  BY <1>1, <1>2, CommandsInvariance, PTL DEF Spec, AsksWhatAgentsDo, Commands!AsksWhatAgentsDo
=============================================================================

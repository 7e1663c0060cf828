---------------------------- MODULE ClientCommands ----------------------------
(***************************************************************************)
(* The commands that change what the running agent holds, seen from the    *)
(* client: cli/add.go, remove.go, edit.go, reload.go, lock.go, unlock.go,  *)
(* the verbs of vaultops and the comment sync of editcomment.  A command   *)
(* is a sequence of requests on one agent session, and it acts on what an  *)
(* earlier answer, the configuration or the vault file told it; another    *)
(* command, the user's editor or a restart can change any of them between  *)
(* two requests.                                                           *)
(*                                                                         *)
(* One request is one step here (VaultAgent and KDFLockedKeyring open it   *)
(* up).  A key stands for its key file, its .pub file and its fingerprint; *)
(* saving a vault does not fail.  The agent is up when a command dials it, *)
(* except for a restart, which cuts the sessions there are.                *)
(***************************************************************************)
EXTENDS Integers, FiniteSets

CONSTANTS Client,      \* terminals, each running one command at a time
          Key,
          Vault,       \* vault files
          NoVault,     \* in their place: the agent keeps keys in memory
          None,
          MaxCommands, \* bound: commands begun in one behaviour
          MaxEvents    \* bound: events of the environment in one behaviour

VARIABLES
  config,    \* the configuration file: vault_path and key_paths
  served,    \* the vault the running agent serves, or NoVault
  locked,    \* the agent is locked
  store,     \* per vault, and for the keyring, the identities it holds
  shown,     \* VaultAgent.sessionAutoload0
  hidden,    \* VaultAgent.sessionUnloaded
  readable,  \* the vault files that can be opened and parsed
  file,      \* the comment in each private key file
  pub,       \* the comment in its .pub file
  cli,       \* the command each terminal runs
  begun,     \* commands begun so far
  events,    \* events of the environment so far
  took       \* auxiliary: the command that took an identity out of a store last

agent == <<served, locked, store, shown, hidden>>
files == <<file, pub>>
vars == <<config, agent, readable, files, cli, begun, events, took>>

Holder == Vault \cup {NoVault}

Identities == [comment : {"old", "new"}, autoload : BOOLEAN]

(* There is a vault; no vault, no identity and no command are none of them. *)
NamesDiffer ==
  /\ Vault # {} /\ NoVault \notin Vault
  /\ None \notin Identities /\ None \notin Client

VaultVerbs == {"vaultAdd", "vaultRemove", "vaultLoad", "vaultAutoload"}

(* on: --copy for edit, the autoload asked for elsewhere.  path: --vault-path.
   Bound: the commands that take a list are given every key. *)
Requests ==
  [verb : {"reload", "lock", "unlock", "unlockRecovery"},
   keys : {{}}, on : {FALSE}, path : {NoVault}]
    \cup [verb : {"edit", "add"}, keys : {{k} : k \in Key}, on : BOOLEAN, path : {NoVault}]
    \cup [verb : {"remove"}, keys : {Key}, on : {FALSE}, path : {NoVault}]
    \cup [verb : VaultVerbs, keys : {Key}, on : {TRUE}, path : Vault]
    \cup [verb : {"vaultAutoload"}, keys : {Key}, on : {FALSE}, path : Vault]

NoRequest == [verb |-> "none", keys |-> {}, on |-> FALSE, path |-> NoVault]

(* todo: keys a loop has still to handle.  seen: the keys an answer listed, or the
   identities of the vault file as it was read.  drop: keys reload has to remove.
   told: what the command has told the user.  alone: nothing it depends on was
   changed by anybody else since it began. *)
Idle ==
  [req |-> NoRequest, at |-> "idle", cfg |-> [vault |-> NoVault, keyPaths |-> {}],
   mode |-> "keys", seen |-> {}, todo |-> {}, drop |-> {}, read |-> TRUE, told |-> {},
   done |-> {}, cut |-> FALSE, alone |-> TRUE, prompted |-> NoVault]

HeldIn(v) == {k \in Key : store[v][k] # None}

(* What List answers: nothing while locked, and no error. *)
Rows ==
  {k \in HeldIn(served) :
     /\ ~locked
     /\ served # NoVault => IF store[served][k].autoload THEN k \notin hidden ELSE k \in shown}

(* One vault the daemon may have been started with, or none; the other vaults hold
   every key.  What else there can be, the commands and events make of it. *)
FirstVault == CHOOSE v \in Vault : TRUE

Init ==
  /\ served \in {FirstVault, NoVault}
  /\ \E paths \in {{}, Key} : config = [vault |-> served, keyPaths |-> paths]
  /\ \E held \in SUBSET Key, auto \in {Key, {}} :
       /\ served = NoVault => auto = Key
       /\ store = [v \in Holder |->
            [k \in Key |->
               IF v \notin {FirstVault, NoVault} THEN [comment |-> "old", autoload |-> TRUE]
               ELSE IF v = served /\ k \in held THEN [comment |-> "old", autoload |-> k \in auto]
               ELSE None]]
  /\ locked = FALSE /\ shown = {} /\ hidden = {}
  /\ readable = Vault
  /\ file = [k \in Key |-> "old"] /\ pub = file
  /\ cli = [c \in Client |-> Idle]
  /\ begun = 0 /\ events = 0
  /\ took = [v \in Holder |-> [k \in Key |-> None]]

-----------------------------------------------------------------------------
(* Steps of a command. *)

Running(c) == cli[c].at \notin {"idle", "ended"}
At(c, label) == cli[c].at = label
Command(c) == cli[c].req

(* c moves on, having changed nothing another command can see. *)
Quietly(c, rec) ==
  cli' = [cli EXCEPT ![c] = rec] /\ UNCHANGED <<config, readable, begun, events>>

(* c moves on, having changed what others may depend on. *)
Visibly(c, rec) ==
  /\ cli' = [d \in Client |-> IF d = c THEN rec ELSE [cli[d] EXCEPT !.alone = FALSE]]
  /\ UNCHANGED <<config, readable, begun, events>>

Goto(c, label) == [cli[c] EXCEPT !.at = label]
Tell(rec, what) == [rec EXCEPT !.told = @ \cup {what}]
End(rec) == [rec EXCEPT !.at = "ended", !.seen = {}, !.todo = {}, !.drop = {}]

Fails(c) == Quietly(c, End(Tell(cli[c], "error")))

FirstStep(verb) ==
  CASE verb = "edit"             -> "editFile"
    [] verb = "reload"           -> "reloadList"
    [] verb = "add"              -> "addList"
    [] verb = "remove"           -> "removeList"
    [] verb \in VaultVerbs       -> "vaultOpen"
    [] OTHER                     -> "lockProbe"

Begin(c) ==
  /\ ~Running(c) /\ begun < MaxCommands
  /\ begun' = begun + 1
  /\ \E r \in Requests :
       cli' = [cli EXCEPT ![c] = [Idle EXCEPT !.req = r, !.at = FirstStep(r.verb),
                                              !.cfg = config, !.todo = r.keys]]
  /\ took' = [v \in Holder |-> [k \in Key |-> IF took[v][k] = c THEN None ELSE took[v][k]]]
  /\ UNCHANGED <<config, agent, readable, files, events>>

-----------------------------------------------------------------------------
(* Requests to the agent. *)

(* The status of a request about k. *)
Status(c, k) ==
  CASE cli[c].cut          -> "gone"
    [] ~cli[c].cut /\ locked -> "locked"
    [] ~cli[c].cut /\ ~locked /\ store[served][k] = None -> "notFound"
    [] OTHER               -> "ok"

(* The plain Add, and the add-key op with autoload off, store an identity that is
   visible until the agent restarts (vault/agent.go addKeyWithAutoload). *)
Put(k, autoload) ==
  /\ store' = [store EXCEPT ![served][k] =
                 [comment |-> file[k], autoload |-> autoload \/ served = NoVault]]
  /\ shown' = IF served # NoVault /\ ~autoload THEN shown \cup {k} ELSE shown
  /\ UNCHANGED <<served, locked, hidden, files, took>>

(* Mutation of Take: the key comes back as hidden as it was. *)
BugTake(c, k) ==
  /\ store' = [store EXCEPT ![served][k] = None]
  /\ shown' = shown \ {k}
  /\ took' = [took EXCEPT ![served][k] = c]
  /\ UNCHANGED <<served, locked, hidden, files>>

Take(c, k) ==
  /\ store' = [store EXCEPT ![served][k] = None]
  /\ shown' = shown \ {k} /\ hidden' = hidden \ {k}
  /\ took' = [took EXCEPT ![served][k] = c]
  /\ UNCHANGED <<served, locked, files>>

NoChange == UNCHANGED <<agent, files, took>>

-----------------------------------------------------------------------------
(* sshush edit: the files first, then the agent (editcomment/sync.go). *)

EditKey(c) == CHOOSE k \in Command(c).keys : TRUE

(* --copy writes another file; the source keeps its comment. *)
EditFile(c) ==
  /\ At(c, "editFile")
  /\ \/ Fails(c) /\ NoChange
     \/ /\ Command(c).on
        /\ Quietly(c, Goto(c, "editProbe")) /\ NoChange
     \/ /\ ~Command(c).on
        /\ file' = [file EXCEPT ![EditKey(c)] = "new"]
        /\ Visibly(c, Goto(c, "editPub"))
        /\ UNCHANGED <<agent, pub, took>>

EditPub(c) ==
  /\ At(c, "editPub")
  /\ \/ Fails(c) /\ NoChange
     \/ /\ pub' = [pub EXCEPT ![EditKey(c)] = "new"]
        /\ Visibly(c, Goto(c, "editProbe"))
        /\ UNCHANGED <<agent, file, took>>

(* Session.Backend.  A backend that cannot be determined means nothing to sync. *)
EditProbe(c) ==
  /\ At(c, "editProbe")
  /\ Quietly(c, IF cli[c].cut THEN End(cli[c])
                ELSE [Goto(c, "editLoaded") EXCEPT !.mode = IF served = NoVault THEN "keys" ELSE "vault"])
  /\ NoChange

AfterReload(c, rec) ==
  IF cli[c].mode = "vault" THEN [rec EXCEPT !.at = "editComment"] ELSE End(rec)

EditLoaded(c) ==
  /\ At(c, "editLoaded")
  /\ Quietly(c, IF ~cli[c].cut /\ EditKey(c) \in Rows THEN Goto(c, "editList")
                ELSE AfterReload(c, cli[c]))
  /\ NoChange

EditList(c) ==
  /\ At(c, "editList")
  /\ Quietly(c, IF cli[c].cut THEN AfterReload(c, Tell(cli[c], "reloadFailed"))
                ELSE Goto(c, IF EditKey(c) \in Rows THEN "editRemove" ELSE "editAdd"))
  /\ NoChange

(* The error of the removal is ignored. *)
EditRemove(c) ==
  /\ At(c, "editRemove")
  /\ IF Status(c, EditKey(c)) = "ok"
     THEN Take(c, EditKey(c)) /\ Visibly(c, Goto(c, "editAdd"))
     ELSE NoChange /\ Quietly(c, Goto(c, "editAdd"))

(* Mutation of ReloadError: a failed re-add is taken for a success. *)
BugReloadError(c) == Tell(cli[c], "reloaded")

ReloadError(c) == Tell(cli[c], "reloadFailed")

(* Mutation of ReAddComment: the comment read before the file was rewritten. *)
BugReAddComment(k) == "old"

(* The file is read again when the key is added again. *)
ReAddComment(k) == file[k]

(* Whatever its autoload was, the identity comes back with autoload on. *)
EditAdd(c) ==
  /\ At(c, "editAdd")
  /\ IF Status(c, EditKey(c)) \in {"gone", "locked"}
     THEN NoChange /\ Quietly(c, AfterReload(c, ReloadError(c)))
     ELSE /\ store' = [store EXCEPT ![served][EditKey(c)] =
                         [comment |-> ReAddComment(EditKey(c)), autoload |-> TRUE]]
          /\ UNCHANGED <<served, locked, shown, hidden, files, took>>
          /\ Visibly(c, AfterReload(c, Tell(cli[c], "reloaded")))

EditComment(c) ==
  /\ At(c, "editComment")
  /\ IF Status(c, EditKey(c)) = "ok"
     THEN /\ store' = [store EXCEPT ![served][EditKey(c)].comment = "new"]
          /\ UNCHANGED <<served, locked, shown, hidden, files, took>>
          /\ Visibly(c, End(Tell(cli[c], "synced")))
     ELSE NoChange /\ Quietly(c, End(Tell(cli[c], "syncFailed")))

-----------------------------------------------------------------------------
(* sshush reload against a live agent: cli/reload.go applyDiff. *)

ReloadList(c) ==
  /\ At(c, "reloadList")
  /\ Quietly(c, IF cli[c].cut THEN End(cli[c])
                ELSE [Goto(c, "reloadWant") EXCEPT !.seen = Rows])
  /\ NoChange

(* Mutation of WantedFromVault: only what loads by itself. *)
BugWantedFromVault(v) == {k \in HeldIn(v) : store[v][k].autoload}

(* Every identity of the configured vault, loaded or not. *)
WantedFromVault(v) == HeldIn(v)

(* The vault of the configuration need not be the one the agent serves, and one
   that cannot be opened counts as empty: its warning was for the diff. *)
ReloadWant(c) ==
  /\ At(c, "reloadWant")
  /\ LET cfg == cli[c].cfg
         opens == cfg.vault \in readable
         want == cfg.keyPaths \cup IF opens THEN WantedFromVault(cfg.vault) ELSE {} IN
       Quietly(c, [Goto(c, "reloadAdd") EXCEPT !.todo = cfg.keyPaths \ cli[c].seen,
                                               !.drop = cli[c].seen \ want, !.read = opens])
  /\ NoChange

(* Mutation of AddsMissing: keys the agent has already are added, not the others. *)
BugAddsMissing(c) == cli[c].cfg.keyPaths \cap cli[c].seen \cap cli[c].todo

AddsMissing(c) == cli[c].todo

ReloadAdd(c) ==
  /\ At(c, "reloadAdd")
  /\ IF AddsMissing(c) = {} THEN Quietly(c, Goto(c, "reloadRemove")) /\ NoChange
     ELSE \E k \in AddsMissing(c) :
            LET rest == [cli[c] EXCEPT !.todo = @ \ {k}] IN
              IF Status(c, k) \in {"gone", "locked"}
              THEN NoChange /\ Quietly(c, Tell(rest, "error"))
              ELSE Put(k, FALSE) /\ Visibly(c, rest)

ReloadRemove(c) ==
  /\ At(c, "reloadRemove")
  /\ IF cli[c].drop = {} THEN Quietly(c, End(cli[c])) /\ NoChange
     ELSE \E k \in cli[c].drop :
            LET rest == [cli[c] EXCEPT !.drop = @ \ {k}] IN
              IF Status(c, k) = "ok"
              THEN Take(c, k) /\ Visibly(c, rest)
              ELSE NoChange /\ Quietly(c, Tell(rest, "error"))

-----------------------------------------------------------------------------
(* sshush add and sshush remove. *)

AddList(c) ==
  /\ At(c, "addList")
  /\ IF cli[c].cut THEN Fails(c) ELSE Quietly(c, Goto(c, "addKey"))
  /\ NoChange

AddKey(c) ==
  /\ At(c, "addKey")
  /\ IF cli[c].todo = {} THEN Quietly(c, End(cli[c])) /\ NoChange
     ELSE \E k \in cli[c].todo :
            IF Status(c, k) \in {"gone", "locked"} THEN Fails(c) /\ NoChange
            ELSE Put(k, Command(c).on) /\ Visibly(c, [cli[c] EXCEPT !.todo = @ \ {k}])

(* Arguments name key files, so a key the agent does not list is skipped. *)
RemoveList(c) ==
  /\ At(c, "removeList")
  /\ IF cli[c].cut THEN Fails(c)
     ELSE Quietly(c, [Goto(c, "removeFind") EXCEPT !.todo = @ \cap Rows])
  /\ NoChange

(* RemoveByFingerprint lists again, and then removes. *)
RemoveFind(c) ==
  /\ At(c, "removeFind")
  /\ IF cli[c].todo = {} THEN Quietly(c, End(cli[c]))
     ELSE IF cli[c].cut THEN Fails(c)
     ELSE \E k \in cli[c].todo :
            Quietly(c, IF k \in Rows THEN [Goto(c, "removeKey") EXCEPT !.seen = {k}]
                                     ELSE [cli[c] EXCEPT !.todo = @ \ {k}])
  /\ NoChange

RemoveKey(c) ==
  /\ At(c, "removeKey")
  /\ \E k \in cli[c].seen :
       IF Status(c, k) = "ok"
       THEN Take(c, k) /\ Visibly(c, [Goto(c, "removeFind") EXCEPT !.todo = @ \ {k}])
       ELSE Fails(c) /\ NoChange

-----------------------------------------------------------------------------
(* The verbs of vaultops: vault add, remove, load and autoload. *)

(* open: the vault file is read once, before the agent is asked anything. *)
VaultOpen(c) ==
  /\ At(c, "vaultOpen")
  /\ IF Command(c).path \in readable
     THEN Quietly(c, [Goto(c, "vaultProbe") EXCEPT !.seen = HeldIn(Command(c).path)])
     ELSE Fails(c)
  /\ NoChange

(* Mutation of MayPrompt: whichever vault the command is about. *)
BugMayPrompt(c) == locked

(* The passphrase is asked for only when the configuration says the agent serves
   the vault at hand, and the agent said it is locked. *)
MayPrompt(c) == locked /\ Command(c).path = cli[c].cfg.vault

VaultProbe(c) ==
  /\ At(c, "vaultProbe")
  /\ IF cli[c].cut \/ served = NoVault THEN Fails(c)
     ELSE Quietly(c, Goto(c, IF MayPrompt(c) THEN "vaultUnlock" ELSE "vaultOp"))
  /\ NoChange

(* The user answers the prompt; whatever comes of it, the verb goes on. *)
VaultUnlock(c) ==
  /\ At(c, "vaultUnlock")
  /\ LET asked == [Goto(c, "vaultOp") EXCEPT !.prompted = served] IN
       \/ Quietly(c, asked) /\ NoChange
       \/ /\ ~cli[c].cut /\ locked
          /\ locked' = FALSE
          /\ UNCHANGED <<served, store, shown, hidden, files, took>>
          /\ Visibly(c, asked)

(* What each verb asks of the agent about one key. *)
VaultEffect(c, k) ==
  CASE Command(c).verb = "vaultAdd" -> Put(k, Command(c).on)
    [] Command(c).verb = "vaultRemove" -> Take(c, k)
    [] Command(c).verb = "vaultLoad" ->
         /\ hidden' = hidden \ {k}
         /\ shown' = IF store[served][k].autoload THEN shown ELSE shown \cup {k}
         /\ UNCHANGED <<served, locked, store, files, took>>
    [] OTHER ->
         IF store[served][k].autoload = Command(c).on THEN NoChange
         ELSE /\ store' = [store EXCEPT ![served][k].autoload = Command(c).on]
              /\ hidden' = hidden \ {k}
              /\ shown' = IF Command(c).on THEN shown \ {k} ELSE shown
              /\ UNCHANGED <<served, locked, files, took>>

(* Mutation of Succeeds: the answer about the key is not looked at. *)
BugSucceeds(c, k) == Status(c, k) \in {"ok", "notFound"}

(* All verbs but add are about an identity the vault file named. *)
Succeeds(c, k) ==
  IF Command(c).verb = "vaultAdd" THEN Status(c, k) \in {"ok", "notFound"}
  ELSE k \in cli[c].seen /\ Status(c, k) = "ok"

(* A verb stops at the first failure; what it did before stays done. *)
VaultOp(c) ==
  /\ At(c, "vaultOp")
  /\ IF cli[c].todo = {} THEN Quietly(c, End(cli[c])) /\ NoChange
     ELSE \E k \in cli[c].todo :
            IF Succeeds(c, k)
            THEN /\ IF Status(c, k) = "notFound" /\ Command(c).verb # "vaultAdd"
                    THEN NoChange ELSE VaultEffect(c, k)
                 /\ Visibly(c, [cli[c] EXCEPT !.todo = @ \ {k}, !.done = @ \cup {k}])
            ELSE Fails(c) /\ NoChange

-----------------------------------------------------------------------------
(* lock, unlock and vault unlock-recovery: ask, and act on the answer. *)

WantsLocked(c) == Command(c).verb = "lock"

(* unlock-recovery looks at the backend before it asks for the phrase, and dials
   again after it. *)
Reaches(c) ==
  IF Command(c).verb = "unlockRecovery" THEN served # NoVault ELSE ~cli[c].cut

LockProbe(c) ==
  /\ At(c, "lockProbe")
  /\ CASE ~Reaches(c) \/ cli[c].cut -> Fails(c)
       [] Reaches(c) /\ ~cli[c].cut ->
            Quietly(c, IF /\ Command(c).verb # "unlockRecovery"
                          /\ served # NoVault /\ locked = WantsLocked(c)
                       THEN End(Tell(cli[c], "already")) ELSE Goto(c, "lockDo"))
  /\ NoChange

(* A passphrase or phrase that is wrong changes nothing; unlock-recovery is let
   through on an unlocked vault. *)
LockDo(c) ==
  /\ At(c, "lockDo")
  /\ \/ Fails(c) /\ ~(WantsLocked(c) /\ ~locked /\ Reaches(c)) /\ NoChange
     \/ /\ Reaches(c)
        /\ locked # WantsLocked(c) \/ Command(c).verb = "unlockRecovery"
        /\ locked' = WantsLocked(c)
        /\ UNCHANGED <<served, store, shown, hidden, files, took>>
        /\ Visibly(c, End(Tell(cli[c], "set")))

-----------------------------------------------------------------------------
(* The user's editor, the file system, and a daemon started again. *)

Everybody(change) == cli' = [c \in Client |-> change[c]]

Event ==
  /\ events < MaxEvents
  /\ events' = events + 1
  /\ UNCHANGED <<begun, took>>

EditConfig ==
  /\ Event
  /\ \E v \in Holder : config' = [config EXCEPT !.vault = v]
  /\ UNCHANGED <<agent, readable, files, cli>>

VaultFileBreaks ==
  /\ Event
  /\ \E v \in readable : readable' = readable \ {v}
  /\ UNCHANGED <<config, agent, files, cli>>

(* The daemon reads the configuration, comes up locked when it serves a vault, and
   has what key_paths name when it serves none. *)
Restart ==
  /\ Event
  /\ config.vault \in readable \cup {NoVault}
  /\ served' = config.vault
  /\ locked' = (config.vault # NoVault)
  /\ store' = [store EXCEPT ![NoVault] =
                 [k \in Key |-> IF config.vault = NoVault /\ k \in config.keyPaths
                                THEN [comment |-> file[k], autoload |-> TRUE] ELSE None]]
  /\ shown' = {} /\ hidden' = {}
  /\ Everybody([c \in Client |-> [cli[c] EXCEPT !.cut = TRUE, !.alone = FALSE]])
  /\ UNCHANGED <<config, readable, files>>

(* The Agent tab of the TUI, and any client of the extension. *)
SessionUnload(k) ==
  /\ Event
  /\ served # NoVault /\ ~locked /\ store[served][k] # None
  /\ shown' = shown \ {k} /\ hidden' = hidden \cup {k}
  /\ Everybody([c \in Client |-> [cli[c] EXCEPT !.alone = FALSE]])
  /\ UNCHANGED <<config, served, locked, store, readable, files>>

Step(c) ==
  \/ EditFile(c) \/ EditPub(c) \/ EditProbe(c) \/ EditLoaded(c) \/ EditList(c)
  \/ EditRemove(c) \/ EditAdd(c) \/ EditComment(c)
  \/ ReloadList(c) \/ ReloadWant(c) \/ ReloadAdd(c) \/ ReloadRemove(c)
  \/ AddList(c) \/ AddKey(c) \/ RemoveList(c) \/ RemoveFind(c) \/ RemoveKey(c)
  \/ VaultOpen(c) \/ VaultProbe(c) \/ VaultUnlock(c) \/ VaultOp(c)
  \/ LockProbe(c) \/ LockDo(c)

Next ==
  \/ \E c \in Client : Begin(c) \/ Step(c)
  \/ EditConfig \/ VaultFileBreaks \/ Restart
  \/ \E k \in Key : SessionUnload(k)

Spec == Init /\ [][Next]_vars

-----------------------------------------------------------------------------
Ended(c, verb) == At(c, "ended") /\ Command(c).verb = verb

(* Editing a comment removes the identity from the agent and adds it again
   (editcomment/sync.go:87-123), and the agent may be locked, or gone, in between.
   An identity that an edit took out and that is not back when it ends was reported:
   the user is never told of a reload that lost the key. *)
EditTellsLoss ==
  \A c \in Client : \A v \in Holder : \A k \in Key :
    Ended(c, "edit") /\ took[v][k] = c /\ store[v][k] = None /\ served = v /\ ~cli[c].cut
      => "reloadFailed" \in cli[c].told

(* Three places keep a comment: the key file, its .pub file, and the vault or the
   agent.  An edit in place that nobody crossed and that reports the reload or the
   sync leaves all three with the new comment (editcomment/sync.go:29-31,
   cli/edit.go:230-243). *)
CommentsAgree ==
  \A c \in Client :
    Ended(c, "edit") /\ cli[c].alone /\ ~Command(c).on
      /\ cli[c].told # {} /\ cli[c].told \subseteq {"reloaded", "synced"}
      => LET k == EditKey(c) IN
           /\ file[k] = "new" /\ pub[k] = "new"
           /\ store[served][k] # None /\ store[served][k].comment = "new"

(* An edit loses no identity in silence and leaves no two comments on one
   (editcomment/sync.go). *)
EditKeepsKeys == EditTellsLoss /\ CommentsAgree

(* A reload that nobody crossed takes no identity out of the vault its configuration
   names, when it could read it: not one that is loaded for this session only, and not
   one it has just added (cli/reload.go:113-131, :185-197).  (Crossed by an edit it
   may: it lists the identity, finds it gone from the file while the edit has it out,
   and deletes it once it is back.) *)
ReloadSparesItsVault ==
  \A c \in Client : \A v \in Vault : \A k \in Key :
    Command(c).verb = "reload" /\ took[v][k] = c /\ cli[c].alone
      => cli[c].cfg.vault # v \/ ~cli[c].read

(* A reload that nobody crossed and that reported no error leaves an unlocked agent
   with every key of key_paths, and with no key that neither key_paths nor the
   configured vault holds (cli/reload.go:173-198). *)
ReloadReconciles ==
  \A c \in Client :
    Ended(c, "reload") /\ cli[c].alone /\ cli[c].told = {} /\ ~cli[c].cut
      => /\ ~locked => cli[c].cfg.keyPaths \subseteq Rows
         /\ \A k \in Rows : k \in cli[c].cfg.keyPaths
                             \/ (cli[c].cfg.vault # NoVault /\ store[cli[c].cfg.vault][k] # None)
                             \/ ~cli[c].read

(* A reload takes away what has to go and nothing else (cli/reload.go:113-198). *)
ReloadDoesItsPart == ReloadSparesItsVault /\ ReloadReconciles

(* While the agent serves the vault its configuration names, a command asks for the
   passphrase only of the vault it works on (vaultops/env.go:23-27). *)
PromptsForOwnVault ==
  \A c \in Client :
    Command(c).verb \in VaultVerbs /\ cli[c].prompted # NoVault
      => cli[c].prompted = Command(c).path \/ cli[c].prompted # cli[c].cfg.vault

(* What a verb reports done is done: nobody having crossed it, the identities it
   lists as added, removed, loaded or changed are so, though it stopped at a later
   one (vaultops/session.go:18-20, keys.go:20-27, :48-51). *)
VerbsReportTruth ==
  \A c \in Client :
    At(c, "ended") /\ Command(c).verb \in VaultVerbs /\ cli[c].alone /\ ~cli[c].cut =>
      \A k \in cli[c].done :
        CASE Command(c).verb = "vaultRemove"   -> store[served][k] = None
          [] Command(c).verb = "vaultAutoload" -> store[served][k] # None
                                                    /\ store[served][k].autoload = Command(c).on
          [] OTHER                             -> store[served][k] # None /\ (k \in Rows \/ k \in hidden)

(* The vault verbs ask for the right passphrase and report what they did (vaultops). *)
VerbsKeepTheirWord == PromptsForOwnVault /\ VerbsReportTruth

(* A vault that is not served is like one whose agent has just come up. *)
AsAtomic(v) == INSTANCE AtomicVault WITH
                 Fingerprint <- Key, Identity <- Identities, Mortal <- {},
                 Comment <- {"old", "new"}, NoIdentity <- None,
                 locked <- (served = v => locked),
                 held <- store[v], saved <- store[v],
                 shown <- IF served = v THEN shown ELSE {},
                 hidden <- IF served = v THEN hidden ELSE {}

(* Whatever the commands do to a vault, step by step and across each other, is something
   the vault agent does for them: what this module says about their requests is what
   VaultAgent promises (agent/session.go, vault/agent.go). *)
AsksWhatAgentsDo ==
  /\ \A v \in Vault : AsAtomic(v)!Init
  /\ [][\A v \in Vault : UNCHANGED AsAtomic(v)!avars \/ AsAtomic(v)!Next]_agent
=============================================================================

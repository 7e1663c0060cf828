-------------------------------- MODULE TuiVault --------------------------------
(***************************************************************************)
(* The Vault tab of the terminal interface (internal/tui/vault.go): its    *)
(* table of identities, its prompts, and the answers of its commands.      *)
(* Skeleton hands an answer to the tab that is active when it comes, so an *)
(* answer that comes while the user is elsewhere is lost; Refresh lists    *)
(* the vault again when the user comes back.                               *)
(*                                                                         *)
(* There is one identity, and one agent that serves this vault.  A command *)
(* may always fail, and then has changed nothing.  Whether the lock state  *)
(* shared with Skeleton turns a request away is left open (TuiAgent models *)
(* that state).  Of two equal commands that have not run yet one is kept.  *)
(***************************************************************************)
EXTENDS Integers

CONSTANT MaxActions  \* bound: what is done in the tab or to the vault, and how often
                     \* the tab is entered or left

VARIABLES
  here,      \* the tab is the active one
  vault,     \* the vault and its agent
  table,     \* vaultInitialized, rows; failed: the last listing did
  status,    \* "said", or "busy": initializing..., unlocking..., locking...
  prompt,    \* showPass with passAction, or showRecovery
  held,      \* initPassphrase
  filled,    \* passInput holds something
  recovery,  \* initRecovery
  picker, autoload,  \* fileSelector.Visible(), addAutoload
  phrase,    \* recoveryDisplay.visible
  cmds, msgs,
  actions,
  crossed,   \* auxiliary: the last listing was asked for while another was on its way
  unlisted,  \* auxiliary: another changed the vault with the tab active, and no listing followed
  missed,    \* auxiliary: the tab was left while an init was under way, or a prompt hid its phrase
  seen       \* auxiliary: a phrase was on the screen when it went

screen == <<table, status, prompt, held, filled, recovery, picker, autoload, phrase>>
flow == <<cmds, msgs>>
vars == <<here, vault, screen, flow, actions, crossed, unlisted, missed, seen>>

Passphrases == {"p", "q"}
Inits == {"init", "initRecovery"}
RowOps == {"remove", "load", "autoloadOn", "autoloadOff"}
Ops == RowOps \cup {"add", "addSession", "unlock", "unlockRecovery", "lock"}

NoVault == [exists |-> FALSE, phrase |-> FALSE, stored |-> FALSE, autoload |-> FALSE,
            loaded |-> FALSE, locked |-> TRUE]

(* What a listing finds. *)
Rows(v) == IF v.stored THEN {[autoload |-> v.autoload, loaded |-> v.loaded /\ ~v.locked]} ELSE {}

Listing(v) == [initialized |-> v.exists, rows |-> Rows(v), failed |-> FALSE]

(* Init's own listing is under way; the interface starts on the Agent tab. *)
Init ==
  /\ here = FALSE
  /\ \E s \in BOOLEAN : vault = [NoVault EXCEPT !.exists = s, !.stored = s, !.autoload = s]
  /\ table = [initialized |-> FALSE, rows |-> {}, failed |-> FALSE]
  /\ status = "said" /\ prompt = "none" /\ held = "" /\ filled = FALSE /\ recovery = FALSE
  /\ picker = FALSE /\ autoload = FALSE /\ phrase = FALSE
  /\ cmds = {"list"} /\ msgs = {}
  /\ actions = 0
  /\ crossed = FALSE /\ unlisted = FALSE /\ missed = FALSE /\ seen = FALSE

-----------------------------------------------------------------------------

ListingUnderWay == "list" \in cmds \/ \E m \in msgs : m.is = "list"
InitUnderWay == cmds \cap Inits # {} \/ \E m \in msgs : m.is = "init"

Ask(names) ==
  /\ cmds' = cmds \cup names
  /\ crossed' = IF "list" \in names THEN ListingUnderWay ELSE crossed
  /\ unlisted' = (unlisted /\ "list" \notin names)

(* A key, or a button, that the tab is given and answers by these commands. *)
Act(names) ==
  /\ here /\ actions < MaxActions
  /\ actions' = actions + 1
  /\ Ask(names)
  /\ UNCHANGED <<here, vault, msgs, missed>>

HasModal == picker \/ prompt # "none" \/ phrase

(* What View draws: the file picker first, then a prompt, then the phrase. *)
PhraseOnScreen == phrase /\ ~picker /\ prompt = "none"

(* startInit.  The key works although the button is gone once there is a vault. *)
StartInit(r) ==
  /\ ~HasModal /\ Act({})
  /\ prompt' = "init-pass" /\ held' = "" /\ filled' = FALSE /\ recovery' = r
  /\ UNCHANGED <<table, status, picker, autoload, phrase, seen>>

(* startUnlockPassphrase; startUnlockRecovery, whose prompt has a field of its own. *)
StartUnlock(kind) ==
  /\ ~HasModal /\ Act({})
  /\ \/ /\ prompt' = kind /\ UNCHANGED status
        /\ filled' = (filled /\ kind # "unlock")
     \/ status' = "said" /\ UNCHANGED <<prompt, filled>>
  /\ UNCHANGED <<table, held, recovery, picker, autoload, phrase, seen>>

(* startLock *)
StartLock ==
  /\ ~HasModal
  /\ \/ Act({"lock"}) /\ status' = "busy"
     \/ Act({}) /\ status' = "said"
  /\ UNCHANGED <<table, prompt, held, filled, recovery, picker, autoload, phrase, seen>>

(* startAdd *)
StartAdd(on) ==
  /\ ~HasModal /\ Act({})
  /\ picker' = TRUE /\ autoload' = on
  /\ UNCHANGED <<table, status, prompt, held, filled, recovery, phrase, seen>>

(* removeSelected, loadSelected, setAutoloadSelected, HandleDKey *)
AskForRow(op) ==
  /\ ~HasModal /\ Act(IF table.rows = {} THEN {} ELSE {op})
  /\ UNCHANGED <<screen, seen>>

(* What initPassphrase holds after enter in the prompt. *)
HeldAfter(typed) == IF prompt = "init-pass" THEN typed ELSE ""

(* Whether enter leaves something in passInput: a confirmed passphrase stays there. *)
FilledAfter(typed) == prompt = "init-confirm" /\ typed = held

(* handlePassInput, enter with what was typed, for a vault to be made.  (esc never gets
   here: Skeleton takes it while the tab has a modal.) *)
EnterNewPassphrase(typed) ==
  /\ ~picker /\ ~phrase
  /\ prompt \in {"init-pass", "init-confirm"}
  /\ held' = HeldAfter(typed) /\ filled' = FilledAfter(typed)
  /\ CASE prompt = "init-pass" /\ typed = "" ->
            Act({}) /\ status' = "said" /\ UNCHANGED prompt
       [] prompt = "init-pass" /\ typed # "" ->
            Act({}) /\ prompt' = "init-confirm" /\ UNCHANGED status
       [] prompt = "init-confirm" /\ typed # held ->
            Act({}) /\ prompt' = "init-pass" /\ status' = "said"
       [] prompt = "init-confirm" /\ typed = held ->
            Act({IF recovery THEN "initRecovery" ELSE "init"}) /\ prompt' = "none" /\ status' = "busy"
  /\ UNCHANGED <<table, recovery, picker, autoload, phrase, seen>>

(* handlePassInput and handleRecoveryInput, enter, to unlock.  passInput keeps what was
   typed, if anything was. *)
EnterSecret(any) ==
  /\ ~picker /\ ~phrase
  /\ prompt \in {"unlock", "unlockRecovery"}
  /\ Act({prompt})
  /\ filled' = IF prompt = "unlock" THEN any ELSE filled
  /\ prompt' = "none" /\ status' = "busy"
  /\ UNCHANGED <<table, held, recovery, picker, autoload, phrase, seen>>

(* The phrase goes at any key, whether it was on the screen or under a prompt. *)
ClosePhrase ==
  /\ phrase /\ ~picker
  /\ phrase' = FALSE /\ seen' = (seen \/ PhraseOnScreen)
  /\ Act({})
  /\ UNCHANGED <<table, status, prompt, held, filled, recovery, picker, autoload>>

Msg(is, ok) == [is |-> is, ok |-> ok, phrase |-> FALSE, table |-> Listing(NoVault)]

(* FileSelector.Update: a file, or a click outside the box. *)
UsePicker(choice) ==
  /\ here /\ picker /\ actions < MaxActions
  /\ actions' = actions + 1
  /\ msgs' = msgs \cup {Msg(choice, TRUE)}
  /\ UNCHANGED <<here, vault, screen, cmds, crossed, unlisted, missed, seen>>

(* Mutation of Refresh: the table is left as it was. *)
BugRefresh == {}

Refresh == {"list"}

SwitchTab ==
  /\ actions < MaxActions
  /\ actions' = actions + 1
  /\ here' = ~here
  /\ Ask(IF here' THEN Refresh ELSE {})
  /\ missed' = (missed \/ (here /\ InitUnderWay))
  /\ UNCHANGED <<vault, screen, msgs, seen>>

-----------------------------------------------------------------------------
(* Commands. *)

Served == vault.exists /\ ~vault.locked

(* The vault after an operation that succeeds, if it can. *)
Done(op) ==
  CASE op \in {"add", "addSession"} /\ Served ->
         {[vault EXCEPT !.stored = TRUE, !.loaded = TRUE, !.autoload = op = "add"]}
    [] op = "remove" /\ Served /\ vault.stored -> {[vault EXCEPT !.stored = FALSE]}
    [] op = "load" /\ Served /\ vault.stored -> {[vault EXCEPT !.loaded = TRUE]}
    [] op \in {"autoloadOn", "autoloadOff"} /\ Served /\ vault.stored ->
         {[vault EXCEPT !.autoload = op = "autoloadOn"]}
    [] op \in {"unlock", "unlockRecovery"} /\ vault.exists -> {[vault EXCEPT !.locked = FALSE]}
    [] op = "lock" /\ vault.exists -> {[vault EXCEPT !.locked = TRUE]}
    [] OTHER -> {}

Finish(name, v, m) ==
  /\ name \in cmds
  /\ cmds' = cmds \ {name}
  /\ vault' = v /\ msgs' = msgs \cup {m}
  /\ UNCHANGED <<here, screen, actions, crossed, unlisted, missed, seen>>

RunOp(op) ==
  \/ \E v \in Done(op) : Finish(op, v, Msg("op", TRUE))
  \/ op \in Ops /\ Finish(op, vault, Msg("op", FALSE))

(* initVaultCmd: InitTarget refuses a vault that is there. *)
RunInit(name) ==
  \/ /\ name \in Inits /\ ~vault.exists
     /\ LET r == name = "initRecovery" IN
          Finish(name, [NoVault EXCEPT !.exists = TRUE, !.phrase = r],
                 [Msg("init", TRUE) EXCEPT !.phrase = r])
  \/ name \in Inits /\ Finish(name, vault, Msg("init", FALSE))

(* listVaultIdentitiesCmd *)
RunList ==
  \/ Finish("list", vault, [Msg("list", TRUE) EXCEPT !.table = Listing(vault)])
  \/ Finish("list", vault, Msg("list", FALSE))

-----------------------------------------------------------------------------
(* Update, for a message. *)

(* Mutation of UnderPicker: an answer is given to the file picker. *)
BugUnderPicker == {"list", "op", "selected", "cancelled"}

(* What Update handles itself while the file picker is shown. *)
UnderPicker == {"list", "op", "init", "selected", "cancelled"}

Heard(m) == here /\ (picker => m.is \in UnderPicker)

AskAfter(m) ==
  CASE m.is = "selected" -> {IF autoload THEN "add" ELSE "addSession"}
    [] m.is \in {"op", "init"} /\ m.ok -> {"list"}
    [] OTHER -> {}

IdentitiesMsg(m) ==
  /\ m.is = "list"
  /\ table' = IF m.ok THEN m.table ELSE [table EXCEPT !.rows = {}, !.failed = TRUE]
  /\ UNCHANGED <<picker, phrase, missed>>

OpResultMsg(m) == m.is = "op" /\ UNCHANGED <<table, picker, phrase, missed>>

InitResultMsg(m) ==
  /\ m.is = "init"
  /\ table' = [table EXCEPT !.initialized = @ \/ m.ok]
  /\ phrase' = (phrase \/ m.phrase)
  /\ missed' = (missed \/ (m.phrase /\ prompt # "none"))
  /\ UNCHANGED picker

PickerMsg(m) ==
  /\ m.is \in {"selected", "cancelled"}
  /\ picker' = FALSE
  /\ UNCHANGED <<table, phrase, missed>>

StatusAfter(m) == IF m.is \in {"selected", "cancelled"} THEN status ELSE "said"

Handle(m) ==
  /\ m \in msgs
  /\ msgs' = msgs \ {m}
  /\ IF Heard(m)
     THEN /\ IdentitiesMsg(m) \/ OpResultMsg(m) \/ InitResultMsg(m) \/ PickerMsg(m)
          /\ status' = StatusAfter(m)
          /\ Ask(AskAfter(m))
     ELSE UNCHANGED <<table, picker, phrase, missed, status, cmds, crossed, unlisted>>
  /\ UNCHANGED <<here, vault, prompt, held, filled, recovery, autoload, actions, seen>>

(* The Agent tab's keys and commands, or another terminal.  Nothing lists the vault again
   while the tab is active. *)
Elsewhere(v) ==
  /\ actions < MaxActions
  /\ actions' = actions + 1
  /\ vault' = v
  /\ unlisted' = (unlisted \/ (here /\ "list" \notin cmds))
  /\ UNCHANGED <<here, screen, flow, crossed, missed, seen>>

(* Another terminal makes the vault. *)
InitElsewhere == ~vault.exists /\ Elsewhere([NoVault EXCEPT !.exists = TRUE])

Next ==
  \/ \E yes \in BOOLEAN : StartInit(yes) \/ StartAdd(yes) \/ EnterSecret(yes)
  \/ \E kind \in {"unlock", "unlockRecovery"} : StartUnlock(kind)
  \/ StartLock \/ ClosePhrase \/ SwitchTab \/ RunList \/ InitElsewhere
  \/ \E typed \in Passphrases \cup {""} : EnterNewPassphrase(typed)
  \/ \E choice \in {"selected", "cancelled"} : UsePicker(choice)
  \/ \E op \in RowOps : AskForRow(op)
  \/ \E op \in Ops : RunOp(op) \/ \E v \in Done(op) : Elsewhere(v)
  \/ \E name \in Inits : RunInit(name)
  \/ \E m \in msgs : Handle(m)

Spec == Init /\ [][Next]_vars

-----------------------------------------------------------------------------

(* Once every command and message is through, the table shows the vault as it is, whatever
   answers were lost while the user was on another tab and whatever was done there
   (vault.go:172-177).  Excepted: two listings on their way at once, and what another
   changes while the tab is active, which is not seen until the next listing. *)
TableIsTrue ==
  here /\ cmds = {} /\ msgs = {} /\ ~crossed /\ ~unlisted /\ ~table.failed =>
    table = Listing(vault)

(* The passphrase set aside for a new vault, initPassphrase, is kept only while its
   confirmation is asked for (vault.go:422-459). *)
AsideForConfirmation == held # "" => prompt = "init-confirm"

(* Every passphrase prompt opens empty, the confirmation too, although passInput keeps
   what was typed last when its prompt closes: nothing is confirmed, or tried, that was not
   typed for it (vault.go:433-463, :611-641). *)
PromptsOpenEmpty == prompt \in {"init-pass", "init-confirm", "unlock"} => ~filled

(* Who makes a vault with a recovery phrase, stays on the tab and opens no prompt over it
   sees the phrase: no key drops it before it was on the screen, even with the file picker
   opened in the meantime (vault.go:299-302, :825-862). *)
PhraseIsShown == vault.phrase /\ ~InitUnderWay /\ ~missed => phrase \/ seen

(* The tab says that it is initializing, locking or unlocking only while an answer is on
   its way, not even when one was lost while the user was on another tab (vault.go:457,
   :463, :651-660). *)
BusyHasCause == here /\ status = "busy" => cmds # {} \/ msgs # {}

(* A phrase is shown before it goes, and a passphrase is asked for twice
   (vault.go:299-302, :422-459, :825-862). *)
SecretsHandled == AsideForConfirmation /\ PromptsOpenEmpty /\ PhraseIsShown

(* At rest the tab shows the vault and says no more than that (vault.go:172-177). *)
ScreenIsTrue == TableIsTrue /\ BusyHasCause
=============================================================================

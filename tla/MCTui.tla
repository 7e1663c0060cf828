--------------------------------- MODULE MCTui ---------------------------------
(***************************************************************************)
(* The parts of the terminal interface for TLC: its frame and its five     *)
(* tabs.  What they share, the lock state and where messages go, each      *)
(* leaves open for itself, so they are checked side by side: a behaviour   *)
(* is one of one part, while the others stay as they began.                *)
(***************************************************************************)
EXTENDS TuiShell

CONSTANTS MaxPresses, MaxEvents, MaxActions, MaxSaves, MaxCommands, File, NoFile,
          Comment, Key, Renamed, NoLine

ASSUME TuiAssumption ==
  NoFile \notin File /\ NoLine \notin [source : {"file", "agent"}, key : Key]

VARIABLES
  part,
  agent, running, mode, locked, known, gen, footer, cmds, msgs, aTimers, presses, events,
  misled, mistaken,
  here, vault, table, status, prompt, held, filled, recovery, vPicker, autoload, phrase, vCmds,
  vMsgs, actions, crossed, unlisted, missed, seen,
  slot, type, name, edited, dir, confirm, files, work, saves, warned, mouse, unwarned,
  disk, eHere, loaded, field, original, eSlot, skips, text, ePicker, eWork, eMsgs, commands,
  hurried, typedFor,
  xHere, xSlot, line, xName, xTable, xPrompt, xText, xPicker, xWork, xMsgs, saved, xCommands,
  displaced

Agent == INSTANCE TuiAgent WITH timers <- aTimers
Vault == INSTANCE TuiVault WITH picker <- vPicker, cmds <- vCmds, msgs <- vMsgs
Create == INSTANCE TuiCreate
Edit == INSTANCE TuiEdit WITH here <- eHere, slot <- eSlot, picker <- ePicker,
  work <- eWork, msgs <- eMsgs
Export == INSTANCE TuiExport WITH here <- xHere, slot <- xSlot, name <- xName,
  table <- xTable, prompt <- xPrompt, text <- xText, picker <- xPicker, work <- xWork,
  msgs <- xMsgs, commands <- xCommands

agentVars ==
  <<agent, running, mode, locked, known, gen, footer, cmds, msgs, aTimers, presses, events,
    misled, mistaken>>
vaultVars ==
  <<here, vault, table, status, prompt, held, filled, recovery, vPicker, autoload, phrase, vCmds,
    vMsgs, actions, crossed, unlisted, missed, seen>>
createVars ==
  <<slot, type, name, edited, dir, confirm, files, work, saves, warned, mouse, unwarned>>
editVars ==
  <<disk, eHere, loaded, field, original, eSlot, skips, text, ePicker, eWork, eMsgs, commands,
    hurried, typedFor>>
exportVars ==
  <<xHere, xSlot, line, xName, xTable, xPrompt, xText, xPicker, xWork, xMsgs, saved,
    xCommands, displaced>>

(* Where a part that is not looked at stays. *)
TuiInit ==
  /\ part \in {"shell", "agent", "vault", "create", "edit", "export"}
  /\ Init /\ (part # "shell" => theme = 1)
  /\ Agent!Init /\ (part # "agent" => ~agent.up /\ agent.backend = "keys" /\ ~agent.locked)
  /\ Vault!Init /\ (part # "vault" => ~vault.exists)
  /\ Create!Init /\ (part # "create" => files = {})
  /\ Edit!Init /\ (part # "edit" => \A f \in File : disk[f] = CHOOSE c \in Comment : TRUE)
  /\ Export!Init

OnlyShell ==
  /\ part = "shell" /\ part' = part
  /\ UNCHANGED <<agentVars, vaultVars, createVars, editVars, exportVars>>
OnlyAgent ==
  /\ part = "agent" /\ part' = part
  /\ UNCHANGED <<vars, vaultVars, createVars, editVars, exportVars>>
OnlyVault ==
  /\ part = "vault" /\ part' = part
  /\ UNCHANGED <<vars, agentVars, createVars, editVars, exportVars>>
OnlyCreate ==
  /\ part = "create" /\ part' = part
  /\ UNCHANGED <<vars, agentVars, vaultVars, editVars, exportVars>>
OnlyEdit ==
  /\ part = "edit" /\ part' = part
  /\ UNCHANGED <<vars, agentVars, vaultVars, createVars, exportVars>>
OnlyExport ==
  /\ part = "export" /\ part' = part
  /\ UNCHANGED <<vars, agentVars, vaultVars, createVars, editVars>>

TuiNext ==
  \/ OnlyShell /\ Next
  \/ OnlyAgent /\ Agent!Next
  \/ OnlyVault /\ Vault!Next
  \/ OnlyCreate /\ Create!Next
  \/ OnlyEdit /\ Edit!Next
  \/ OnlyExport /\ Export!Next

allVars == <<part, vars, agentVars, vaultVars, createVars, editVars, exportVars>>

(* The fairness of TuiAgent!FairSpec. *)
TuiSpec ==
  /\ TuiInit /\ [][TuiNext]_allVars
  /\ WF_agentVars(part = "agent" /\ \E c \in Agent!Acts : Agent!RunAct(c))
  /\ \A c \in Agent!Refresh : WF_agentVars(part = "agent" /\ Agent!RunCheck(c))
  /\ WF_agentVars(part = "agent" /\ Agent!ReadState)
  /\ \A kind \in Agent!Messages : WF_agentVars(part = "agent" /\ Agent!HandleKind(kind))
  /\ WF_agentVars(part = "agent" /\ \E g \in aTimers : Agent!VaultPollMsg(g))

-----------------------------------------------------------------------------

(* The properties of the frame are those of TuiShell. *)

(* TuiAgent: the poll chain is alive, and nothing is deleted for good or locked without
   a passphrase by mistake (agent.go:196-215, :331-338, :569-593). *)
WatchesItsBackend == Agent!WatchesItsBackend

(* TuiAgent: the footer comes to show the agent as it is (agent.go:314-338, :1035-1039). *)
FooterCatchesUp == Agent!FooterCatchesUp

(* TuiVault: at rest the tab shows the vault (vault.go:172-177, :651-660). *)
ScreenIsTrue == Vault!ScreenIsTrue

(* TuiVault: a recovery phrase is shown before it goes, a passphrase is asked for twice
   (vault.go:299-302, :422-459, :825-862). *)
SecretsHandled == Vault!SecretsHandled

(* TuiCreate: with the keyboard the Create tab overwrites no key unwarned; the Export tab
   does not warn (create.go:217-221, :414-422). *)
OverwritesWarned == Create!OverwritesWarned

(* TuiCreate: the focus is never on options that are not shown (create.go:100-102).
   TuiExport: nor on a table or a key there is none of, and it is on the agent's table
   while that is shown, unless a key that was loading took it from there
   (export.go:109-119, :367-382, :416-421). *)
FocusIsShown == Create!OptionsFocusedWhenShown /\ Export!FocusShown

(* TuiEdit: a comment is edited and compared for the key it belongs to
   (edit.go:134-171, :295-300). *)
CommentOfItsKey == Edit!CommentOfItsKey

(* TuiExport: a key is saved under its own default name or one typed for it
   (export.go:177-191, :384-394). *)
SavedUnderOwnName == Export!SavedUnderOwnName
=============================================================================

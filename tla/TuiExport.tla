-------------------------------- MODULE TuiExport --------------------------------
(***************************************************************************)
(* The Export tab of the terminal interface (internal/tui/export.go): a    *)
(* public key is taken from a file or from the agent's table, and copied   *)
(* or saved in ~/.ssh.  Loading, fetching and saving run beside the tab,   *)
(* and their messages are lost when another tab is active.                 *)
(***************************************************************************)
EXTENDS FocusRing

CONSTANTS Key, NoLine,
          Renamed,      \* the keys whose file is not named as an agent's key of their type
          MaxCommands  \* bound: loads, fetches, copies and saves

VARIABLES
  here,      \* the tab is the active one
  slot,      \* ring.Index()
  line,      \* pubKeyStr, with keyType and sourcePath
  name,      \* saveFilename.Value()
  table,     \* showAgent
  prompt,    \* showSaveIn
  text,      \* saveFilename.Focused()
  picker,    \* fileSelector.Visible()
  work, msgs,
  saved,     \* what has been written: lines and their names
  commands,
  displaced  \* auxiliary: a key that was loading took the focus from the agent's table

screen == <<slot, line, name, table, prompt, text, picker>>
vars == <<here, screen, work, msgs, saved, commands, displaced>>

LoadFile == 0
LoadAgent == 1
AgentTable == 2
PubKey == 3
Copy == 4
SaveFile == 5

(* Names in the field: none, a default one, and one typed for a line. *)
NoName == [base |-> "", typed |-> NoLine]
Base(b) == [base |-> b, typed |-> NoLine]
TypedFor(l) == [base |-> "", typed |-> l]

(* updateDefaultSaveFilename: the base name of the file a key was loaded from, or the type
   of an agent's key.  There is one type, so the keys of the agent share a name, and a
   file may have it too. *)
DefaultName(l) == Base(IF l.source = "file" /\ l.key \in Renamed THEN l.key ELSE "id_type")

(* Mutation of Skipped: the agent's table alone is skipped. *)
BugSkipped == IF table THEN {} ELSE {AgentTable}

(* syncRingSkip *)
Skipped ==
  (IF table THEN {} ELSE {AgentTable}) \cup (IF line = NoLine THEN {PubKey, Copy, SaveFile} ELSE {})

Init ==
  /\ here = FALSE
  /\ slot = LoadFile /\ line = NoLine /\ name = NoName
  /\ table = FALSE /\ prompt = FALSE /\ text = FALSE /\ picker = FALSE
  /\ work = {} /\ msgs = {} /\ saved = {} /\ commands = 0
  /\ displaced = FALSE

-----------------------------------------------------------------------------

Act == here /\ UNCHANGED <<here, msgs, saved, displaced>>
NoCommand == UNCHANGED <<work, commands>>
Command(do, l, n) ==
  /\ commands < MaxCommands
  /\ commands' = commands + 1
  /\ work' = work \cup {[do |-> do, line |-> l, name |-> n]}

AtTable == table /\ slot = AgentTable
Keys == Act /\ ~picker /\ ~AtTable /\ ~prompt
Mouse == Act /\ ~picker /\ ~table /\ ~prompt

(* Mutation of NameOf: the file of an earlier key still names the one from the agent. *)
BugNameOf(l) == IF l.source = "agent" /\ line # NoLine THEN DefaultName(line) ELSE DefaultName(l)

NameOf(l) == DefaultName(l)

Take(l) ==
  /\ line' = l /\ name' = NameOf(l)
  /\ slot' = PubKey

(* handleAgentTable: enter on a row.  (esc never gets here: Skeleton takes it while the
   tab has a modal.) *)
PickRow(k) ==
  /\ here /\ ~picker /\ AtTable
  /\ Take([source |-> "agent", key |-> k])
  /\ table' = FALSE /\ displaced' = FALSE
  /\ UNCHANGED <<here, msgs, saved>>
  /\ NoCommand /\ UNCHANGED <<prompt, text, picker>>

(* advanceFocus: the ring is not gone round but from its first slot. *)
AdvanceFocus ==
  /\ Keys
  /\ LET from == ClampToValid(6, Skipped, slot)
         next == RingNext(6, Skipped, from) IN
       \/ slot' = RingPrev(Skipped, from).slot
       \/ slot' = IF next < from /\ from # LoadFile THEN from ELSE next
  /\ NoCommand /\ UNCHANGED <<line, name, table, prompt, text, picker>>

(* handleKeys: left and right go by the row's own button. *)
TurnRow ==
  /\ Keys
  /\ \/ slot \in {LoadFile, LoadAgent} /\ slot' \in {LoadFile, LoadAgent}
     \/ slot \in {Copy, SaveFile} /\ slot' \in {Copy, SaveFile}
  /\ NoCommand /\ UNCHANGED <<line, name, table, prompt, text, picker>>

(* handleKeys: enter; handleMouse: the buttons, the lower ones once there is a key. *)
Press(s) ==
  /\ \/ Keys /\ slot = s
     \/ Mouse /\ (s \in {Copy, SaveFile} => line # NoLine)
  /\ slot' = s
  /\ CASE s = LoadFile  -> picker' = TRUE /\ NoCommand /\ UNCHANGED <<prompt, text>>
       [] s = LoadAgent -> Command("fetch", NoLine, NoName) /\ UNCHANGED <<prompt, text, picker>>
       [] s = Copy      -> Command("copy", line, NoName) /\ UNCHANGED <<prompt, text, picker>>
       [] s = SaveFile  -> prompt' = TRUE /\ text' = TRUE /\ NoCommand /\ UNCHANGED picker
  /\ UNCHANGED <<line, name, table>>

(* handleSaveInput.  While a save runs the prompt is there, without the keyboard. *)
Type ==
  /\ Act /\ ~picker /\ ~AtTable /\ prompt /\ text
  /\ name' \in {NoName, TypedFor(line)}
  /\ NoCommand /\ UNCHANGED <<slot, line, table, prompt, text, picker>>

ConfirmName ==
  /\ Act /\ ~picker /\ ~AtTable /\ prompt
  /\ text' = FALSE
  /\ IF name = NoName THEN prompt' = FALSE /\ NoCommand
     ELSE Command("save", line, name) /\ UNCHANGED prompt
  /\ UNCHANGED <<slot, line, name, table, picker>>

(* FileSelectedMsg and FilePickerCancelledMsg, handled at once. *)
UsePicker ==
  /\ Act /\ picker
  /\ picker' = FALSE
  /\ \/ \E k \in Key : Command("load", [source |-> "file", key |-> k], NoName)
     \/ NoCommand
  /\ UNCHANGED <<slot, line, name, table, prompt, text>>

SwitchTab == here' = ~here /\ UNCHANGED <<screen, work, msgs, saved, commands, displaced>>

-----------------------------------------------------------------------------
(* exportLoadKeyCmd, exportFetchAgentKeysCmd, copyToClipboardCmd, exportSavePubKeyCmd *)
Run(c) ==
  /\ c \in work
  /\ work' = work \ {c}
  /\ \E ok \in BOOLEAN :
       /\ msgs' = msgs \cup {[is |-> c.do, ok |-> ok, line |-> c.line]}
       /\ saved' = IF ok /\ c.do = "save" THEN saved \cup {[line |-> c.line, name |-> c.name]}
                   ELSE saved
  /\ UNCHANGED <<here, screen, commands, displaced>>

(* The key takes the focus, also from the agent's table, which stays on the screen. *)
KeyLoadedMsg(m) ==
  /\ m.is = "load" /\ m.ok
  /\ Take(m.line) /\ displaced' = table
  /\ UNCHANGED <<table, prompt>>

AgentKeysMsg(m) ==
  /\ m.is = "fetch" /\ m.ok
  /\ table' = TRUE /\ slot' = AgentTable /\ displaced' = FALSE
  /\ UNCHANGED <<line, name, prompt>>

SaveMsg(m) ==
  m.is = "save" /\ prompt' = FALSE /\ UNCHANGED <<slot, line, name, table, displaced>>

OtherMsg(m) ==
  /\ m.is = "copy" \/ (m.is # "save" /\ ~m.ok)
  /\ UNCHANGED <<slot, line, name, table, prompt, displaced>>

Handle(m) ==
  /\ m \in msgs
  /\ msgs' = msgs \ {m}
  /\ IF here THEN KeyLoadedMsg(m) \/ AgentKeysMsg(m) \/ SaveMsg(m) \/ OtherMsg(m)
     ELSE UNCHANGED <<slot, line, name, table, prompt, displaced>>
  /\ UNCHANGED <<here, text, picker, work, saved, commands>>

Next ==
  \/ \E k \in Key : PickRow(k)
  \/ \E s \in {LoadFile, LoadAgent, Copy, SaveFile} : Press(s)
  \/ AdvanceFocus \/ TurnRow \/ Type \/ ConfirmName \/ UsePicker \/ SwitchTab
  \/ \E c \in work : Run(c)
  \/ \E m \in msgs : Handle(m)

Spec == Init /\ [][Next]_vars

-----------------------------------------------------------------------------

(* The focus never rests on a table that is not shown or on the actions of a key there
   is none of, in whatever order keys and tables arrive, so Enter never copies or saves an
   empty line; and while the agent's table is shown, which is then all that is drawn, the
   focus is on it (export.go:109-119, :177-206, :367-382, :416-421).  Excepted: a key that
   was loading arrives while the table is shown and takes the focus to the form that the
   table hides. *)
FocusShown ==
  /\ slot = AgentTable => table
  /\ slot \in {PubKey, Copy, SaveFile} => line # NoLine
  /\ table /\ ~displaced => slot = AgentTable

(* A key is saved under its own default name or under one typed for it, never under one
   typed for another or left by another: name and key change together, also when a key that
   was loading arrives with the prompt open (export.go:177-191, :345-365, :384-394).  Two
   keys may have the same default name; then the later overwrites the earlier unasked. *)
SavedUnderOwnName == \A s \in saved : s.name \in {TypedFor(s.line), DefaultName(s.line)}
=============================================================================

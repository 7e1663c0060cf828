--------------------------------- MODULE TuiEdit ---------------------------------
(***************************************************************************)
(* The Edit tab of the terminal interface (internal/tui/edit.go): a key    *)
(* file is chosen, its comment edited, and saved.  Loading and saving run  *)
(* beside the tab, and their messages are lost when another tab is active. *)
(* What a save asks of the agent is ClientCommands' EditSync; here it is   *)
(* the file that counts.  Surrounding blanks are left out of comments.     *)
(***************************************************************************)
EXTENDS FocusRing

CONSTANTS File, NoFile, Comment,
          MaxCommands  \* bound: loads and saves

VARIABLES
  disk,     \* file -> its comment
  here,     \* the tab is the active one
  loaded,   \* loadedPath, with rawKey
  field,    \* commentIn.Value()
  original, \* originalComment
  slot,     \* ring.Index()
  skips,    \* advanceFocus has given the ring its skip function
  text,     \* commentIn.Focused()
  picker,   \* fileSelector.Visible()
  work, msgs,
  commands,
  hurried,  \* auxiliary: the user did something while a load or a save was under way,
            \* or a save failed half-way
  typedFor  \* auxiliary: the file that was loaded when the field was last filled or typed in

screen == <<loaded, field, original, slot, skips, text, picker>>
vars == <<disk, here, screen, work, msgs, commands, hurried, typedFor>>

SelectSlot == 0
CommentSlot == 1
SaveSlot == 2

Init ==
  /\ disk \in [File -> Comment]
  /\ here = FALSE
  /\ loaded = NoFile /\ field = "" /\ original = ""
  /\ slot = SelectSlot /\ skips = FALSE /\ text = FALSE /\ picker = FALSE
  /\ work = {} /\ msgs = {} /\ commands = 0
  /\ hurried = FALSE /\ typedFor = NoFile

(* advanceFocus gives the ring its skip function before it moves; a loaded key is asked
   for whenever it is used. *)
Hidden == IF loaded = NoFile THEN {CommentSlot, SaveSlot} ELSE {}

(* SetIndex(editFocusComment), by the skip function there is. *)
FocusComment == slot' = SetIndex(3, IF skips THEN Hidden ELSE {}, CommentSlot)

UnderWay == work # {} \/ msgs # {}
Hurry == hurried' = (hurried \/ UnderWay)

-----------------------------------------------------------------------------
(* What the user does. *)

Act == here /\ Hurry /\ UNCHANGED <<disk, here, msgs>>
NoCommand == UNCHANGED <<work, commands>>
Command(c) == commands < MaxCommands /\ commands' = commands + 1 /\ work' = work \cup {c}
KeepKey == UNCHANGED <<loaded, field, original, typedFor>>

(* FileSelectedMsg, handled as soon as the file is picked: the picker stays until the
   key is read. *)
SelectFile(f) ==
  /\ Act /\ picker
  /\ Command([do |-> "load", file |-> f, comment |-> ""])
  /\ KeepKey /\ UNCHANGED <<slot, skips, text, picker>>

(* handleKeys, handleMouse: Select file. *)
ShowPicker ==
  /\ Act /\ ~picker
  /\ \/ slot = SelectSlot
     \/ loaded = NoFile
  /\ slot' = SelectSlot /\ picker' = TRUE
  /\ NoCommand /\ KeepKey /\ UNCHANGED <<skips, text>>

(* handleCommentInput *)
Type(c) ==
  /\ Act /\ ~picker /\ text /\ slot = CommentSlot
  /\ field' = c /\ typedFor' = loaded
  /\ NoCommand /\ UNCHANGED <<loaded, original, slot, skips, text, picker>>

(* handleKeys: enter on the comment; handleMouse: a click in it. *)
EnterComment ==
  /\ Act /\ ~picker
  /\ slot = CommentSlot \/ loaded # NoFile
  /\ slot' = CommentSlot /\ text' = TRUE
  /\ NoCommand /\ KeepKey /\ UNCHANGED <<skips, picker>>

(* advanceFocus: down from Save stays there. *)
AdvanceFocus ==
  /\ Act /\ ~picker
  /\ skips' = TRUE
  /\ LET from == ClampToValid(3, Hidden, slot)
         next == RingNext(3, Hidden, from) IN
       \/ slot' = RingPrev(Hidden, from).slot
       \/ slot' = IF loaded # NoFile /\ next = SelectSlot THEN SaveSlot ELSE next
  /\ text' = (slot' = CommentSlot)
  /\ NoCommand /\ KeepKey /\ UNCHANGED picker

(* Enter on the button, or a click: the mouse needs a key to be loaded. *)
AtButtons == Act /\ ~picker /\ (slot = SaveSlot \/ loaded # NoFile)

Reset ==
  /\ AtButtons /\ loaded # NoFile
  /\ field' = original /\ typedFor' = loaded
  /\ slot' = CommentSlot /\ text' = TRUE
  /\ NoCommand /\ UNCHANGED <<loaded, original, skips, picker>>

(* Mutation of BackTo: the focus stays on the buttons. *)
BugBackTo == SaveSlot

BackTo == SelectSlot

(* editGoBack, and the file picker again. *)
Back ==
  /\ AtButtons /\ loaded # NoFile
  /\ loaded' = NoFile /\ original' = "" /\ field' = "" /\ typedFor' = NoFile
  /\ slot' = BackTo /\ text' = FALSE /\ picker' = TRUE
  /\ NoCommand /\ UNCHANGED skips

(* Save, with nothing to do.  A click with no change goes on to the comment. *)
SaveNothing ==
  /\ AtButtons
  /\ loaded = NoFile \/ field \in {original, ""}
  /\ \/ slot = SaveSlot /\ UNCHANGED <<slot, text>>
     \/ loaded # NoFile /\ field = original /\ slot' = CommentSlot /\ text' = TRUE
     \/ loaded # NoFile /\ field # original /\ slot' = SaveSlot /\ text' = FALSE
  /\ NoCommand /\ KeepKey /\ UNCHANGED <<skips, picker>>

Save ==
  /\ AtButtons
  /\ loaded # NoFile /\ field \notin {original, ""}
  /\ slot' = SaveSlot /\ text' = FALSE
  /\ Command([do |-> "save", file |-> loaded, comment |-> field])
  /\ KeepKey /\ UNCHANGED <<skips, picker>>

(* Entering the tab sends it its size: with no key loaded it shows the picker. *)
SwitchTab ==
  /\ here' = ~here
  /\ picker' = (picker \/ (here' /\ loaded = NoFile))
  /\ Hurry
  /\ KeepKey /\ UNCHANGED <<disk, slot, skips, text, work, msgs, commands>>

-----------------------------------------------------------------------------
(* editLoadKeyCmd *)
RunLoad(c) ==
  /\ c \in work /\ c.do = "load"
  /\ work' = work \ {c}
  /\ \E ok \in BOOLEAN :
       msgs' = msgs \cup {[is |-> "loaded", ok |-> ok, file |-> c.file, comment |-> disk[c.file]]}
  /\ UNCHANGED <<disk, here, screen, commands, hurried, typedFor>>

(* editSaveKeyCmd: the private file is written, and then the public one, which may fail. *)
RunSave(c) ==
  /\ c \in work /\ c.do = "save"
  /\ work' = work \ {c}
  /\ \E ok, written \in BOOLEAN :
       /\ ok => written
       /\ disk' = IF written THEN [disk EXCEPT ![c.file] = c.comment] ELSE disk
       /\ hurried' = (hurried \/ (written /\ ~ok))
       /\ msgs' = msgs \cup {[is |-> "saved", ok |-> ok, file |-> c.file, comment |-> c.comment]}
  /\ UNCHANGED <<here, screen, commands, typedFor>>

(* Mutation of FieldAfterLoad: what was being typed is kept. *)
BugFieldAfterLoad(m) == IF text THEN field ELSE m.comment

FieldAfterLoad(m) == m.comment

(* editKeyLoadedMsg: an error leaves the picker open. *)
KeyLoadedMsg(m) ==
  /\ m.is = "loaded"
  /\ IF m.ok
     THEN /\ loaded' = m.file /\ original' = m.comment /\ field' = FieldAfterLoad(m)
          /\ typedFor' = IF field' = m.comment THEN m.file ELSE typedFor
          /\ slot' = CommentSlot /\ text' = TRUE /\ picker' = FALSE
     ELSE KeepKey /\ UNCHANGED <<slot, text, picker>>

(* Mutation of OriginalAfterSave: the comment before the save is kept. *)
BugOriginalAfterSave == original

(* The field as it is by now. *)
OriginalAfterSave == field

(* editSaveMsg: the focus goes to the comment, whether or not the key is still loaded. *)
SaveMsg(m) ==
  /\ m.is = "saved"
  /\ IF m.ok
     THEN original' = OriginalAfterSave /\ FocusComment /\ text' = TRUE
     ELSE UNCHANGED <<original, slot, text>>
  /\ UNCHANGED <<loaded, field, typedFor, picker>>

Handle(m) ==
  /\ m \in msgs
  /\ msgs' = msgs \ {m}
  /\ IF here THEN KeyLoadedMsg(m) \/ SaveMsg(m) ELSE UNCHANGED <<screen, typedFor>>
  /\ UNCHANGED <<disk, here, skips, work, commands, hurried>>

Next ==
  \/ \E f \in File : SelectFile(f)
  \/ \E c \in Comment \cup {""} : Type(c)
  \/ ShowPicker \/ EnterComment \/ AdvanceFocus
  \/ Reset \/ Back \/ SaveNothing \/ Save \/ SwitchTab
  \/ \E c \in work : RunLoad(c) \/ RunSave(c)
  \/ \E m \in msgs : Handle(m)

Spec == Init /\ [][Next]_vars

-----------------------------------------------------------------------------

(* "no changes" is said by the comment in the file, for a user who lets each load and
   each save finish: what is typed, or loaded, while a save runs is taken for what was
   saved (edit.go:154-171, :229-236, :295-300). *)
OriginalIsFile ==
  ~hurried /\ ~UnderWay /\ loaded # NoFile => original = disk[loaded]

(* The comment in the field was written for the key that is loaded, however late the
   key was loaded: no key gets another's comment (edit.go:134-152, :328-342). *)
FieldBelongsToKey == typedFor = loaded

(* Without a key the focus is on Select file and no text field has the keyboard, for the
   same user: a save that ends after Back takes the keyboard for a field that is not
   shown (edit.go:154-171, :328-342). *)
NoKeyNoField == ~hurried /\ loaded = NoFile => slot = SelectSlot /\ ~text

(* The comment on the screen, the one in the file and the key they belong to are not
   mixed up by late loads and saves (edit.go:134-171, :295-342). *)
CommentOfItsKey == OriginalIsFile /\ FieldBelongsToKey /\ NoKeyNoField
=============================================================================

-------------------------------- MODULE TuiCreate --------------------------------
(***************************************************************************)
(* The Create tab of the terminal interface (internal/tui/create.go): the  *)
(* form, and the confirmation it asks for before a file is overwritten.    *)
(* The keys Skeleton does not keep for itself come here; esc and q are     *)
(* not among them.  An input has the keyboard exactly while the ring is on *)
(* its slot.  Bits and comment are left out.                               *)
(***************************************************************************)
EXTENDS FocusRing, FiniteSets

CONSTANT MaxSaves  \* bound: saves that go ahead

VARIABLES
  slot,     \* ring.Index()
  type,     \* the type row, and lastKeyType
  name,     \* filenameIn
  edited,   \* fileEdited
  dir,      \* dirInput
  confirm,  \* confirmSave
  files,    \* the private keys on the disk
  work,     \* paths being generated, and whether an answer is due
  saves,
  warned,   \* auxiliary: the path of the last warning
  mouse,    \* auxiliary: the mouse has been used
  unwarned  \* auxiliary: a save went ahead over a file nobody was warned of

form == <<slot, type, name, edited, dir>>
disk == <<files, work>>
history == <<saves, warned, mouse, unwarned>>
vars == <<form, confirm, disk, history>>

TypeSlot == 0
OptionSlot == 1
CommentSlot == 2
DirSlot == 3
NameSlot == 4
SaveSlot == 5
Inputs == {CommentSlot, DirSlot, NameSlot}

KeyTypes == {"ed25519", "rsa"}
Names == {"id_ed25519", "id_rsa"}
Dirs == {"home", "away"}
Default(t) == IF t = "rsa" THEN "id_rsa" ELSE "id_ed25519"

(* Mutation of Skipped: an ed25519 key has options. *)
BugSkipped == {}

Skipped == IF type = "ed25519" THEN {OptionSlot} ELSE {}

Init ==
  /\ slot = TypeSlot /\ type = "ed25519" /\ name = "id_ed25519" /\ edited = FALSE
  /\ dir = "home" /\ confirm = FALSE
  /\ files \in SUBSET (Dirs \X Names) /\ work = [paths |-> {}, answers |-> FALSE]
  /\ saves = 0 /\ warned = <<>> /\ mouse = FALSE /\ unwarned = FALSE

-----------------------------------------------------------------------------

(* syncKeyTypeChange: the name follows the type until the user types one. *)
SetType(t) ==
  /\ type' = t
  /\ name' = IF t # type /\ ~edited THEN Default(t) ELSE name
  /\ UNCHANGED <<edited, dir>>

KeepForm == UNCHANGED <<type, name, edited, dir>>

Path == <<dir, IF name = "" THEN Default(type) ELSE name>>

(* doSave *)
DoSave ==
  /\ KeepForm
  /\ IF ~confirm /\ Path \in files
     THEN /\ confirm' = TRUE /\ warned' = Path
          /\ UNCHANGED <<disk, saves, unwarned>>
     ELSE /\ saves < MaxSaves /\ saves' = saves + 1
          /\ confirm' = FALSE
          /\ work' = [work EXCEPT !.paths = @ \cup {Path}]
          /\ unwarned' = (unwarned \/ (Path \in files /\ warned # Path))
          /\ UNCHANGED <<files, warned>>

Quietly == UNCHANGED <<disk, saves, warned, unwarned>>

(* Mutation of ConfirmAfterKey: only another key type takes the confirmation back. *)
BugConfirmAfterKey == confirm /\ slot # TypeSlot

(* handleKeys: every key but enter on Save takes the confirmation back. *)
ConfirmAfterKey == FALSE

(* focusNext and focusPrev, from an input or from handleKeys. *)
MoveFocus ==
  /\ \/ slot' = RingNext(6, Skipped, slot)
     \/ slot' = RingPrev(Skipped, slot).slot
  /\ confirm' = IF slot \in Inputs THEN confirm ELSE ConfirmAfterKey
  /\ KeepForm /\ Quietly /\ UNCHANGED mouse

(* handleKeys, on the rows and the button: left and right. *)
TurnRow ==
  /\ slot \notin Inputs
  /\ confirm' = ConfirmAfterKey
  /\ IF slot = TypeSlot THEN \E t \in KeyTypes : SetType(t) ELSE KeepForm
  /\ Quietly /\ UNCHANGED <<slot, mouse>>

PressEnter ==
  /\ slot = SaveSlot
  /\ DoSave
  /\ UNCHANGED <<slot, mouse>>

(* handleDirInput, handleFilenameInput *)
Type ==
  /\ \/ slot = DirSlot /\ dir' \in Dirs /\ UNCHANGED <<name, edited>>
     \/ slot = NameSlot /\ name' \in Names \cup {""} /\ edited' = TRUE /\ UNCHANGED dir
  /\ Quietly /\ UNCHANGED <<slot, type, confirm, mouse>>

(* handleMouse: a click leaves the confirmation as it is. *)
Click ==
  /\ mouse' = TRUE
  /\ \/ slot' = TypeSlot /\ (\E t \in KeyTypes : SetType(t)) /\ Quietly /\ UNCHANGED confirm
     \/ type # "ed25519" /\ slot' = OptionSlot /\ KeepForm /\ Quietly /\ UNCHANGED confirm
     \/ slot' \in Inputs /\ KeepForm /\ Quietly /\ UNCHANGED confirm
     \/ slot' = SaveSlot /\ DoSave

(* generateKeyCmd, which may fail before or after the private key is written. *)
Generate(path) ==
  /\ path \in work.paths
  /\ work' = [paths |-> work.paths \ {path}, answers |-> TRUE]
  /\ files' \in {files, files \cup {path}}
  /\ UNCHANGED <<form, confirm, history>>

(* keyGenDoneMsg, which is lost when another tab is active. *)
KeyGenDoneMsg ==
  /\ work.answers
  /\ work' = [work EXCEPT !.answers = FALSE]
  /\ confirm' \in {FALSE, confirm}
  /\ UNCHANGED <<form, files, history>>

Next ==
  \/ MoveFocus \/ TurnRow \/ PressEnter \/ Type \/ Click \/ KeyGenDoneMsg
  \/ \E path \in Dirs \X Names : Generate(path)

Spec == Init /\ [][Next]_vars

-----------------------------------------------------------------------------

(* With the keyboard alone no file is overwritten without a warning that named it, and
   a warning about one file never covers another (create.go:217-221, :414-422).  With the
   mouse, which moves about without taking the confirmation back, it can be. *)
OverwritesWarned == unwarned => mouse

(* The focus never rests on the options while they are not shown, by whatever way the
   type changed (create.go:100-102, :169-176). *)
OptionsFocusedWhenShown == slot = OptionSlot => type # "ed25519"
=============================================================================

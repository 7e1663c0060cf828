----------------------------- MODULE TuiTabs_proof -----------------------------
(***************************************************************************)
(* Proofs about the Create, Edit, Export and Vault tabs of the terminal    *)
(* interface, for any number of files, keys, commands and messages on      *)
(* their way.  Each tab has an inductive invariant of its own; the step of *)
(* another part leaves its variables alone.                                *)
(***************************************************************************)
EXTENDS MCTui, FocusRing, WellFoundedInduction, TLAPS

(* The fairness of TuiSpec is of no use here. *)
LEMMA SafetyOfSpec == TuiSpec => TuiInit /\ [][TuiNext]_allVars
BY PTL DEF TuiSpec

-----------------------------------------------------------------------------
(* The focus ring. *)

LEMMA LeastExists ==
  ASSUME NEW S, S \subseteq Nat, S # {}
  PROVE  \E x \in S : \A y \in S : x <= y
<1>1. IsWellFoundedOn(OpToRel(<, Nat), Nat)
  BY NatLessThanWellFounded
<1>2. PICK x \in S : \A y \in S : ~(<<y, x>> \in OpToRel(<, Nat))
  BY <1>1, WFMin
<1>3. \A y \in S : ~(y < x)
  BY <1>2 DEF OpToRel
<1> QED
  BY <1>3

LEMMA LeastOf == ASSUME NEW S, S \subseteq Nat, S # {} PROVE Min(S) \in S
BY LeastExists DEF Min

LEMMA GreatestOf ==
  ASSUME NEW n \in Nat, NEW S, S \subseteq 0 .. n, S # {}
  PROVE  Max(S) \in S
<1> DEFINE D == {k \in Nat : \E x \in S : k = n - x}
<1>1. D # {} /\ D \subseteq Nat
  <2>1. \A x \in S : n - x \in D
    OBVIOUS
  <2> QED
    BY <2>1
<1>2. PICK k \in D : \A l \in D : k <= l
  BY <1>1, LeastExists
<1>3. PICK x \in S : k = n - x
  BY <1>2
<1>4. \A y \in S : x >= y
  BY <1>2, <1>3
<1> QED
  BY <1>4 DEF Max

(* What a ring of n slots moves to is a slot that is shown, as long as one is. *)
LEMMA ClampShown ==
  ASSUME NEW n \in Nat \ {0}, NEW skip, NEW i \in Nat, i < n, 0 \notin skip
  PROVE  ClampToValid(n, skip, i) \in Nat \ skip /\ ClampToValid(n, skip, i) < n
<1> DEFINE steps == {k \in 0 .. n - 1 : (i + k) % n \notin skip}
<1>1. steps # {}
  <2>1. CASE i = 0
    BY <2>1
  <2>2. CASE i # 0
    <3>1. n - i \in 0 .. n - 1 /\ (i + (n - i)) % n = 0
      BY <2>2
    <3> QED
      BY <3>1
  <2> QED
    BY <2>1, <2>2
<1>2. steps \subseteq Nat
  OBVIOUS
<1>3. ClampToValid(n, skip, i) = (i + Min(steps)) % n
  BY <1>1 DEF ClampToValid
<1> HIDE DEF steps
<1>4. Min(steps) \in steps
  BY <1>1, <1>2, LeastOf
<1>5. Min(steps) \in Nat /\ (i + Min(steps)) % n \notin skip
  BY <1>4 DEF steps
<1> QED
  BY <1>3, <1>5

LEMMA NextShown ==
  ASSUME NEW n \in Nat \ {0}, NEW skip, NEW i \in Nat, i < n, i \notin skip
  PROVE  RingNext(n, skip, i) \in Nat \ skip /\ RingNext(n, skip, i) < n
<1> DEFINE steps == {k \in 1 .. n : (i + k) % n \notin skip}
<1>1. CASE steps = {}
  BY <1>1 DEF RingNext
<1>2. CASE steps # {}
  <2>1. steps \subseteq Nat
    OBVIOUS
  <2>2. RingNext(n, skip, i) = (i + Min(steps)) % n
    BY <1>2 DEF RingNext
  <2> HIDE DEF steps
  <2>3. Min(steps) \in steps
    BY <1>2, <2>1, LeastOf
  <2>4. Min(steps) \in Nat /\ (i + Min(steps)) % n \notin skip
    BY <2>3 DEF steps
  <2> QED
    BY <2>2, <2>4
<1> QED
  BY <1>1, <1>2

LEMMA PrevShown ==
  ASSUME NEW skip, NEW i \in Nat, 0 \notin skip
  PROVE  RingPrev(skip, i).slot \in Nat \ skip /\ RingPrev(skip, i).slot <= i
<1> DEFINE below == (0 .. i - 1) \ skip
<1>1. CASE below = {}
  BY <1>1 DEF RingPrev
<1>2. CASE below # {}
  <2>1. below \subseteq 0 .. i
    OBVIOUS
  <2>2. RingPrev(skip, i).slot = Max(below)
    BY <1>2 DEF RingPrev
  <2>3. \A j \in below : j \in Nat \ skip /\ j <= i
    OBVIOUS
  <2> HIDE DEF below
  <2>4. Max(below) \in below
    BY <1>2, <2>1, GreatestOf
  <2> QED
    BY <2>2, <2>3, <2>4
<1> QED
  BY <1>1, <1>2

(* The three tabs that have a ring use this one. *)
LEMMA OneRing ==
  /\ \A n, skip, i : /\ Create!RingNext(n, skip, i) = RingNext(n, skip, i)
                     /\ Edit!RingNext(n, skip, i) = RingNext(n, skip, i)
                     /\ Export!RingNext(n, skip, i) = RingNext(n, skip, i)
  /\ \A n, skip, i : /\ Edit!ClampToValid(n, skip, i) = ClampToValid(n, skip, i)
                     /\ Export!ClampToValid(n, skip, i) = ClampToValid(n, skip, i)
  /\ \A skip, i : /\ Create!RingPrev(skip, i) = RingPrev(skip, i)
                  /\ Edit!RingPrev(skip, i) = RingPrev(skip, i)
                  /\ Export!RingPrev(skip, i) = RingPrev(skip, i)
BY DEF RingNext, RingPrev, ClampToValid, Min, Max,
   Create!RingNext, Create!RingPrev, Create!Min, Create!Max,
   Edit!RingNext, Edit!RingPrev, Edit!ClampToValid, Edit!Min, Edit!Max,
   Export!RingNext, Export!RingPrev, Export!ClampToValid, Export!Min, Export!Max

-----------------------------------------------------------------------------
(* TuiCreate.  Without the mouse a confirmation is asked for only while the focus is on
   Save, about the path the form names. *)
CreateInv ==
  /\ slot \in 0 .. 5
  /\ mouse \in BOOLEAN /\ unwarned \in BOOLEAN
  /\ ~mouse => ~unwarned /\ (confirm => slot = Create!SaveSlot /\ warned = Create!Path)
  /\ Create!OptionsFocusedWhenShown

LEMMA CreateInit == Create!Init => CreateInv
<1> SUFFICES ASSUME Create!Init PROVE CreateInv
  OBVIOUS
<1>1. slot \in 0 .. 5 /\ Create!OptionsFocusedWhenShown
  BY DEF Create!Init, Create!OptionsFocusedWhenShown, Create!TypeSlot, Create!OptionSlot
<1>2. mouse \in BOOLEAN /\ unwarned \in BOOLEAN /\ ~unwarned /\ ~confirm
  BY DEF Create!Init
<1> QED
  BY <1>1, <1>2, Zenon DEF CreateInv

LEMMA CreateSlots ==
  /\ Create!TypeSlot = 0 /\ Create!OptionSlot = 1 /\ Create!CommentSlot = 2 /\ Create!DirSlot = 3
  /\ Create!NameSlot = 4 /\ Create!SaveSlot = 5 /\ Create!Inputs = {2, 3, 4}
BY DEF Create!TypeSlot, Create!OptionSlot, Create!CommentSlot, Create!DirSlot, Create!NameSlot,
   Create!SaveSlot, Create!Inputs

LEMMA CreateMoveFocus ==
  ASSUME CreateInv, Create!MoveFocus
  PROVE  CreateInv'
<1>1. slot \in (0 .. 5) \ Create!Skipped /\ 0 \notin Create!Skipped
  BY CreateSlots DEF CreateInv, Create!Skipped, Create!OptionsFocusedWhenShown
<1>2. slot' \in (0 .. 5) \ Create!Skipped
  <2>1. RingNext(6, Create!Skipped, slot) \in (0 .. 5) \ Create!Skipped
    <3>1. slot \in Nat /\ slot < 6 /\ slot \notin Create!Skipped /\ 6 \in Nat \ {0}
      BY <1>1
    <3>2. RingNext(6, Create!Skipped, slot) \in Nat \ Create!Skipped
          /\ RingNext(6, Create!Skipped, slot) < 6
      BY <3>1, NextShown, Zenon
    <3> QED
      BY <3>2
  <2>2. RingPrev(Create!Skipped, slot).slot \in (0 .. 5) \ Create!Skipped
    BY <1>1, PrevShown
  <2>3. slot' = RingNext(6, Create!Skipped, slot) \/ slot' = RingPrev(Create!Skipped, slot).slot
    BY OneRing, Zenon DEF Create!MoveFocus
  <2> QED
    BY <2>1, <2>2, <2>3
<1>3. UNCHANGED <<type, name, edited, dir, saves, warned, unwarned, mouse>>
  BY DEF Create!MoveFocus, Create!KeepForm, Create!Quietly
<1>4. confirm' => confirm /\ slot \in Create!Inputs
  BY DEF Create!MoveFocus, Create!ConfirmAfterKey
<1>5. slot' \in 0 .. 5 /\ Create!OptionsFocusedWhenShown'
  BY <1>2, <1>3, CreateSlots DEF Create!Skipped, Create!OptionsFocusedWhenShown
<1>6. ~mouse => ~confirm'
  BY <1>4, CreateSlots DEF CreateInv
<1> QED
  BY <1>3, <1>5, <1>6, Zenon DEF CreateInv

LEMMA CreateDoSave ==
  ASSUME CreateInv, Create!DoSave
  PROVE  /\ UNCHANGED <<type, name, edited, dir>> /\ unwarned' \in BOOLEAN
         /\ ~mouse => ~unwarned'
         /\ confirm' => warned' = Create!Path
BY DEF CreateInv, Create!DoSave, Create!KeepForm, Create!disk

LEMMA CreateNext == CreateInv /\ [Create!Next]_createVars => CreateInv'
<1> SUFFICES ASSUME CreateInv, [Create!Next]_createVars PROVE CreateInv'
  OBVIOUS
<1>1. CASE Create!TurnRow
  BY <1>1, CreateSlots DEF Create!TurnRow, Create!SetType, Create!KeepForm, Create!Quietly,
     Create!ConfirmAfterKey, CreateInv, Create!OptionsFocusedWhenShown, Create!disk
<1>2. CASE Create!PressEnter
  BY <1>2, CreateDoSave, CreateSlots
     DEF Create!PressEnter, CreateInv, Create!OptionsFocusedWhenShown, Create!Path
<1>3. CASE Create!Type
  <2>1. slot \in {Create!DirSlot, Create!NameSlot}
        /\ UNCHANGED <<slot, type, confirm, mouse, saves, warned, unwarned>>
    BY <1>3 DEF Create!Type, Create!Quietly
  <2>2. ~mouse => ~confirm
    BY <2>1, CreateSlots DEF CreateInv
  <2> QED
    BY <2>1, <2>2, Zenon DEF CreateInv, Create!OptionsFocusedWhenShown
<1>4. CASE Create!Click
  <2>1. mouse' = TRUE /\ unwarned' \in BOOLEAN
    <3>1. mouse' = TRUE /\ (Create!DoSave \/ Create!Quietly)
      BY <1>4, Zenon DEF Create!Click
    <3> QED
      BY <3>1, CreateDoSave DEF Create!Quietly, CreateInv
  <2>2. slot' \in 0 .. 5 /\ (slot' = 1 => type' # "ed25519")
    BY <1>4, CreateSlots DEF Create!Click, Create!KeepForm
  <2> QED
    BY <2>1, <2>2, CreateSlots DEF CreateInv, Create!OptionsFocusedWhenShown
<1>5. CASE UNCHANGED <<slot, type, name, dir, saves, warned, mouse, unwarned>> /\ (confirm' => confirm)
  BY <1>5 DEF CreateInv, Create!OptionsFocusedWhenShown, Create!Path
<1>6. ASSUME NEW path, Create!Generate(path)
      PROVE  UNCHANGED <<slot, type, name, dir, saves, warned, mouse, unwarned>> /\ (confirm' => confirm)
  BY <1>6 DEF Create!Generate, Create!form, Create!history
<1>7. ASSUME Create!KeyGenDoneMsg
      PROVE  UNCHANGED <<slot, type, name, dir, saves, warned, mouse, unwarned>> /\ (confirm' => confirm)
  <2>1. confirm' \in {FALSE, confirm}
    BY <1>7 DEF Create!KeyGenDoneMsg
  <2>2. confirm' => confirm
    BY <2>1
  <2> QED
    BY <1>7, <2>2, Zenon DEF Create!KeyGenDoneMsg, Create!form, Create!history
<1> QED
  BY <1>1, <1>2, <1>3, <1>4, <1>5, <1>6, <1>7, CreateMoveFocus DEF Create!Next, createVars

-----------------------------------------------------------------------------
(* TuiExport.  A key that is loading or loaded is one, and the name in the field is its
   own or was typed for it; so are the names of the saves under way. *)
OwnName(l, n) == n \in {Export!TypedFor(l), Export!DefaultName(l)}

SlotInRing == xSlot \in 0 .. 5

WorkIsNamed ==
  \A c \in xWork : /\ c.do = "load" => c.line # NoLine
                   /\ c.do = "save" => OwnName(c.line, c.name)

LoadsAreLines == \A m \in xMsgs : m.is = "load" => m.line # NoLine

FieldIsNamed == xName = Export!NoName \/ OwnName(line, xName)

ExportInv ==
  SlotInRing /\ Export!FocusShown /\ WorkIsNamed /\ LoadsAreLines /\ FieldIsNamed
    /\ Export!SavedUnderOwnName

LEMMA ExportSlots ==
  /\ Export!LoadFile = 0 /\ Export!LoadAgent = 1 /\ Export!AgentTable = 2 /\ Export!PubKey = 3
  /\ Export!Copy = 4 /\ Export!SaveFile = 5
BY DEF Export!LoadFile, Export!LoadAgent, Export!AgentTable, Export!PubKey, Export!Copy, Export!SaveFile

LEMMA ExportInit == Export!Init => ExportInv
<1> SUFFICES ASSUME Export!Init PROVE ExportInv
  OBVIOUS
<1>0. xSlot = 0
  BY ExportSlots DEF Export!Init
<1>1. SlotInRing /\ Export!FocusShown
  <2>1. xTable = FALSE
    BY DEF Export!Init
  <2> QED
    BY <1>0, <2>1, ExportSlots DEF SlotInRing, Export!FocusShown
<1>2. xWork = {} /\ xMsgs = {} /\ saved = {} /\ xName = Export!NoName
  BY DEF Export!Init
<1> QED
  BY <1>1, <1>2 DEF ExportInv, WorkIsNamed, LoadsAreLines, FieldIsNamed, Export!SavedUnderOwnName

(* Commands, once given, and what they carry. *)
LEMMA ExportCommand ==
  ASSUME NEW do, NEW l, NEW n, Export!Command(do, l, n)
  PROVE  \A c \in xWork' : c \in xWork \/ (c.do = do /\ c.line = l /\ c.name = n)
BY DEF Export!Command

(* What leaves the commands, the messages and the files alone, and the name with its
   key. *)
LEMMA ExportFocus ==
  ASSUME ExportInv, UNCHANGED <<xMsgs, saved, line, xName>>,
         \A c \in xWork' : c \in xWork \/ c.do \notin {"load", "save"},
         SlotInRing', Export!FocusShown'
  PROVE  ExportInv'
BY DEF ExportInv, WorkIsNamed, LoadsAreLines, FieldIsNamed, Export!SavedUnderOwnName, OwnName

LEMMA ExportShownSlot ==
  ASSUME ExportInv
  PROVE  xSlot \in Nat /\ xSlot < 6 /\ 0 \notin Export!Skipped /\ 6 \in Nat \ {0}
<1>1. xSlot \in Nat /\ xSlot < 6
  BY DEF ExportInv, SlotInRing
<1>2. 0 \notin Export!Skipped
  BY ExportSlots DEF Export!Skipped
<1> QED
  BY <1>1, <1>2

LEMMA ExportAdvanceFocus ==
  ASSUME ExportInv, Export!AdvanceFocus
  PROVE  ExportInv'
<1>1. PICK from : from = ClampToValid(6, Export!Skipped, xSlot)
  OBVIOUS
<1>2. from \in Nat \ Export!Skipped /\ from < 6
  BY <1>1, ExportShownSlot, ClampShown, Zenon
<1>3. xSlot' \in {RingNext(6, Export!Skipped, from), RingPrev(Export!Skipped, from).slot, from}
  BY <1>1, OneRing DEF Export!AdvanceFocus
<1>4. /\ RingNext(6, Export!Skipped, from) \in Nat \ Export!Skipped
      /\ RingNext(6, Export!Skipped, from) < 6
  BY <1>2, ExportShownSlot, NextShown, Zenon
<1>5. /\ RingPrev(Export!Skipped, from).slot \in Nat \ Export!Skipped
      /\ RingPrev(Export!Skipped, from).slot <= from
  BY <1>2, ExportShownSlot, PrevShown
<1>6. xSlot' \in (0 .. 5) \ Export!Skipped
  BY <1>2, <1>3, <1>4, <1>5
<1>7. UNCHANGED <<line, xTable, xMsgs, saved, xName, xWork, displaced>> /\ ~(xTable /\ xSlot = 2)
  BY ExportSlots DEF Export!AtTable, Export!AdvanceFocus, Export!Keys, Export!Act, Export!NoCommand
<1>8. Export!FocusShown'
  <2>1. CASE xTable
    <3>1. displaced
      BY <1>7, <2>1, ExportSlots DEF ExportInv, Export!FocusShown
    <3> QED
      BY <2>1, <3>1, <1>6, <1>7, ExportSlots DEF Export!Skipped, Export!FocusShown
  <2>2. CASE ~xTable
    BY <2>2, <1>6, <1>7, ExportSlots DEF Export!Skipped, Export!FocusShown
  <2> QED
    BY <2>1, <2>2
<1> QED
  BY <1>6, <1>7, <1>8, ExportFocus DEF SlotInRing

LEMMA ExportPress ==
  ASSUME ExportInv,
         NEW s \in {Export!LoadFile, Export!LoadAgent, Export!Copy, Export!SaveFile}, Export!Press(s)
  PROVE  ExportInv'
<1>1. UNCHANGED <<xMsgs, saved, line, xName, xTable, displaced>> /\ xSlot' = s
  BY DEF Export!Press, Export!Keys, Export!Mouse, Export!Act
<1>2. s \in {Export!Copy, Export!SaveFile} => line # NoLine
  BY DEF Export!Press, Export!Keys, Export!Mouse, ExportInv, Export!FocusShown
<1>3. \A c \in xWork' : c \in xWork \/ c.do \notin {"load", "save"}
  <2>1. CASE UNCHANGED xWork
    BY <2>1
  <2>2. ASSUME NEW do \in {"fetch", "copy"}, NEW l, NEW n, Export!Command(do, l, n)
        PROVE  \A c \in xWork' : c \in xWork \/ c.do \notin {"load", "save"}
    BY <2>2, ExportCommand
  <2>3. \/ UNCHANGED xWork
        \/ Export!Command("fetch", NoLine, Export!NoName)
        \/ Export!Command("copy", line, Export!NoName)
    BY ExportSlots DEF Export!Press, Export!NoCommand
  <2> QED
    BY <2>1, <2>2, <2>3, Zenon
<1>4. SlotInRing' /\ Export!FocusShown'
  <2>1. xTable => displaced
    BY ExportSlots DEF Export!Press, Export!Keys, Export!Mouse, Export!AtTable, ExportInv, Export!FocusShown
  <2> QED
    BY <1>1, <1>2, <2>1, ExportSlots DEF SlotInRing, Export!FocusShown
<1> QED
  BY <1>1, <1>3, <1>4, ExportFocus

LEMMA ExportRows ==
  ASSUME ExportInv, Export!TurnRow \/ Export!SwitchTab \/ UNCHANGED exportVars
  PROVE  ExportInv'
<1>1. UNCHANGED <<xMsgs, saved, line, xName, xTable, xWork, displaced>>
  BY DEF Export!TurnRow, Export!Keys, Export!Act, Export!NoCommand, Export!SwitchTab, Export!screen,
     exportVars
<1>2. CASE xSlot' = xSlot
  <2>1. SlotInRing' /\ Export!FocusShown'
    BY <1>1, <1>2, ExportSlots DEF ExportInv, SlotInRing, Export!FocusShown
  <2> QED
    BY <1>1, <2>1, ExportFocus
<1>3. CASE Export!TurnRow
  <2>1. \/ xSlot' \in {0, 1}
        \/ xSlot \in {4, 5} /\ xSlot' \in {4, 5}
    BY <1>3, ExportSlots DEF Export!TurnRow
  <2>2. xTable => displaced
    BY <1>3, ExportSlots DEF Export!TurnRow, Export!Keys, Export!AtTable, ExportInv, Export!FocusShown
  <2>3. SlotInRing' /\ Export!FocusShown'
    BY <1>1, <2>1, <2>2, ExportSlots DEF ExportInv, SlotInRing, Export!FocusShown
  <2> QED
    BY <1>1, <2>3, ExportFocus
<1> QED
  BY <1>2, <1>3 DEF Export!SwitchTab, Export!screen, exportVars

(* The name in the field changes with the key, or is typed. *)
LEMMA ExportTake ==
  ASSUME ExportInv, NEW l, l # NoLine, Export!Take(l), xTable' => displaced',
         UNCHANGED saved, xWork' \subseteq xWork, xMsgs' \subseteq xMsgs
  PROVE  ExportInv'
<1>1. line' = l /\ xSlot' = 3 /\ FieldIsNamed'
  BY ExportSlots DEF Export!Take, Export!NameOf, FieldIsNamed, OwnName
<1>2. SlotInRing' /\ Export!FocusShown'
  BY <1>1, ExportSlots DEF SlotInRing, Export!FocusShown
<1> QED
  BY <1>1, <1>2 DEF ExportInv, WorkIsNamed, LoadsAreLines, Export!SavedUnderOwnName

LEMMA ExportPickRow == ASSUME ExportInv, NEW k \in Key, Export!PickRow(k) PROVE ExportInv'
<1>1. PICK l : l = [source |-> "agent", key |-> k]
  OBVIOUS
<1>2. l # NoLine
  BY <1>1, TuiAssumption
<1>3. Export!Take(l) /\ xTable' = FALSE /\ UNCHANGED <<saved, xWork, xMsgs>>
  BY <1>1 DEF Export!PickRow, Export!NoCommand
<1> QED
  BY <1>2, <1>3, ExportTake

LEMMA ExportType == ASSUME ExportInv, Export!Type PROVE ExportInv'
<1>1. /\ UNCHANGED <<xSlot, line, xTable, xMsgs, saved, xWork, displaced>>
      /\ xName' = Export!NoName \/ xName' = Export!TypedFor(line)
  BY DEF Export!Type, Export!Act, Export!NoCommand
<1>2. FieldIsNamed'
  <2>1. CASE xName' = Export!NoName
    BY <2>1, Zenon DEF FieldIsNamed, Export!NoName
  <2>2. CASE xName' = Export!TypedFor(line)
    <3>1. xName' = Export!TypedFor(line')
      BY <1>1, <2>2
    <3> QED
      BY <3>1 DEF FieldIsNamed, OwnName, Export!TypedFor, Export!DefaultName, Export!NoName, Export!Base
  <2> QED
    BY <1>1, <2>1, <2>2
<1> QED
  BY <1>1, <1>2 DEF ExportInv, SlotInRing, Export!FocusShown, WorkIsNamed, LoadsAreLines,
     Export!SavedUnderOwnName

LEMMA ExportSends ==
  ASSUME ExportInv, Export!ConfirmName \/ Export!UsePicker
  PROVE  ExportInv'
<1>1. UNCHANGED <<xSlot, line, xName, xTable, xMsgs, saved, displaced>>
  BY DEF Export!ConfirmName, Export!UsePicker, Export!Act
<1>2. WorkIsNamed'
  <2>1. CASE UNCHANGED xWork
    BY <2>1 DEF ExportInv, WorkIsNamed
  <2>2. CASE xName # Export!NoName /\ \E do \in {"save"} : Export!Command(do, line, xName)
    <3>1. OwnName(line, xName)
      BY <2>2 DEF ExportInv, FieldIsNamed
    <3> QED
      <4>1. PICK do \in {"save"} : Export!Command(do, line, xName)
        BY <2>2
      <4>2. \A c \in xWork' : c \in xWork \/ (c.do = "save" /\ c.line = line /\ c.name = xName)
        BY <4>1, ExportCommand
      <4> QED
        BY <3>1, <4>2 DEF ExportInv, WorkIsNamed
  <2>3. ASSUME NEW k \in Key, Export!Command("load", [source |-> "file", key |-> k], Export!NoName)
        PROVE  WorkIsNamed'
    <3>1. PICK l : l = [source |-> "file", key |-> k]
      OBVIOUS
    <3>2. l # NoLine
      BY <3>1, TuiAssumption
    <3>3. PICK n : Export!Command("load", l, n)
      BY <2>3, <3>1, Zenon
    <3>4. \A c \in xWork' : c \in xWork \/ (c.do = "load" /\ c.line = l)
      BY <3>3, ExportCommand
    <3> QED
      BY <3>2, <3>4 DEF ExportInv, WorkIsNamed
  <2> QED
    BY <2>1, <2>2, <2>3 DEF Export!ConfirmName, Export!UsePicker, Export!NoCommand
<1> QED
  BY <1>1, <1>2
     DEF ExportInv, SlotInRing, Export!FocusShown, FieldIsNamed, LoadsAreLines,
         Export!SavedUnderOwnName

LEMMA ExportRun ==
  ASSUME ExportInv, NEW c \in xWork, Export!Run(c)
  PROVE  ExportInv'
<1>1. UNCHANGED <<xSlot, line, xName, xTable, displaced>> /\ xWork' \subseteq xWork
  BY DEF Export!Run, Export!screen
<1>2. \A m \in xMsgs' : m \in xMsgs \/ (m.is = c.do /\ m.line = c.line)
  BY DEF Export!Run
<1>3. \A s \in saved' : s \in saved \/ (c.do = "save" /\ s.line = c.line /\ s.name = c.name)
  BY DEF Export!Run
<1>4. LoadsAreLines'
  BY <1>2 DEF ExportInv, LoadsAreLines, WorkIsNamed
<1>5. Export!SavedUnderOwnName'
  BY <1>3 DEF ExportInv, Export!SavedUnderOwnName, WorkIsNamed, OwnName
<1> QED
  BY <1>1, <1>4, <1>5 DEF ExportInv, SlotInRing, Export!FocusShown, FieldIsNamed, WorkIsNamed

LEMMA ExportHandle ==
  ASSUME ExportInv, NEW m \in xMsgs, Export!Handle(m)
  PROVE  ExportInv'
<1>1. UNCHANGED <<xWork, saved>> /\ xMsgs' \subseteq xMsgs
  BY DEF Export!Handle
<1>2. CASE UNCHANGED <<xSlot, line, xName, xTable, displaced>>
  BY <1>1, <1>2 DEF ExportInv, SlotInRing, Export!FocusShown, FieldIsNamed, WorkIsNamed,
     LoadsAreLines, Export!SavedUnderOwnName
<1>3. CASE Export!KeyLoadedMsg(m)
  <2>1. m.line # NoLine /\ Export!Take(m.line) /\ displaced' = xTable /\ xTable' = xTable
    BY <1>3 DEF Export!KeyLoadedMsg, ExportInv, LoadsAreLines
  <2> QED
    BY <1>1, <2>1, ExportTake
<1>4. CASE Export!AgentKeysMsg(m)
  <2>1. xTable' = TRUE /\ xSlot' = 2 /\ UNCHANGED <<line, xName>>
    BY <1>4, ExportSlots DEF Export!AgentKeysMsg
  <2>2. SlotInRing' /\ Export!FocusShown'
    BY <2>1, ExportSlots DEF SlotInRing, Export!FocusShown
  <2> QED
    BY <1>1, <2>1, <2>2 DEF ExportInv, FieldIsNamed, WorkIsNamed, LoadsAreLines,
       Export!SavedUnderOwnName
<1> QED
  BY <1>2, <1>3, <1>4 DEF Export!Handle, Export!SaveMsg, Export!OtherMsg

LEMMA ExportNext == ExportInv /\ [Export!Next]_exportVars => ExportInv'
BY ExportAdvanceFocus, ExportPress, ExportRows, ExportPickRow, ExportType, ExportSends, ExportRun,
   ExportHandle
   DEF Export!Next

-----------------------------------------------------------------------------
(* TuiEdit.  For a user who lets each load and each save finish, at most one is under
   way, and the screen stays as it was when it was asked for. *)

FocusInRing == eSlot \in 0 .. 2

EditTypes ==
  /\ FocusInRing
  /\ loaded \in File \cup {NoFile}
  /\ DOMAIN disk = File
  /\ hurried \in BOOLEAN

CommandsAreForFiles ==
  /\ \A c \in eWork : c.do \in {"load", "save"} /\ c.file \in File
  /\ \A m \in eMsgs : m.is \in {"loaded", "saved"} /\ m.file \in File

(* What the tab shows at rest: no key, and nothing to type in, or the key as it is in
   its file. *)
Shown ==
  \/ loaded = NoFile /\ eSlot = 0 /\ text = FALSE
  \/ loaded # NoFile /\ original = disk[loaded]

AtRest == eWork = {} /\ eMsgs = {} /\ Shown

(* A load, or a save of what is on the screen. *)
Running(c) ==
  /\ eWork = {c} /\ eMsgs = {} /\ eHere /\ Shown
  /\ c.do = "save" => c.file = loaded /\ c.comment = field

(* A failed save that wrote nothing leaves things as they were. *)
Answered(m) ==
  /\ eWork = {} /\ eMsgs = {m} /\ eHere
  /\ m.is = "loaded" => Shown /\ (m.ok => m.comment = disk[m.file])
  /\ m.is = "saved" => loaded = m.file /\ IF m.ok THEN disk[loaded] = field ELSE Shown

Unhurried == AtRest \/ (\E c \in eWork : Running(c)) \/ (\E m \in eMsgs : Answered(m))

EditInv ==
  /\ EditTypes /\ CommandsAreForFiles
  /\ Edit!FieldBelongsToKey
  /\ ~hurried => Unhurried

LEMMA EditSlots == Edit!SelectSlot = 0 /\ Edit!CommentSlot = 1 /\ Edit!SaveSlot = 2
BY DEF Edit!SelectSlot, Edit!CommentSlot, Edit!SaveSlot

LEMMA EditInit == Edit!Init => EditInv
<1> SUFFICES ASSUME Edit!Init PROVE EditInv
  OBVIOUS
<1>1. /\ eSlot = 0 /\ loaded = NoFile /\ DOMAIN disk = File /\ hurried = FALSE /\ text = FALSE
      /\ eWork = {} /\ eMsgs = {} /\ typedFor = NoFile
  BY EditSlots DEF Edit!Init
<1>2. EditTypes
  <2>1. FocusInRing
    BY <1>1 DEF FocusInRing
  <2> QED
    BY <1>1, <2>1, Zenon DEF EditTypes
<1>3. CommandsAreForFiles /\ AtRest
  BY <1>1 DEF CommandsAreForFiles, AtRest, Shown
<1> QED
  BY <1>1, <1>2, <1>3 DEF EditInv, Unhurried, Edit!FieldBelongsToKey

LEMMA HurryEffect ==
  ASSUME EditInv, Edit!Hurry
  PROVE  hurried' \in BOOLEAN /\ (~hurried' => ~hurried /\ AtRest)
<1>1. hurried' \in BOOLEAN /\ (~hurried' => ~hurried /\ eWork = {} /\ eMsgs = {})
  BY DEF Edit!Hurry, Edit!UnderWay, EditInv, EditTypes
<1> QED
  BY <1>1 DEF EditInv, Unhurried

(* What the user does without asking for a command. *)
LEMMA EditQuietly ==
  ASSUME EditInv, Edit!Hurry, UNCHANGED <<disk, eWork, eMsgs>>,
         FocusInRing', loaded' \in File \cup {NoFile}, typedFor' = loaded',
         Shown => Shown'
  PROVE  EditInv'
<1>1. EditTypes' /\ CommandsAreForFiles' /\ Edit!FieldBelongsToKey'
  BY HurryEffect DEF EditInv, EditTypes, CommandsAreForFiles, Edit!FieldBelongsToKey
<1>2. ~hurried' => AtRest'
  BY HurryEffect DEF AtRest
<1> QED
  BY <1>1, <1>2 DEF EditInv, Unhurried

LEMMA EditKeyKept ==
  ASSUME EditInv, Edit!KeepKey
  PROVE  loaded' \in File \cup {NoFile} /\ typedFor' = loaded' /\ loaded' = loaded /\ original' = original
BY DEF EditInv, EditTypes, Edit!KeepKey, Edit!FieldBelongsToKey

LEMMA EditAdvanceFocus ==
  ASSUME EditInv, Edit!AdvanceFocus
  PROVE  EditInv'
<1>0. eSlot \in Nat /\ eSlot < 3 /\ 3 \in Nat \ {0}
  BY DEF EditInv, EditTypes, FocusInRing
<1>1. 0 \notin Edit!Hidden
  BY EditSlots DEF Edit!Hidden
<1>2. PICK from : from = ClampToValid(3, Edit!Hidden, eSlot)
  OBVIOUS
<1>3. from \in Nat \ Edit!Hidden /\ from < 3
  BY <1>0, <1>1, <1>2, ClampShown, Zenon
<1>4. PICK next : next = RingNext(3, Edit!Hidden, from)
  OBVIOUS
<1>5. next \in Nat \ Edit!Hidden /\ next < 3
  BY <1>0, <1>3, <1>4, NextShown, Zenon
<1>6. PICK prev : prev = RingPrev(Edit!Hidden, from).slot
  OBVIOUS
<1>7. prev \in Nat \ Edit!Hidden /\ prev <= from
  BY <1>1, <1>3, <1>6, PrevShown, Zenon
<1>8. eSlot' = prev \/ eSlot' = (IF loaded # NoFile /\ next = Edit!SelectSlot THEN Edit!SaveSlot ELSE next)
  BY <1>2, <1>4, <1>6, OneRing DEF Edit!AdvanceFocus
<1>9. FocusInRing'
  BY <1>3, <1>5, <1>7, <1>8, EditSlots DEF FocusInRing
<1>10. loaded = NoFile => eSlot' = 0
  <2>1. ASSUME loaded = NoFile, NEW s \in Nat \ Edit!Hidden, s < 3 PROVE s = 0
    BY <2>1, EditSlots DEF Edit!Hidden
  <2>2. prev < 3
    BY <1>3, <1>7
  <2> QED
    BY <1>5, <1>7, <1>8, <2>1, <2>2
<1>11. Edit!Hurry /\ UNCHANGED <<disk, eWork, eMsgs>> /\ Edit!KeepKey /\ text' = (eSlot' = 1)
  BY EditSlots DEF Edit!AdvanceFocus, Edit!Act, Edit!NoCommand
<1>12. UNCHANGED <<loaded, original>>
  BY <1>11, EditKeyKept
<1>13. Shown => Shown'
  <2>1. CASE loaded = NoFile
    <3>0. eSlot' = 0 /\ eSlot' # 1
      BY <2>1, <1>10
    <3>1. text' = FALSE
      BY <3>0, <1>11, Zenon
    <3> QED
      BY <2>1, <3>0, <3>1, <1>12 DEF Shown
  <2>2. CASE loaded # NoFile
    BY <2>2, <1>11, <1>12 DEF Shown
  <2> QED
    BY <2>1, <2>2
<1> QED
  BY <1>9, <1>11, <1>13, EditKeyKept, EditQuietly

(* The other things the user does about the key that is loaded. *)
LEMMA EditShowPicker == ASSUME EditInv, Edit!ShowPicker PROVE EditInv'
<1>a. Edit!Hurry /\ UNCHANGED <<disk, eWork, eMsgs>>
  BY DEF Edit!ShowPicker, Edit!Act, Edit!NoCommand
<1>b. FocusInRing /\ loaded \in File \cup {NoFile} /\ typedFor = loaded
  BY DEF EditInv, EditTypes, Edit!FieldBelongsToKey
<1>1. eSlot' = 0 /\ UNCHANGED <<loaded, original, typedFor, text>>
  BY EditSlots DEF Edit!ShowPicker, Edit!KeepKey
<1>2. FocusInRing'
  BY <1>a, <1>1 DEF FocusInRing
<1>9. Shown => Shown'
  BY <1>a, <1>1 DEF Shown
<1> QED
  BY <1>a, <1>b, <1>1, <1>2, <1>9, EditQuietly

LEMMA EditType == ASSUME EditInv, NEW c, Edit!Type(c) PROVE EditInv'
<1>a. Edit!Hurry /\ UNCHANGED <<disk, eWork, eMsgs>>
  BY DEF Edit!Type, Edit!Act, Edit!NoCommand
<1>b. FocusInRing /\ loaded \in File \cup {NoFile} /\ typedFor = loaded
  BY DEF EditInv, EditTypes, Edit!FieldBelongsToKey
<1>1. UNCHANGED <<loaded, original, eSlot, text>> /\ typedFor' = loaded
  BY DEF Edit!Type
<1>2. FocusInRing'
  BY <1>a, <1>b, <1>1 DEF FocusInRing
<1>9. Shown => Shown'
  BY <1>a, <1>b, <1>1 DEF Shown
<1> QED
  BY <1>a, <1>b, <1>1, <1>2, <1>9, EditQuietly

LEMMA EditEnterComment == ASSUME EditInv, Edit!EnterComment PROVE EditInv'
<1>a. Edit!Hurry /\ UNCHANGED <<disk, eWork, eMsgs>>
  BY DEF Edit!EnterComment, Edit!Act, Edit!NoCommand
<1>b. FocusInRing /\ loaded \in File \cup {NoFile} /\ typedFor = loaded
  BY DEF EditInv, EditTypes, Edit!FieldBelongsToKey
<1>1. eSlot = 1 \/ loaded # NoFile
  BY EditSlots DEF Edit!EnterComment
<1>2. eSlot' = 1 /\ UNCHANGED <<loaded, original, typedFor>>
  BY EditSlots DEF Edit!EnterComment, Edit!KeepKey
<1>3. FocusInRing'
  BY <1>a, <1>1, <1>2 DEF FocusInRing
<1>9. Shown => Shown'
  BY <1>a, <1>1, <1>2 DEF Shown
<1> QED
  BY <1>a, <1>b, <1>2, <1>3, <1>9, EditQuietly

LEMMA EditReset == ASSUME EditInv, Edit!Reset PROVE EditInv'
<1>a. Edit!Hurry /\ UNCHANGED <<disk, eWork, eMsgs>>
  BY DEF Edit!Reset, Edit!AtButtons, Edit!Act, Edit!NoCommand
<1>b. FocusInRing /\ loaded \in File \cup {NoFile} /\ typedFor = loaded
  BY DEF EditInv, EditTypes, Edit!FieldBelongsToKey
<1>1. loaded # NoFile /\ eSlot' = 1 /\ UNCHANGED <<loaded, original>> /\ typedFor' = loaded
  BY EditSlots DEF Edit!Reset
<1>2. FocusInRing'
  BY <1>a, <1>1 DEF FocusInRing
<1>9. Shown => Shown'
  BY <1>a, <1>1 DEF Shown
<1> QED
  BY <1>a, <1>b, <1>1, <1>2, <1>9, EditQuietly

LEMMA EditBack == ASSUME EditInv, Edit!Back PROVE EditInv'
<1>a. Edit!Hurry /\ UNCHANGED <<disk, eWork, eMsgs>>
  BY Zenon DEF Edit!Back, Edit!AtButtons, Edit!Act, Edit!NoCommand
<1>1. eSlot' = 0
  BY EditSlots, Zenon DEF Edit!Back, Edit!BackTo
<1>2. loaded' = NoFile /\ typedFor' = loaded'
  BY Zenon DEF Edit!Back
<1>3. text' = FALSE
  BY Zenon DEF Edit!Back
<1>4. FocusInRing'
  BY <1>1 DEF FocusInRing
<1>5. Shown'
  BY <1>1, <1>2, <1>3, Zenon DEF Shown
<1> QED
  BY <1>a, <1>2, <1>4, <1>5, EditQuietly

LEMMA EditSaveNothing == ASSUME EditInv, Edit!SaveNothing PROVE EditInv'
<1>a. Edit!Hurry /\ UNCHANGED <<disk, eWork, eMsgs>>
  BY Zenon DEF Edit!SaveNothing, Edit!AtButtons, Edit!Act, Edit!NoCommand
<1>b. FocusInRing /\ loaded \in File \cup {NoFile} /\ typedFor = loaded
  BY DEF EditInv, EditTypes, Edit!FieldBelongsToKey
<1>1. UNCHANGED <<loaded, original, typedFor>>
  BY Zenon DEF Edit!SaveNothing, Edit!KeepKey
<1>2. \/ eSlot' = eSlot /\ text' = text
      \/ (eSlot' = 1 \/ eSlot' = 2) /\ loaded # NoFile
  BY EditSlots, Zenon DEF Edit!SaveNothing
<1>3. eSlot' = eSlot \/ eSlot' = 1 \/ eSlot' = 2
  BY <1>2, Zenon
<1>4. FocusInRing'
  BY <1>b, <1>3 DEF FocusInRing
<1>5. Shown => Shown'
  BY <1>a, <1>1, <1>2, Zenon DEF Shown
<1> QED
  BY <1>a, <1>b, <1>1, <1>4, <1>5, EditQuietly

(* Asking for a command with none under way. *)
LEMMA EditCommand ==
  ASSUME EditInv, Edit!Hurry, eHere,
         UNCHANGED <<disk, eHere, eMsgs>>, UNCHANGED <<loaded, field, original, typedFor>>,
         NEW c, c.do \in {"load", "save"}, c.file \in File, eWork' = eWork \cup {c},
         c.do = "save" => c.file = loaded /\ c.comment = field,
         FocusInRing', Shown => Shown'
  PROVE  EditInv'
<1>1. EditTypes' /\ CommandsAreForFiles' /\ Edit!FieldBelongsToKey'
  BY HurryEffect DEF EditInv, EditTypes, CommandsAreForFiles, Edit!FieldBelongsToKey
<1>2. ASSUME ~hurried' PROVE Running(c)'
  <2>1. eWork = {} /\ eMsgs = {} /\ Shown
    BY <1>2, HurryEffect DEF AtRest
  <2> QED
    BY <2>1 DEF Running
<1> QED
  BY <1>1, <1>2 DEF EditInv, Unhurried

LEMMA EditSelectFile == ASSUME EditInv, NEW f \in File, Edit!SelectFile(f) PROVE EditInv'
<1>1. eHere /\ Edit!Hurry /\ UNCHANGED <<disk, eHere, eMsgs>>
  BY Zenon DEF Edit!SelectFile, Edit!Act
<1>2. UNCHANGED <<loaded, field, original, typedFor>> /\ UNCHANGED <<eSlot, text>>
  BY Zenon DEF Edit!SelectFile, Edit!KeepKey
<1>3. PICK x : eWork' = eWork \cup {[do |-> "load", file |-> f, comment |-> x]}
  BY Zenon DEF Edit!SelectFile, Edit!Command
<1>4. PICK c : c = [do |-> "load", file |-> f, comment |-> x]
  OBVIOUS
<1>5. c.do \in {"load", "save"} /\ c.file \in File /\ c.do # "save"
  <2>1. c.do = "load" /\ c.file = f
    BY <1>4, Zenon
  <2> QED
    BY <2>1
<1>6. FocusInRing'
  <2>1. FocusInRing /\ eSlot' = eSlot
    BY <1>2 DEF EditInv, EditTypes
  <2> QED
    BY <2>1 DEF FocusInRing
<1>7. Shown => Shown'
  BY <1>1, <1>2, Zenon DEF Shown
<1>8. eWork' = eWork \cup {c}
  BY <1>3, <1>4, Zenon
<1> QED
  BY <1>1, <1>2, <1>5, <1>6, <1>7, <1>8, EditCommand

LEMMA EditSave == ASSUME EditInv, Edit!Save PROVE EditInv'
<1>1. eHere /\ Edit!Hurry /\ UNCHANGED <<disk, eHere, eMsgs>>
  BY Zenon DEF Edit!Save, Edit!AtButtons, Edit!Act
<1>2. UNCHANGED <<loaded, field, original, typedFor>> /\ loaded # NoFile
  BY Zenon DEF Edit!Save, Edit!KeepKey
<1>3. PICK c : c = [do |-> "save", file |-> loaded, comment |-> field]
  OBVIOUS
<1>4. eWork' = eWork \cup {c}
  BY <1>3, Zenon DEF Edit!Save, Edit!Command
<1>5. c.do \in {"load", "save"} /\ c.file = loaded /\ c.comment = field /\ c.file \in File
  BY <1>2, <1>3 DEF EditInv, EditTypes
<1>6. FocusInRing'
  <2>1. eSlot' = 2
    BY EditSlots, Zenon DEF Edit!Save
  <2> QED
    BY <2>1 DEF FocusInRing
<1>7. Shown => Shown'
  BY <1>1, <1>2, Zenon DEF Shown
<1> QED
  BY <1>1, <1>2, <1>4, <1>5, <1>6, <1>7, EditCommand

LEMMA EditSwitchTab == ASSUME EditInv, Edit!SwitchTab PROVE EditInv'
<1>1. Edit!Hurry /\ UNCHANGED <<disk, eWork, eMsgs>>
  BY Zenon DEF Edit!SwitchTab
<1>2. UNCHANGED <<loaded, original, typedFor, eSlot, text>>
  BY Zenon DEF Edit!SwitchTab, Edit!KeepKey
<1>3. FocusInRing'
  <2>1. FocusInRing /\ eSlot' = eSlot
    BY <1>2 DEF EditInv, EditTypes
  <2> QED
    BY <2>1 DEF FocusInRing
<1>4. Shown => Shown'
  BY <1>1, <1>2, Zenon DEF Shown
<1>5. loaded' \in File \cup {NoFile} /\ typedFor' = loaded'
  BY <1>2 DEF EditInv, EditTypes, Edit!FieldBelongsToKey
<1> QED
  BY <1>1, <1>3, <1>4, <1>5, EditQuietly

-----------------------------------------------------------------------------
(* The commands run beside the tab. *)

(* Whose turn it is, for the user who does not hurry. *)
LEMMA OnlyOneRuns ==
  ASSUME EditInv, ~hurried, NEW c \in eWork
  PROVE  Running(c)
BY DEF EditInv, Unhurried, AtRest, Running, Answered

LEMMA OnlyOneAnswers ==
  ASSUME EditInv, ~hurried, NEW m \in eMsgs
  PROVE  Answered(m)
BY DEF EditInv, Unhurried, AtRest, Running, Answered

LEMMA EditRunLoad == ASSUME EditInv, NEW c \in eWork, Edit!RunLoad(c) PROVE EditInv'
<1>1. /\ eWork' = eWork \ {c}
      /\ UNCHANGED <<disk, eHere>> /\ UNCHANGED <<loaded, original, typedFor, eSlot, text>>
      /\ hurried' = hurried
  BY Zenon DEF Edit!RunLoad, Edit!screen
<1>2. PICK ok \in BOOLEAN :
        eMsgs' = eMsgs \cup {[is |-> "loaded", ok |-> ok, file |-> c.file, comment |-> disk[c.file]]}
  BY Zenon DEF Edit!RunLoad
<1>3. PICK m : m = [is |-> "loaded", ok |-> ok, file |-> c.file, comment |-> disk[c.file]]
  OBVIOUS
<1>4. m.is = "loaded" /\ m.file = c.file /\ m.comment = disk[c.file] /\ eMsgs' = eMsgs \cup {m}
  BY <1>2, <1>3, Zenon
<1>5. EditTypes' /\ Edit!FieldBelongsToKey'
  BY <1>1 DEF EditInv, EditTypes, FocusInRing, Edit!FieldBelongsToKey
<1>6. CommandsAreForFiles'
  BY <1>1, <1>4 DEF EditInv, CommandsAreForFiles
<1>7. ASSUME ~hurried' PROVE Answered(m)'
  <2>1. Running(c)
    BY <1>1, <1>7, OnlyOneRuns
  <2>2. eWork' = {} /\ eMsgs' = {m} /\ eHere'
    BY <1>1, <1>4, <2>1 DEF Running
  <2>3. Shown'
    BY <1>1, <2>1, Zenon DEF Running, Shown
  <2> QED
    BY <1>1, <1>4, <2>2, <2>3 DEF Answered
<1> QED
  BY <1>4, <1>5, <1>6, <1>7 DEF EditInv, Unhurried

LEMMA EditRunSave == ASSUME EditInv, NEW c \in eWork, Edit!RunSave(c) PROVE EditInv'
<1>1. /\ c.do = "save" /\ eWork' = eWork \ {c}
      /\ UNCHANGED eHere /\ UNCHANGED <<loaded, field, original, typedFor, eSlot, text>>
  BY Zenon DEF Edit!RunSave, Edit!screen
<1>2. PICK ok \in BOOLEAN, written \in BOOLEAN :
        /\ ok => written
        /\ disk' = IF written THEN [disk EXCEPT ![c.file] = c.comment] ELSE disk
        /\ hurried' = (hurried \/ (written /\ ~ok))
        /\ eMsgs' = eMsgs \cup {[is |-> "saved", ok |-> ok, file |-> c.file, comment |-> c.comment]}
  BY Zenon DEF Edit!RunSave
<1>3. PICK m : m = [is |-> "saved", ok |-> ok, file |-> c.file, comment |-> c.comment]
  OBVIOUS
<1>4. m.is = "saved" /\ m.file = c.file /\ m.ok = ok /\ eMsgs' = eMsgs \cup {m}
  BY <1>2, <1>3, Zenon
<1>5. DOMAIN disk' = DOMAIN disk
  BY <1>2
<1>6. hurried' \in BOOLEAN /\ (~hurried' => ~hurried /\ (written => ok))
  BY <1>2 DEF EditInv, EditTypes
<1>7. EditTypes' /\ Edit!FieldBelongsToKey'
  BY <1>1, <1>5, <1>6 DEF EditInv, EditTypes, FocusInRing, Edit!FieldBelongsToKey
<1>8. CommandsAreForFiles'
  BY <1>1, <1>4 DEF EditInv, CommandsAreForFiles
<1>9. ASSUME ~hurried' PROVE Answered(m)'
  <2>1. Running(c)
    BY <1>6, <1>9, OnlyOneRuns
  <2>2. eWork' = {} /\ eMsgs' = {m} /\ eHere'
    BY <1>1, <1>4, <2>1 DEF Running
  <2>3. c.file = loaded /\ c.comment = field /\ Shown /\ c.file \in DOMAIN disk
    BY <1>1, <2>1 DEF Running, EditInv, EditTypes, CommandsAreForFiles
  <2>4. CASE ok
    <3>1. disk'[loaded'] = field'
      BY <1>1, <1>2, <2>3, <2>4
    <3> QED
      BY <1>1, <1>4, <2>2, <2>3, <2>4, <3>1 DEF Answered
  <2>5. CASE ~ok
    <3>1. disk' = disk
      BY <1>2, <1>6, <1>9, <2>5
    <3>2. Shown'
      BY <1>1, <2>3, <3>1, Zenon DEF Shown
    <3> QED
      BY <1>1, <1>4, <2>2, <2>3, <2>5, <3>2 DEF Answered
  <2> QED
    BY <2>4, <2>5
<1> QED
  BY <1>4, <1>7, <1>8, <1>9 DEF EditInv, Unhurried

SkipFunction == IF skips THEN Edit!Hidden ELSE {}

LEMMA FocusCommentInRing ==
  ASSUME Edit!FocusComment PROVE FocusInRing'
<1>1. eSlot' = Edit!SetIndex(3, SkipFunction, Edit!CommentSlot)
  BY DEF Edit!FocusComment, SkipFunction
<1>2. 0 \notin SkipFunction
  <2>1. 0 \notin Edit!Hidden
    BY EditSlots DEF Edit!Hidden
  <2>2. SkipFunction = Edit!Hidden \/ SkipFunction = {}
    BY Zenon DEF SkipFunction
  <2> QED
    BY <2>1, <2>2
<1>3. eSlot' = ClampToValid(3, SkipFunction, 1)
  <2>1. eSlot' = Edit!SetIndex(3, SkipFunction, 1)
    BY <1>1, EditSlots, Zenon
  <2>2. eSlot' = Edit!ClampToValid(3, SkipFunction, 1)
    BY <2>1 DEF Edit!SetIndex
  <2> QED
    BY <2>2, OneRing
<1>4. eSlot' \in Nat \ SkipFunction /\ eSlot' < 3
  <2>1. 3 \in Nat \ {0} /\ 1 \in Nat /\ 1 < 3
    OBVIOUS
  <2> QED
    BY <1>2, <1>3, <2>1, ClampShown, Zenon
<1> QED
  BY <1>4 DEF FocusInRing

LEMMA EditKeyLoaded ==
  ASSUME EditInv, NEW m \in eMsgs, eMsgs' = eMsgs \ {m}, Edit!KeyLoadedMsg(m),
         UNCHANGED <<disk, eHere, eWork, hurried>>
  PROVE  EditInv'
<1>1. m.file \in File /\ m.is = "loaded" /\ m.file # NoFile
  BY TuiAssumption DEF EditInv, CommandsAreForFiles, Edit!KeyLoadedMsg
<1>2. ASSUME ~hurried' PROVE Answered(m) /\ eWork' = {} /\ eMsgs' = {}
  BY <1>2, OnlyOneAnswers DEF Answered
<1>3. CommandsAreForFiles'
  BY DEF EditInv, CommandsAreForFiles
<1>4. CASE m.ok
  <2>1. loaded' = m.file /\ original' = m.comment /\ field' = m.comment
    BY <1>4, Zenon DEF Edit!KeyLoadedMsg, Edit!FieldAfterLoad
  <2>2. typedFor' = m.file
    BY <1>4, <2>1, Zenon DEF Edit!KeyLoadedMsg
  <2>3. eSlot' = 1
    BY <1>4, EditSlots, Zenon DEF Edit!KeyLoadedMsg
  <2>4. FocusInRing'
    BY <2>3 DEF FocusInRing
  <2>5. EditTypes' /\ Edit!FieldBelongsToKey'
    BY <1>1, <2>1, <2>2, <2>4 DEF EditInv, EditTypes, Edit!FieldBelongsToKey
  <2>6. ASSUME ~hurried' PROVE AtRest'
    <3>1. original' = disk'[loaded']
      BY <1>1, <1>2, <1>4, <2>1, <2>6 DEF Answered
    <3> QED
      BY <1>1, <1>2, <2>1, <2>6, <3>1, Zenon DEF AtRest, Shown
  <2> QED
    BY <1>3, <2>5, <2>6 DEF EditInv, Unhurried
<1>5. CASE ~m.ok
  <2>1. UNCHANGED <<loaded, field, original, typedFor>> /\ UNCHANGED <<eSlot, text>>
    BY <1>5, Zenon DEF Edit!KeyLoadedMsg, Edit!KeepKey
  <2>2. EditTypes' /\ Edit!FieldBelongsToKey'
    BY <2>1 DEF EditInv, EditTypes, FocusInRing, Edit!FieldBelongsToKey
  <2>3. ASSUME ~hurried' PROVE AtRest'
    <3>1. Shown'
      BY <1>1, <1>2, <2>1, <2>3, Zenon DEF Answered, Shown
    <3> QED
      BY <1>2, <2>3, <3>1 DEF AtRest
  <2> QED
    BY <1>3, <2>2, <2>3 DEF EditInv, Unhurried
<1> QED
  BY <1>4, <1>5

LEMMA EditSaved ==
  ASSUME EditInv, NEW m \in eMsgs, eMsgs' = eMsgs \ {m}, Edit!SaveMsg(m),
         UNCHANGED <<disk, eHere, eWork, hurried>>
  PROVE  EditInv'
<1>1. m.file \in File /\ m.is = "saved" /\ m.file # NoFile
  BY TuiAssumption DEF EditInv, CommandsAreForFiles, Edit!SaveMsg
<1>2. ASSUME ~hurried' PROVE Answered(m) /\ eWork' = {} /\ eMsgs' = {}
  BY <1>2, OnlyOneAnswers DEF Answered
<1>3. CommandsAreForFiles' /\ UNCHANGED <<loaded, field, typedFor>>
  BY DEF EditInv, CommandsAreForFiles, Edit!SaveMsg
<1>4. FocusInRing'
  <2>1. CASE m.ok
    BY <2>1, FocusCommentInRing DEF Edit!SaveMsg
  <2>2. CASE ~m.ok
    <3>1. eSlot' = eSlot
      BY <2>2, Zenon DEF Edit!SaveMsg
    <3> QED
      BY <3>1 DEF FocusInRing, EditInv, EditTypes
  <2> QED
    BY <2>1, <2>2
<1>5. EditTypes' /\ Edit!FieldBelongsToKey'
  BY <1>3, <1>4 DEF EditInv, EditTypes, Edit!FieldBelongsToKey
<1>6. ASSUME ~hurried' PROVE Shown'
  <2>1. CASE m.ok
    <3>1. original' = field
      BY <2>1, Zenon DEF Edit!SaveMsg, Edit!OriginalAfterSave
    <3>2. loaded = m.file /\ disk[loaded] = field
      BY <1>1, <1>2, <1>6, <2>1, Zenon DEF Answered
    <3> QED
      BY <1>1, <1>3, <3>1, <3>2, Zenon DEF Shown
  <2>2. CASE ~m.ok
    <3>1. UNCHANGED <<original, eSlot, text>>
      BY <2>2, Zenon DEF Edit!SaveMsg
    <3>2. Shown
      BY <1>1, <1>2, <1>6, <2>2, Zenon DEF Answered
    <3> QED
      BY <1>3, <3>1, <3>2, Zenon DEF Shown
  <2> QED
    BY <2>1, <2>2
<1> QED
  BY <1>2, <1>3, <1>5, <1>6 DEF EditInv, Unhurried, AtRest

(* The message of a tab that has been left is lost. *)
LEMMA EditHandle == ASSUME EditInv, NEW m \in eMsgs, Edit!Handle(m) PROVE EditInv'
<1>1. eMsgs' = eMsgs \ {m} /\ UNCHANGED <<disk, eHere, eWork, hurried>>
  BY Zenon DEF Edit!Handle
<1>2. CASE eHere
  BY <1>1, <1>2, EditKeyLoaded, EditSaved DEF Edit!Handle
<1>3. CASE ~eHere
  <2>1. UNCHANGED <<loaded, field, original, typedFor>> /\ UNCHANGED eSlot
    BY <1>3, Zenon DEF Edit!Handle, Edit!screen
  <2>2. EditTypes' /\ Edit!FieldBelongsToKey' /\ CommandsAreForFiles'
    BY <1>1, <2>1 DEF EditInv, EditTypes, FocusInRing, CommandsAreForFiles, Edit!FieldBelongsToKey
  <2>3. hurried'
    BY <1>1, <1>3, OnlyOneAnswers DEF Answered
  <2> QED
    BY <2>2, <2>3 DEF EditInv
<1> QED
  BY <1>2, <1>3

LEMMA EditNext == EditInv /\ [Edit!Next]_editVars => EditInv'
<1> SUFFICES ASSUME EditInv, [Edit!Next]_editVars PROVE EditInv'
  OBVIOUS
<1>1. CASE Edit!Next
  BY <1>1, EditSelectFile, EditType, EditShowPicker, EditEnterComment, EditAdvanceFocus, EditReset,
     EditBack, EditSaveNothing, EditSave, EditSwitchTab, EditRunLoad, EditRunSave, EditHandle, Zenon
     DEF Edit!Next
<1>2. CASE UNCHANGED editVars
  <2>1. UNCHANGED <<disk, eHere, eWork, eMsgs, hurried>>
    BY <1>2, Zenon DEF editVars
  <2>2. UNCHANGED <<loaded, field, original, typedFor, eSlot, text>>
    BY <1>2, Zenon DEF editVars
  <2>3. EditTypes' /\ Edit!FieldBelongsToKey' /\ CommandsAreForFiles'
    BY <2>1, <2>2 DEF EditInv, EditTypes, FocusInRing, CommandsAreForFiles, Edit!FieldBelongsToKey
  <2>4. Shown' <=> Shown
    BY <2>1, <2>2, Zenon DEF Shown
  <2>5. Unhurried => Unhurried'
    BY <2>1, <2>2, <2>4 DEF Unhurried, AtRest, Running, Answered
  <2> QED
    BY <2>1, <2>3, <2>5 DEF EditInv
<1> QED
  BY <1>1, <1>2

LEMMA EditInvShows == EditInv => CommentOfItsKey
<1> SUFFICES ASSUME EditInv PROVE CommentOfItsKey
  OBVIOUS
<1>1. ASSUME ~hurried, loaded = NoFile PROVE eSlot = Edit!SelectSlot /\ ~text
  <2>1. eWork = {} /\ eMsgs = {} => Shown
    BY <1>1 DEF EditInv, Unhurried, AtRest
  <2>2. ASSUME NEW c \in eWork PROVE Shown
    BY <1>1, OnlyOneRuns DEF Running
  <2>3. ASSUME NEW m \in eMsgs PROVE Shown
    <3>1. Answered(m) /\ m.file # NoFile /\ m.is \in {"loaded", "saved"}
      BY <1>1, OnlyOneAnswers, TuiAssumption DEF EditInv, CommandsAreForFiles
    <3> QED
      BY <1>1, <3>1 DEF Answered
  <2>4. Shown
    BY <2>1, <2>2, <2>3
  <2> QED
    BY <1>1, <2>4, EditSlots, Zenon DEF Shown
<1>2. Edit!NoKeyNoField
  BY <1>1, Zenon DEF Edit!NoKeyNoField
<1>3. Edit!OriginalIsFile
  BY DEF EditInv, Unhurried, AtRest, Shown, Edit!OriginalIsFile, Edit!UnderWay
<1> QED
  BY <1>2, <1>3 DEF CommentOfItsKey, Edit!CommentOfItsKey, EditInv

-----------------------------------------------------------------------------
(* TuiVault. *)

(* Commands and messages: what a listing, an operation, an init and the file picker
   bring. *)
IsTable(t) ==
  /\ t = [initialized |-> t.initialized, rows |-> t.rows, failed |-> t.failed]
  /\ t.initialized \in BOOLEAN

AnswersAreKnown ==
  \A m \in vMsgs :
    /\ m.is \in {"list", "op", "init", "selected", "cancelled"}
    /\ m.ok \in BOOLEAN
    /\ m.is = "list" /\ m.ok => IsTable(m.table)

VaultTypes ==
  /\ DOMAIN vault = {"exists", "phrase", "stored", "autoload", "loaded", "locked"}
  /\ vault.exists \in BOOLEAN
  /\ IsTable(table)
  /\ AnswersAreKnown

(* Who is away while a vault is made has missed it; who is not has seen the phrase, has it
   before them, or its message is on the way. *)
AwayIsMissed == ~here /\ Vault!InitUnderWay => missed

PhraseComes ==
  vault.phrase /\ ~missed => phrase \/ seen \/ \E m \in vMsgs : m.is = "init" /\ m.phrase

(* No prompt is drawn over a phrase that is not missed. *)
PhraseOnTop == phrase /\ ~missed => prompt = "none"

PromptsInv == Vault!AsideForConfirmation /\ Vault!PromptsOpenEmpty /\ PhraseOnTop

(* What says "busy" is followed by an answer, and not one of the file picker. *)
BusyIsAnswered ==
  here /\ status = "busy" =>
    vCmds # {} \/ \E m \in vMsgs : m.is \notin {"selected", "cancelled"}

(* One listing at a time. *)
ListingIsAlone ==
  ~crossed =>
    \A m \in vMsgs : m.is = "list" =>
      "list" \notin vCmds /\ \A n \in vMsgs : n.is = "list" => n = m

(* The last listing has found the vault as it is, or another is to come. *)
ListingAsked == "list" \in vCmds
ListingDue == \E m \in vMsgs : m.is \in {"op", "init"} /\ m.ok
ListingFound == \E m \in vMsgs : m.is = "list" /\ (m.ok => m.table = Vault!Listing(vault))
ListingShown ==
  /\ \A m \in vMsgs : m.is # "list"
  /\ table.failed = TRUE \/ table = Vault!Listing(vault)

ListingComes ==
  here /\ ~crossed /\ ~unlisted => ListingAsked \/ ListingDue \/ ListingFound \/ ListingShown

VaultInv ==
  /\ VaultTypes /\ PromptsInv
  /\ AwayIsMissed /\ PhraseComes /\ BusyIsAnswered
  /\ ListingIsAlone /\ ListingComes

LEMMA VaultInvShows == VaultInv => ScreenIsTrue /\ SecretsHandled
<1> SUFFICES ASSUME VaultInv PROVE ScreenIsTrue /\ SecretsHandled
  OBVIOUS
<1>1. Vault!PhraseIsShown
  BY DEF VaultInv, PhraseComes, Vault!PhraseIsShown, Vault!InitUnderWay
<1>2. Vault!BusyHasCause
  BY DEF VaultInv, BusyIsAnswered, Vault!BusyHasCause
<1>3. Vault!TableIsTrue
  <2>1. ASSUME here, vCmds = {}, vMsgs = {}, ~crossed, ~unlisted PROVE ListingShown
    BY <2>1 DEF VaultInv, ListingComes, ListingAsked, ListingDue, ListingFound
  <2> QED
    BY <2>1, Zenon DEF ListingShown, Vault!TableIsTrue
<1> QED
  BY <1>1, <1>2, <1>3, Zenon DEF VaultInv, PromptsInv, ScreenIsTrue, SecretsHandled,
     Vault!ScreenIsTrue, Vault!SecretsHandled

(* What leaves the prompts and the phrase alone. *)
LEMMA VaultPrompts ==
  ASSUME VaultInv, UNCHANGED <<prompt, held, filled, phrase>>, missed => missed'
  PROVE  PromptsInv'
BY Zenon DEF VaultInv, PromptsInv, PhraseOnTop, Vault!AsideForConfirmation, Vault!PromptsOpenEmpty

LEMMA VaultListing ==
  ASSUME NEW v, v.exists \in BOOLEAN
  PROVE  IsTable(Vault!Listing(v))
<1>1. PICK rows : rows = Vault!Rows(v)
  OBVIOUS
<1>2. Vault!Listing(v) = [initialized |-> v.exists, rows |-> rows, failed |-> FALSE]
  BY <1>1, Zenon DEF Vault!Listing
<1> QED
  BY <1>2 DEF IsTable

LEMMA VaultInit == Vault!Init => VaultInv
<1> SUFFICES ASSUME Vault!Init PROVE VaultInv
  OBVIOUS
<1>1. here = FALSE /\ vCmds = {"list"} /\ vMsgs = {}
  BY Zenon DEF Vault!Init
<1>2. PICK s \in BOOLEAN : vault = [Vault!NoVault EXCEPT !.exists = s, !.stored = s, !.autoload = s]
  BY Zenon DEF Vault!Init
<1>3. /\ DOMAIN vault = {"exists", "phrase", "stored", "autoload", "loaded", "locked"}
      /\ vault.exists = s /\ vault.phrase = FALSE
  BY <1>2 DEF Vault!NoVault
<1>4. table = [initialized |-> FALSE, rows |-> {}, failed |-> FALSE]
  BY Zenon DEF Vault!Init
<1>5. IsTable(table)
  BY <1>4 DEF IsTable
<1>6. PromptsInv
  BY Zenon DEF Vault!Init, PromptsInv, PhraseOnTop, Vault!AsideForConfirmation,
     Vault!PromptsOpenEmpty
<1>7. Vault!InitUnderWay = FALSE
  BY <1>1 DEF Vault!InitUnderWay, Vault!Inits
<1>8. VaultTypes
  BY <1>1, <1>3, <1>5 DEF VaultTypes, AnswersAreKnown
<1>9. AwayIsMissed
  BY <1>7 DEF AwayIsMissed
<1>10. PhraseComes
  BY <1>3 DEF PhraseComes
<1> QED
  BY <1>1, <1>6, <1>8, <1>9, <1>10 DEF VaultInv, BusyIsAnswered, ListingIsAlone, ListingComes

(* Whoever asks for a listing while another is on its way knows it. *)
LEMMA VaultAsks ==
  ASSUME ListingIsAlone, NEW names, Vault!Ask(names), vMsgs' \subseteq vMsgs
  PROVE  ListingIsAlone'
<1>1. vCmds' = vCmds \cup names
  BY DEF Vault!Ask
<1>2. CASE "list" \in names
  <2>1. ~crossed' => \A m \in vMsgs : m.is # "list"
    BY <1>2 DEF Vault!Ask, Vault!ListingUnderWay
  <2> QED
    BY <2>1 DEF ListingIsAlone
<1>3. CASE "list" \notin names
  <2>1. crossed' = crossed
    BY <1>3, Zenon DEF Vault!Ask
  <2> QED
    BY <1>1, <1>3, <2>1 DEF ListingIsAlone
<1> QED
  BY <1>2, <1>3

(* A key, or a button. *)
LEMMA VaultActs ==
  ASSUME VaultInv, NEW names, Vault!Act(names), UNCHANGED table, "list" \notin names,
         status' = "busy" => status = "busy" \/ names # {},
         PromptsInv', phrase => phrase' \/ missed \/ seen', seen => seen'
  PROVE  VaultInv'
<1>1. here /\ here' = here /\ UNCHANGED <<vault, vMsgs, missed>> /\ Vault!Ask(names)
  BY Zenon DEF Vault!Act
<1>2. vCmds' = vCmds \cup names
  BY <1>1 DEF Vault!Ask
<1>3. crossed' = crossed /\ (unlisted => unlisted')
  BY <1>1, Zenon DEF Vault!Ask
<1>4. ListingIsAlone'
  BY <1>1, VaultAsks DEF VaultInv
<1>5. VaultTypes' /\ AwayIsMissed'
  BY <1>1 DEF VaultInv, VaultTypes, AnswersAreKnown, AwayIsMissed
<1>6. PhraseComes'
  BY <1>1 DEF VaultInv, PhraseComes
<1>7. BusyIsAnswered'
  BY <1>1, <1>2 DEF VaultInv, BusyIsAnswered
<1>8. ListingComes'
  <2>1. Vault!Listing(vault)' = Vault!Listing(vault)
    BY <1>1, Zenon DEF Vault!Listing, Vault!Rows
  <2>2. (ListingAsked => ListingAsked') /\ (ListingDue => ListingDue')
    BY <1>1, <1>2 DEF ListingAsked, ListingDue
  <2>3. (ListingFound => ListingFound') /\ (ListingShown => ListingShown')
    BY <1>1, <2>1, Zenon DEF ListingFound, ListingShown
  <2> QED
    BY <1>1, <1>3, <2>2, <2>3, Zenon DEF VaultInv, ListingComes
<1> QED
  BY <1>4, <1>5, <1>6, <1>7, <1>8 DEF VaultInv

LEMMA VaultKeys ==
  ASSUME VaultInv,
         \/ \E yes \in BOOLEAN : Vault!StartInit(yes) \/ Vault!StartAdd(yes) \/ Vault!EnterSecret(yes)
         \/ \E kind \in {"unlock", "unlockRecovery"} : Vault!StartUnlock(kind)
         \/ Vault!StartLock \/ Vault!ClosePhrase
         \/ \E op \in Vault!RowOps : Vault!AskForRow(op)
  PROVE  VaultInv'
<1> DEFINE N == {{}, {"lock"}, {"unlock"}, {"unlockRecovery"}, {"remove"}, {"load"},
                 {"autoloadOn"}, {"autoloadOff"}}
<1> DEFINE Acts ==
      /\ UNCHANGED table
      /\ \E names \in N : Vault!Act(names) /\ (status' = "busy" => status = "busy" \/ names # {})
<1>1. Acts
  <2>1. ASSUME NEW yes \in BOOLEAN, Vault!StartInit(yes) \/ Vault!StartAdd(yes) PROVE Acts
    <3>1. UNCHANGED <<table, status>> /\ Vault!Act({})
      BY <2>1, Zenon DEF Vault!StartInit, Vault!StartAdd
    <3> QED
      BY <3>1
  <2>2. ASSUME NEW kind \in {"unlock", "unlockRecovery"}, Vault!StartUnlock(kind) PROVE Acts
    <3>1. table' = table /\ Vault!Act({}) /\ (status' = "said" \/ status' = status)
      BY <2>2, Zenon DEF Vault!StartUnlock
    <3> QED
      BY <3>1
  <2>3. ASSUME Vault!StartLock PROVE Acts
    <3>1. /\ table' = table
          /\ Vault!Act({"lock"}) \/ (Vault!Act({}) /\ status' = "said")
      BY <2>3, Zenon DEF Vault!StartLock
    <3> QED
      BY <3>1
  <2>4. ASSUME NEW any \in BOOLEAN, Vault!EnterSecret(any) PROVE Acts
    <3>1. table' = table /\ Vault!Act({prompt}) /\ prompt \in {"unlock", "unlockRecovery"}
      BY <2>4, Zenon DEF Vault!EnterSecret
    <3> QED
      BY <3>1
  <2>5. ASSUME Vault!ClosePhrase PROVE Acts
    <3>1. UNCHANGED <<table, status>> /\ Vault!Act({})
      BY <2>5, Zenon DEF Vault!ClosePhrase
    <3> QED
      BY <3>1
  <2>6. ASSUME NEW op \in Vault!RowOps, Vault!AskForRow(op) PROVE Acts
    <3>1. UNCHANGED <<table, status>> /\ (Vault!Act({}) \/ Vault!Act({op}))
      BY <2>6, Zenon DEF Vault!AskForRow, Vault!screen
    <3> QED
      BY <3>1 DEF Vault!RowOps
  <2> QED
    BY <2>1, <2>2, <2>3, <2>4, <2>5, <2>6, Zenon
<1>2. Vault!AsideForConfirmation'
  <2>1. held = "" \/ prompt = "init-confirm"
    BY Zenon DEF VaultInv, PromptsInv, Vault!AsideForConfirmation
  <2>2. ASSUME prompt = "none" \/ prompt \in {"unlock", "unlockRecovery"} PROVE held = ""
    BY <2>1, <2>2, Zenon
  <2>3. \/ held' = ""
        \/ held' = held /\ prompt' = prompt
        \/ held' = held /\ prompt = "none"
        \/ held' = held /\ prompt \in {"unlock", "unlockRecovery"}
    BY Zenon DEF Vault!StartInit, Vault!StartAdd, Vault!StartUnlock, Vault!HasModal, Vault!StartLock,
       Vault!EnterSecret, Vault!ClosePhrase, Vault!AskForRow, Vault!screen
  <2> QED
    BY <2>1, <2>2, <2>3, Zenon DEF Vault!AsideForConfirmation
<1>3. Vault!PromptsOpenEmpty'
  <2>1. \/ prompt' = prompt /\ filled' = filled
        \/ filled' = FALSE
        \/ prompt' = "none"
        \/ prompt' = "unlockRecovery"
    BY Zenon DEF Vault!StartInit, Vault!StartAdd, Vault!StartUnlock, Vault!StartLock,
       Vault!EnterSecret, Vault!ClosePhrase, Vault!AskForRow, Vault!screen
  <2> QED
    BY <2>1, Zenon DEF VaultInv, PromptsInv, Vault!PromptsOpenEmpty
<1>4. /\ missed' = missed
      /\ \/ phrase' = phrase /\ seen' = seen /\ (~phrase \/ prompt' = prompt)
         \/ ~phrase' /\ ~vPicker /\ seen' = (seen \/ Vault!PhraseOnScreen)
  BY Zenon DEF Vault!StartInit, Vault!StartAdd, Vault!StartUnlock, Vault!HasModal, Vault!StartLock,
     Vault!EnterSecret, Vault!ClosePhrase, Vault!AskForRow, Vault!screen, Vault!Act
<1>5. PhraseOnTop' /\ (phrase => phrase' \/ missed \/ seen') /\ (seen => seen')
  <2>1. PhraseOnTop
    BY DEF VaultInv, PromptsInv
  <2>2. CASE phrase' = phrase /\ seen' = seen /\ (~phrase \/ prompt' = prompt)
    BY <1>4, <2>1, <2>2 DEF PhraseOnTop
  <2>3. CASE ~phrase' /\ ~vPicker /\ seen' = (seen \/ Vault!PhraseOnScreen)
    BY <1>4, <2>1, <2>3 DEF PhraseOnTop, Vault!PhraseOnScreen
  <2> QED
    BY <1>4, <2>2, <2>3
<1>6. PromptsInv'
  BY <1>2, <1>3, <1>5, Zenon DEF PromptsInv
<1>7. \A names \in N : "list" \notin names
  OBVIOUS
<1> HIDE DEF N
<1> QED
  BY <1>1, <1>5, <1>6, <1>7, VaultActs

LEMMA VaultNewPassphrase ==
  ASSUME VaultInv, NEW typed, Vault!EnterNewPassphrase(typed)
  PROVE  VaultInv'
<1>1. /\ UNCHANGED <<table, phrase, seen>> /\ ~phrase
      /\ held' = Vault!HeldAfter(typed) /\ filled' = Vault!FilledAfter(typed)
  BY Zenon DEF Vault!EnterNewPassphrase
<1>2. CASE prompt = "init-pass"
  <2>1. /\ Vault!Act({})
        /\ \/ typed = "" /\ prompt' = prompt /\ status' = "said"
           \/ prompt' = "init-confirm" /\ status' = status
    BY <1>2, Zenon DEF Vault!EnterNewPassphrase
  <2>2. filled' = FALSE
    BY <1>1, <1>2 DEF Vault!FilledAfter
  <2>3. typed = "" => held' = ""
    BY <1>1, Zenon DEF Vault!HeldAfter
  <2>4. PromptsInv'
    BY <1>1, <2>1, <2>2, <2>3, Zenon DEF PromptsInv, PhraseOnTop, Vault!AsideForConfirmation,
       Vault!PromptsOpenEmpty
  <2> QED
    BY <1>1, <2>1, <2>4, VaultActs
<1>3. CASE prompt = "init-confirm"
  <2>1. held' = "" /\ (typed # held => ~filled')
    BY <1>1, <1>3, Zenon DEF Vault!HeldAfter, Vault!FilledAfter
  <2>2. CASE typed # held
    <3>1. Vault!Act({}) /\ status' = "said"
      BY <1>3, <2>2, Zenon DEF Vault!EnterNewPassphrase
    <3>2. PromptsInv'
      BY <1>1, <2>1, <2>2, Zenon DEF PromptsInv, PhraseOnTop, Vault!AsideForConfirmation,
         Vault!PromptsOpenEmpty
    <3> QED
      BY <1>1, <3>1, <3>2, VaultActs
  <2>3. CASE typed = held
    <3>1. Vault!Act({IF recovery THEN "initRecovery" ELSE "init"}) /\ prompt' = "none"
      BY <1>3, <2>3, Zenon DEF Vault!EnterNewPassphrase
    <3>2. PICK n : n = (IF recovery THEN "initRecovery" ELSE "init")
      OBVIOUS
    <3>3. Vault!Act({n}) /\ "list" \notin {n}
      <4>1. n = "initRecovery" \/ n = "init"
        BY <3>2, Zenon
      <4>2. Vault!Act({n})
        BY <3>1, <3>2, Zenon
      <4> QED
        BY <4>1, <4>2
    <3>4. {n} # {}
      OBVIOUS
    <3>5. PromptsInv'
      BY <1>1, <2>1, <3>1, Zenon DEF PromptsInv, PhraseOnTop, Vault!AsideForConfirmation,
         Vault!PromptsOpenEmpty
    <3> QED
      BY <1>1, <3>3, <3>4, <3>5, VaultActs
  <2> QED
    BY <2>2, <2>3
<1>4. prompt \in {"init-pass", "init-confirm"}
  BY Zenon DEF Vault!EnterNewPassphrase
<1> QED
  BY <1>2, <1>3, <1>4

LEMMA VaultUsePicker ==
  ASSUME VaultInv, NEW choice \in {"selected", "cancelled"}, Vault!UsePicker(choice)
  PROVE  VaultInv'
<1>1. PICK m : /\ m = Vault!Msg(choice, TRUE)
               /\ vMsgs' = vMsgs \cup {m}
  BY Zenon DEF Vault!UsePicker
<1>2. m.is = choice /\ m.ok = TRUE
  BY <1>1 DEF Vault!Msg
<1>3. /\ here /\ here' = here
      /\ UNCHANGED <<vault, table, status, prompt, held, filled, phrase, vCmds, crossed, unlisted,
                     missed, seen>>
  BY Zenon DEF Vault!UsePicker, Vault!screen
<1>4. VaultTypes' /\ AwayIsMissed'
  BY <1>1, <1>2, <1>3 DEF VaultInv, VaultTypes, AnswersAreKnown, AwayIsMissed
<1>5. PhraseComes' /\ BusyIsAnswered'
  BY <1>1, <1>3 DEF VaultInv, PhraseComes, BusyIsAnswered
<1>6. ListingIsAlone'
  BY <1>1, <1>2, <1>3 DEF VaultInv, ListingIsAlone
<1>7. PromptsInv'
  BY <1>3, VaultPrompts, Zenon
<1>8. ListingComes'
  <2>1. Vault!Listing(vault)' = Vault!Listing(vault)
    BY <1>3, Zenon DEF Vault!Listing, Vault!Rows
  <2>2. (ListingAsked => ListingAsked') /\ (ListingDue => ListingDue')
    BY <1>1, <1>3 DEF ListingAsked, ListingDue
  <2>3. (ListingFound => ListingFound') /\ (ListingShown => ListingShown')
    BY <1>1, <1>2, <1>3, <2>1 DEF ListingFound, ListingShown
  <2> QED
    BY <1>3, <2>2, <2>3, Zenon DEF VaultInv, ListingComes
<1> QED
  BY <1>4, <1>5, <1>6, <1>7, <1>8 DEF VaultInv

LEMMA VaultSwitchTab == ASSUME VaultInv, Vault!SwitchTab PROVE VaultInv'
<1>1. /\ UNCHANGED <<vault, table, status, prompt, held, filled, phrase, vMsgs, seen>>
      /\ here' = ~here
  BY Zenon DEF Vault!SwitchTab, Vault!screen
<1>2. missed' = (missed \/ (here /\ Vault!InitUnderWay))
  BY Zenon DEF Vault!SwitchTab
<1>3. PICK names : Vault!Ask(names) /\ names = (IF here' THEN Vault!Refresh ELSE {})
  BY Zenon DEF Vault!SwitchTab
<1>4. (here' => names = {"list"}) /\ (~here' => names = {})
  BY <1>3, Zenon DEF Vault!Refresh
<1>5. vCmds' = vCmds \cup names
  BY <1>3 DEF Vault!Ask
<1>6. ListingIsAlone'
  BY <1>1, <1>3, VaultAsks DEF VaultInv
<1>7. AwayIsMissed'
  <2>1. ASSUME ~here', Vault!InitUnderWay' PROVE missed'
    <3>1. Vault!InitUnderWay
      BY <1>1, <1>4, <1>5, <2>1 DEF Vault!InitUnderWay
    <3> QED
      BY <1>1, <1>2, <2>1, <3>1, Zenon
  <2> QED
    BY <2>1 DEF AwayIsMissed
<1>8. VaultTypes'
  BY <1>1 DEF VaultInv, VaultTypes, AnswersAreKnown
<1>9. PhraseComes'
  BY <1>1, <1>2, Zenon DEF VaultInv, PhraseComes
<1>10. PromptsInv'
  BY <1>1, <1>2, VaultPrompts, Zenon
<1>11. BusyIsAnswered' /\ ListingComes'
  BY <1>4, <1>5 DEF BusyIsAnswered, ListingComes, ListingAsked
<1> QED
  BY <1>6, <1>7, <1>8, <1>9, <1>10, <1>11 DEF VaultInv

(* No operation makes a vault, or a phrase for it. *)
LEMMA VaultDone ==
  ASSUME VaultTypes, NEW op, NEW v \in Vault!Done(op)
  PROVE  DOMAIN v = DOMAIN vault /\ v.exists = vault.exists /\ v.phrase = vault.phrase
<1>1. PICK on : on = (op = "add")
  OBVIOUS
<1>2. \/ v = [vault EXCEPT !.stored = TRUE, !.loaded = TRUE, !.autoload = on]
      \/ v = [vault EXCEPT !.stored = FALSE]
      \/ v = [vault EXCEPT !.loaded = TRUE]
      \/ \E b : v = [vault EXCEPT !.autoload = b]
      \/ v = [vault EXCEPT !.locked = FALSE]
      \/ v = [vault EXCEPT !.locked = TRUE]
  BY <1>1, Zenon DEF Vault!Done
<1> QED
  BY <1>2 DEF VaultTypes

(* A command ends: a listing that found the vault as it is, or an operation. *)
LEMMA VaultFinish ==
  ASSUME VaultInv, NEW n, NEW v, NEW m, Vault!Finish(n, v, m),
         DOMAIN v = DOMAIN vault, v.exists \in BOOLEAN,
         m.is \in {"list", "op", "init"}, m.ok \in BOOLEAN,
         m.is = "list" <=> n = "list",
         m.is = "init" => n \in Vault!Inits,
         m.is = "list" => v = vault /\ (m.ok => m.table = Vault!Listing(vault)),
         v = vault \/ (m.is # "list" /\ m.ok),
         v.phrase => vault.phrase \/ (m.is = "init" /\ m.phrase)
  PROVE  VaultInv'
<1>1. /\ n \in vCmds /\ vCmds' = vCmds \ {n} /\ vault' = v /\ vMsgs' = vMsgs \cup {m}
      /\ UNCHANGED <<here, table, status, prompt, held, filled, phrase, crossed, unlisted, missed,
                     seen>>
  BY Zenon DEF Vault!Finish, Vault!screen
<1>2. IsTable(Vault!Listing(vault))
  BY VaultListing DEF VaultInv, VaultTypes
<1>3. VaultTypes'
  BY <1>1, <1>2 DEF VaultInv, VaultTypes, AnswersAreKnown
<1>4. AwayIsMissed'
  BY <1>1 DEF VaultInv, AwayIsMissed, Vault!InitUnderWay
<1>5. PhraseComes'
  BY <1>1 DEF VaultInv, PhraseComes
<1>6. BusyIsAnswered'
  BY <1>1 DEF BusyIsAnswered
<1>7. ListingIsAlone'
  BY <1>1 DEF VaultInv, ListingIsAlone
<1>8. PromptsInv'
  BY <1>1, VaultPrompts, Zenon
<1>9. ListingComes'
  <2>1. CASE m.is # "list" /\ m.ok
    BY <1>1, <2>1 DEF ListingComes, ListingDue
  <2>2. CASE m.is = "list"
    <3>1. Vault!Listing(vault)' = Vault!Listing(vault)
      BY <1>1, <2>2, Zenon DEF Vault!Listing, Vault!Rows
    <3>2. ListingFound'
      BY <1>1, <2>2, <3>1 DEF ListingFound
    <3> QED
      BY <3>2 DEF ListingComes
  <2>3. CASE m.is # "list" /\ ~m.ok
    <3>1. vault' = vault
      BY <1>1, <2>3
    <3>2. Vault!Listing(vault)' = Vault!Listing(vault)
      BY <3>1, Zenon DEF Vault!Listing, Vault!Rows
    <3>3. (ListingAsked => ListingAsked') /\ (ListingDue => ListingDue')
      BY <1>1, <2>3 DEF ListingAsked, ListingDue
    <3>4. (ListingFound => ListingFound') /\ (ListingShown => ListingShown')
      BY <1>1, <2>3, <3>2 DEF ListingFound, ListingShown
    <3> QED
      BY <1>1, <3>3, <3>4, Zenon DEF VaultInv, ListingComes
  <2> QED
    BY <2>1, <2>2, <2>3
<1> QED
  BY <1>3, <1>4, <1>5, <1>6, <1>7, <1>8, <1>9 DEF VaultInv

LEMMA VaultMsg ==
  ASSUME NEW is, NEW ok
  PROVE  /\ Vault!Msg(is, ok).is = is /\ Vault!Msg(is, ok).ok = ok
<1>1. PICK t0, b0 : Vault!Msg(is, ok) = [is |-> is, ok |-> ok, phrase |-> b0, table |-> t0]
  BY Zenon DEF Vault!Msg
<1> QED
  BY <1>1

LEMMA VaultRunOp == ASSUME VaultInv, NEW op, Vault!RunOp(op) PROVE VaultInv'
<1>1. VaultTypes /\ vault.exists \in BOOLEAN
  BY DEF VaultInv, VaultTypes
<1>2. ASSUME NEW v \in Vault!Done(op), Vault!Finish(op, v, Vault!Msg("op", TRUE)) PROVE VaultInv'
  <2>1. PICK m : m = Vault!Msg("op", TRUE)
    OBVIOUS
  <2>2. m.is = "op" /\ m.ok = TRUE /\ Vault!Finish(op, v, m)
    BY <1>2, <2>1, VaultMsg, Zenon
  <2>3. DOMAIN v = DOMAIN vault /\ v.exists \in BOOLEAN /\ v.phrase = vault.phrase
    BY <1>1, VaultDone
  <2>4. op # "list"
    BY Zenon DEF Vault!Done
  <2> QED
    BY <2>2, <2>3, <2>4, VaultFinish
<1>3. ASSUME op \in Vault!Ops, Vault!Finish(op, vault, Vault!Msg("op", FALSE)) PROVE VaultInv'
  <2>1. PICK m : m = Vault!Msg("op", FALSE)
    OBVIOUS
  <2>2. m.is = "op" /\ m.ok = FALSE /\ Vault!Finish(op, vault, m)
    BY <1>3, <2>1, VaultMsg, Zenon
  <2>3. op # "list"
    BY <1>3 DEF Vault!Ops, Vault!RowOps
  <2> QED
    BY <1>1, <2>2, <2>3, VaultFinish
<1> QED
  BY <1>2, <1>3, Zenon DEF Vault!RunOp

LEMMA VaultRunInit == ASSUME VaultInv, NEW n \in Vault!Inits, Vault!RunInit(n) PROVE VaultInv'
<1>1. VaultTypes /\ vault.exists \in BOOLEAN
  BY DEF VaultInv, VaultTypes
<1>2. n # "list"
  BY DEF Vault!Inits
<1>3. ASSUME NEW r, NEW ok, ok = TRUE,
             Vault!Finish(n, [Vault!NoVault EXCEPT !.exists = TRUE, !.phrase = r],
                             [Vault!Msg("init", ok) EXCEPT !.phrase = r])
      PROVE  VaultInv'
  <2>1. PICK m : m = [Vault!Msg("init", ok) EXCEPT !.phrase = r]
    OBVIOUS
  <2>2. m.is = "init" /\ m.ok = ok /\ m.phrase = r
    <3>1. PICK b, t : Vault!Msg("init", ok) = [is |-> "init", ok |-> ok, phrase |-> b, table |-> t]
      BY Zenon DEF Vault!Msg
    <3> QED
      BY <2>1, <3>1
  <2>3. PICK v : v = [Vault!NoVault EXCEPT !.exists = TRUE, !.phrase = r]
    OBVIOUS
  <2>4. DOMAIN v = DOMAIN vault /\ v.exists = TRUE /\ v.phrase = r
    BY <1>1, <2>3 DEF Vault!NoVault, VaultTypes
  <2>5. Vault!Finish(n, v, m)
    BY <1>3, <2>1, <2>3, Zenon
  <2> QED
    BY <1>2, <1>3, <2>2, <2>4, <2>5, VaultFinish
<1>4. ASSUME Vault!Finish(n, vault, Vault!Msg("init", FALSE)) PROVE VaultInv'
  <2>1. PICK m : m = Vault!Msg("init", FALSE)
    OBVIOUS
  <2>2. m.is = "init" /\ m.ok = FALSE /\ Vault!Finish(n, vault, m)
    BY <1>4, <2>1, VaultMsg, Zenon
  <2> QED
    BY <1>1, <1>2, <2>2, VaultFinish
<1> QED
  BY <1>3, <1>4, Zenon DEF Vault!RunInit

LEMMA VaultRunList == ASSUME VaultInv, Vault!RunList PROVE VaultInv'
<1>1. vault.exists \in BOOLEAN
  BY DEF VaultInv, VaultTypes
<1>2. ASSUME NEW ok, ok = TRUE,
             Vault!Finish("list", vault, [Vault!Msg("list", ok) EXCEPT !.table = Vault!Listing(vault)])
      PROVE  VaultInv'
  <2>1. PICK m : m = [Vault!Msg("list", ok) EXCEPT !.table = Vault!Listing(vault)]
    OBVIOUS
  <2>2. m.is = "list" /\ m.ok = ok /\ m.table = Vault!Listing(vault)
    <3>1. PICK b, t : Vault!Msg("list", ok) = [is |-> "list", ok |-> ok, phrase |-> b, table |-> t]
      BY Zenon DEF Vault!Msg
    <3> QED
      BY <2>1, <3>1
  <2>3. Vault!Finish("list", vault, m)
    BY <1>2, <2>1, Zenon
  <2> QED
    BY <1>1, <1>2, <2>2, <2>3, VaultFinish
<1>3. CASE Vault!Finish("list", vault, Vault!Msg("list", FALSE))
  <2>1. PICK m : m = Vault!Msg("list", FALSE)
    OBVIOUS
  <2>2. m.is = "list" /\ m.ok = FALSE /\ Vault!Finish("list", vault, m)
    BY <1>3, <2>1, VaultMsg, Zenon
  <2> QED
    BY <1>1, <2>2, VaultFinish
<1> QED
  BY <1>2, <1>3, Zenon DEF Vault!RunList

LEMMA VaultElsewhere ==
  ASSUME VaultInv, NEW v, Vault!Elsewhere(v),
         DOMAIN v = DOMAIN vault, v.exists \in BOOLEAN, v.phrase => vault.phrase
  PROVE  VaultInv'
<1>1. /\ here' = here /\ vault' = v
      /\ unlisted' = (unlisted \/ (here /\ "list" \notin vCmds))
      /\ UNCHANGED <<table, status, prompt, held, filled, phrase, vCmds, vMsgs, crossed, missed, seen>>
  BY Zenon DEF Vault!Elsewhere, Vault!screen, Vault!flow
<1>2. VaultTypes'
  BY <1>1 DEF VaultInv, VaultTypes, AnswersAreKnown
<1>3. AwayIsMissed' /\ PhraseComes'
  BY <1>1 DEF VaultInv, AwayIsMissed, PhraseComes, Vault!InitUnderWay
<1>4. BusyIsAnswered'
  BY <1>1 DEF VaultInv, BusyIsAnswered
<1>5. ListingComes'
  BY <1>1, Zenon DEF ListingComes, ListingAsked
<1>6. ListingIsAlone'
  BY <1>1 DEF VaultInv, ListingIsAlone
<1>7. PromptsInv'
  BY <1>1, VaultPrompts, Zenon
<1> QED
  BY <1>2, <1>3, <1>4, <1>5, <1>6, <1>7 DEF VaultInv

LEMMA VaultOpElsewhere ==
  ASSUME VaultInv, NEW op, NEW v \in Vault!Done(op), Vault!Elsewhere(v) PROVE VaultInv'
<1>1. DOMAIN v = DOMAIN vault /\ v.exists = vault.exists /\ v.phrase = vault.phrase
  BY VaultDone DEF VaultInv
<1>2. v.exists \in BOOLEAN
  BY <1>1 DEF VaultInv, VaultTypes
<1> QED
  BY <1>1, <1>2, VaultElsewhere

LEMMA VaultInitElsewhere == ASSUME VaultInv, Vault!InitElsewhere PROVE VaultInv'
<1>1. PICK v : v = [Vault!NoVault EXCEPT !.exists = TRUE]
  OBVIOUS
<1>2. DOMAIN v = DOMAIN vault /\ v.exists = TRUE /\ v.phrase = FALSE
  BY <1>1 DEF VaultInv, VaultTypes, Vault!NoVault
<1>3. Vault!Elsewhere(v)
  BY <1>1, Zenon DEF Vault!InitElsewhere
<1> QED
  BY <1>2, <1>3, VaultElsewhere

(* A message that comes too late: the one thing it can lose is a phrase, and that is
   missed. *)
LEMMA VaultUnheard ==
  ASSUME VaultInv, NEW m \in vMsgs, Vault!Handle(m), ~Vault!Heard(m)
  PROVE  VaultInv'
<1>1. vMsgs' = vMsgs \ {m}
  BY Zenon DEF Vault!Handle
<1>2. UNCHANGED <<here, vault, table, status, prompt, held, filled, phrase, vCmds, crossed,
                  unlisted, missed, seen>>
  BY Zenon DEF Vault!Handle
<1>3. ~here
  <2>1. m.is \in Vault!UnderPicker
    BY DEF VaultInv, VaultTypes, AnswersAreKnown, Vault!UnderPicker
  <2> QED
    BY <2>1, Zenon DEF Vault!Heard
<1>4. VaultTypes'
  BY <1>1, <1>2 DEF VaultInv, VaultTypes, AnswersAreKnown
<1>5. AwayIsMissed'
  BY <1>1, <1>2 DEF VaultInv, AwayIsMissed, Vault!InitUnderWay
<1>6. PhraseComes'
  <2>1. ASSUME vault.phrase, ~missed, ~phrase, ~seen PROVE \E n \in vMsgs' : n.is = "init" /\ n.phrase
    BY <1>1, <1>3, <2>1 DEF VaultInv, PhraseComes, AwayIsMissed, Vault!InitUnderWay
  <2> QED
    BY <1>2, <2>1, Zenon DEF PhraseComes
<1>7. ListingIsAlone'
  BY <1>1, <1>2 DEF VaultInv, ListingIsAlone
<1>8. PromptsInv'
  BY <1>2, VaultPrompts, Zenon
<1>9. BusyIsAnswered' /\ ListingComes'
  BY <1>2, <1>3 DEF BusyIsAnswered, ListingComes
<1> QED
  BY <1>4, <1>5, <1>6, <1>7, <1>8, <1>9 DEF VaultInv

(* What becomes of the table. *)
LEMMA VaultTableAfter ==
  ASSUME VaultInv, NEW m \in vMsgs,
         Vault!IdentitiesMsg(m) \/ Vault!OpResultMsg(m) \/ Vault!InitResultMsg(m) \/ Vault!PickerMsg(m)
  PROVE  /\ IsTable(table')
         /\ m.is = "list" => IF m.ok THEN table' = m.table ELSE table'.failed = TRUE
         /\ m.is # "list" => table' = table \/ (m.is = "init" /\ m.ok)
<1>1. IsTable(table) /\ m.ok \in BOOLEAN /\ (m.is = "list" /\ m.ok => IsTable(m.table))
  BY DEF VaultInv, VaultTypes, AnswersAreKnown
<1>2. PICK i, r, f : table = [initialized |-> i, rows |-> r, failed |-> f] /\ i \in BOOLEAN
  BY <1>1 DEF IsTable
<1>3. CASE Vault!IdentitiesMsg(m)
  <2>1. CASE m.ok
    BY <1>1, <1>3, <2>1 DEF Vault!IdentitiesMsg
  <2>2. CASE ~m.ok
    <3>1. table' = [table EXCEPT !.rows = {}, !.failed = TRUE] /\ m.is = "list"
      BY <1>3, <2>2, Zenon DEF Vault!IdentitiesMsg
    <3>2. table' = [initialized |-> i, rows |-> {}, failed |-> TRUE]
      BY <1>2, <3>1
    <3> QED
      BY <1>2, <2>2, <3>1, <3>2 DEF IsTable
  <2> QED
    BY <2>1, <2>2
<1>4. CASE Vault!InitResultMsg(m)
  <2>1. m.is = "init" /\ table' = [table EXCEPT !.initialized = @ \/ m.ok]
    BY <1>4, Zenon DEF Vault!InitResultMsg
  <2>2. PICK j \in BOOLEAN : j = (i \/ m.ok)
    BY <1>1, <1>2
  <2>3. table' = [initialized |-> j, rows |-> r, failed |-> f]
    BY <1>2, <2>1, <2>2
  <2>4. ~m.ok => j = i
    BY <1>2, <2>2
  <2> QED
    BY <1>1, <1>2, <2>1, <2>3, <2>4 DEF IsTable
<1>5. CASE Vault!OpResultMsg(m) \/ Vault!PickerMsg(m)
  <2>1. table' = table /\ m.is # "list"
    BY <1>5 DEF Vault!OpResultMsg, Vault!PickerMsg
  <2> QED
    BY <1>1, <2>1, Zenon
<1> QED
  BY <1>3, <1>4, <1>5

LEMMA VaultHeard ==
  ASSUME VaultInv, NEW m \in vMsgs, Vault!Handle(m), Vault!Heard(m)
  PROVE  VaultInv'
<1>1. vMsgs' = vMsgs \ {m} /\ UNCHANGED <<here, vault, prompt, held, filled, seen>>
  BY Zenon DEF Vault!Handle
<1>2. here /\ Vault!Ask(Vault!AskAfter(m)) /\ status' = Vault!StatusAfter(m)
  BY Zenon DEF Vault!Handle, Vault!Heard
<1>3. Vault!IdentitiesMsg(m) \/ Vault!OpResultMsg(m) \/ Vault!InitResultMsg(m) \/ Vault!PickerMsg(m)
  BY Zenon DEF Vault!Handle
<1>4. m.is \in {"list", "op", "init", "selected", "cancelled"} /\ m.ok \in BOOLEAN
  BY DEF VaultInv, VaultTypes, AnswersAreKnown
<1>5. PICK names : names = Vault!AskAfter(m)
  OBVIOUS
<1>6. Vault!Ask(names) /\ vCmds' = vCmds \cup names
  BY <1>2, <1>5, Zenon DEF Vault!Ask
<1>7. /\ m.is = "list" => names = {}
      /\ m.is \in {"op", "init"} /\ m.ok => names = {"list"}
      /\ m.is \in {"op", "init"} /\ ~m.ok => names = {}
      /\ m.is = "selected" => names = {"add"} \/ names = {"addSession"}
      /\ m.is = "cancelled" => names = {}
  BY <1>5 DEF Vault!AskAfter
<1>8. IsTable(table')
  BY <1>3, VaultTableAfter, Zenon
<1>9. VaultTypes'
  BY <1>1, <1>8 DEF VaultInv, VaultTypes, AnswersAreKnown
<1>10. AwayIsMissed'
  BY <1>1, <1>2 DEF AwayIsMissed
<1>11. /\ missed => missed'
       /\ phrase => phrase'
       /\ m.is = "init" /\ m.phrase => phrase'
       /\ phrase' => phrase \/ missed' \/ prompt = "none"
  <2>1. CASE Vault!InitResultMsg(m)
    <3>1. phrase' = (phrase \/ m.phrase) /\ missed' = (missed \/ (m.phrase /\ prompt # "none"))
      BY <2>1, Zenon DEF Vault!InitResultMsg
    <3> QED
      BY <3>1
  <2>2. CASE Vault!IdentitiesMsg(m) \/ Vault!OpResultMsg(m) \/ Vault!PickerMsg(m)
    <3>1. phrase' = phrase /\ missed' = missed /\ m.is # "init"
      BY <2>2 DEF Vault!IdentitiesMsg, Vault!OpResultMsg, Vault!PickerMsg
    <3> QED
      BY <3>1
  <2> QED
    BY <1>3, <2>1, <2>2
<1>12. PhraseComes'
  <2>1. CASE m.is = "init" /\ m.phrase
    BY <1>11, <2>1, Zenon DEF PhraseComes
  <2>2. CASE ~(m.is = "init" /\ m.phrase)
    <3>1. (\E n \in vMsgs : n.is = "init" /\ n.phrase) => \E n \in vMsgs' : n.is = "init" /\ n.phrase
      BY <1>1, <2>2
    <3> QED
      BY <1>1, <1>11, <3>1, Zenon DEF VaultInv, PhraseComes
  <2> QED
    BY <2>1, <2>2
<1>13. BusyIsAnswered'
  <2>1. CASE m.is \in {"selected", "cancelled"}
    <3>1. status' = status
      BY <1>2, <2>1 DEF Vault!StatusAfter
    <3>2. /\ vCmds # {} => vCmds' # {}
          /\ (\E n \in vMsgs : n.is \notin {"selected", "cancelled"})
               => \E n \in vMsgs' : n.is \notin {"selected", "cancelled"}
      BY <1>1, <1>6, <2>1
    <3> QED
      BY <1>2, <3>1, <3>2, Zenon DEF VaultInv, BusyIsAnswered
  <2>2. CASE m.is \notin {"selected", "cancelled"}
    BY <1>2, <2>2 DEF Vault!StatusAfter, BusyIsAnswered
  <2> QED
    BY <2>1, <2>2
<1>14. ListingIsAlone'
  BY <1>1, <1>6, VaultAsks DEF VaultInv
<1>15. PromptsInv'
  BY <1>1, <1>11, Zenon DEF VaultInv, PromptsInv, PhraseOnTop, Vault!AsideForConfirmation,
     Vault!PromptsOpenEmpty
<1>16. ListingComes'
  <2>1. Vault!Listing(vault)' = Vault!Listing(vault)
    BY <1>1, Zenon DEF Vault!Listing, Vault!Rows
  <2>2. CASE m.is \in {"op", "init"} /\ m.ok
    BY <1>6, <1>7, <2>2 DEF ListingComes, ListingAsked
  <2>3. CASE m.is = "list"
    <3>1. ASSUME ~crossed', ~unlisted' PROVE ListingAsked' \/ ListingDue' \/ ListingFound' \/ ListingShown'
      <4>1. crossed' = crossed /\ (unlisted => unlisted')
        BY <1>6, <1>7, <2>3 DEF Vault!Ask
      <4>2. "list" \notin vCmds /\ \A n \in vMsgs : n.is = "list" => n = m
        BY <2>3, <3>1, <4>1 DEF VaultInv, ListingIsAlone
      <4>3. ListingDue \/ ListingFound
        BY <1>2, <2>3, <3>1, <4>1, <4>2 DEF VaultInv, ListingComes, ListingAsked, ListingShown
      <4>4. ListingDue => ListingDue'
        BY <1>1, <2>3 DEF ListingDue
      <4>5. ListingFound => ListingShown'
        <5>1. \A n \in vMsgs' : n.is # "list"
          BY <1>1, <4>2
        <5>2. ASSUME ListingFound PROVE m.ok => m.table = Vault!Listing(vault)
          BY <4>2, <5>2, Zenon DEF ListingFound
        <5>3. IF m.ok THEN table' = m.table ELSE table'.failed = TRUE
          BY <1>3, <2>3, VaultTableAfter
        <5> QED
          BY <2>1, <5>1, <5>2, <5>3, Zenon DEF ListingShown
      <4> QED
        BY <4>3, <4>4, <4>5
    <3> QED
      BY <3>1 DEF ListingComes
  <2>4. CASE m.is # "list" /\ ~(m.is \in {"op", "init"} /\ m.ok)
    <3>1. crossed' = crossed /\ (unlisted => unlisted')
      BY <1>4, <1>6, <1>7, <2>4 DEF Vault!Ask
    <3>2. (ListingAsked => ListingAsked') /\ (ListingDue => ListingDue')
      BY <1>1, <1>6, <2>4 DEF ListingAsked, ListingDue
    <3>3. ListingFound => ListingFound'
      BY <1>1, <2>1, <2>4 DEF ListingFound
    <3>4. table' = table
      BY <1>3, <2>4, VaultTableAfter
    <3>5. ListingShown => ListingShown'
      <4>1. (\A n \in vMsgs : n.is # "list") => \A n \in vMsgs' : n.is # "list"
        BY <1>1
      <4> QED
        BY <2>1, <3>4, <4>1, Zenon DEF ListingShown
    <3> QED
      BY <1>1, <3>1, <3>2, <3>3, <3>5, Zenon DEF VaultInv, ListingComes
  <2> QED
    BY <1>4, <2>2, <2>3, <2>4
<1> QED
  BY <1>9, <1>10, <1>12, <1>13, <1>14, <1>15, <1>16 DEF VaultInv

LEMMA VaultNext == VaultInv /\ [Vault!Next]_vaultVars => VaultInv'
<1> SUFFICES ASSUME VaultInv, [Vault!Next]_vaultVars PROVE VaultInv'
  OBVIOUS
<1>1. CASE Vault!Next
  BY <1>1, VaultKeys, VaultNewPassphrase, VaultUsePicker, VaultSwitchTab, VaultRunOp, VaultRunInit,
     VaultRunList, VaultOpElsewhere, VaultInitElsewhere, VaultHeard, VaultUnheard, Zenon DEF Vault!Next
<1>2. CASE UNCHANGED vaultVars
  <2>1. UNCHANGED <<here, vault, table, status, prompt, held, filled, phrase, vCmds, vMsgs, crossed,
                    unlisted, missed, seen>>
    BY <1>2, Zenon DEF vaultVars
  <2>2. PromptsInv'
    BY <2>1, VaultPrompts, Zenon
  <2>3. Vault!Listing(vault)' = Vault!Listing(vault)
    BY <2>1, Zenon DEF Vault!Listing, Vault!Rows
  <2>4. (ListingFound => ListingFound') /\ (ListingShown => ListingShown')
    BY <2>1, <2>3, Zenon DEF ListingFound, ListingShown
  <2>5. VaultTypes' /\ AwayIsMissed' /\ PhraseComes' /\ BusyIsAnswered' /\ ListingIsAlone'
    BY <2>1 DEF VaultInv, VaultTypes, AnswersAreKnown, AwayIsMissed, PhraseComes, BusyIsAnswered,
       ListingIsAlone, Vault!InitUnderWay
  <2>6. ListingComes'
    BY <2>1, <2>4, Zenon DEF VaultInv, ListingComes, ListingAsked, ListingDue
  <2> QED
    BY <2>2, <2>5, <2>6 DEF VaultInv
<1> QED
  BY <1>1, <1>2

-----------------------------------------------------------------------------
(* A behaviour is one of one tab; the others stay as they began. *)

TabsInv == CreateInv /\ EditInv /\ ExportInv /\ VaultInv

LEMMA TabsHold == TuiSpec => []TabsInv
<1>1. TuiInit => TabsInv
  BY CreateInit, EditInit, ExportInit, VaultInit DEF TuiInit, TabsInv
<1>2. TabsInv /\ [TuiNext]_allVars => TabsInv'
  <2>1. [TuiNext]_allVars => /\ [Create!Next]_createVars /\ [Edit!Next]_editVars
                             /\ [Export!Next]_exportVars /\ [Vault!Next]_vaultVars
    BY DEF TuiNext, allVars, OnlyShell, OnlyAgent, OnlyVault, OnlyCreate, OnlyEdit, OnlyExport
  <2> QED
    BY <2>1, CreateNext, EditNext, ExportNext, VaultNext DEF TabsInv
<1> QED
  BY <1>1, <1>2, SafetyOfSpec, PTL

(* TuiCreate: with the keyboard the Create tab overwrites no key unwarned; the Export tab
   does not warn (create.go:217-221, :414-422). *)
THEOREM OverwritesAreWarned == TuiSpec => []OverwritesWarned
<1>1. TabsInv => OverwritesWarned
  BY DEF TabsInv, CreateInv, OverwritesWarned, Create!OverwritesWarned
<1> QED
  BY <1>1, TabsHold, PTL

(* TuiCreate: the focus is never on options that are not shown (create.go:100-102).
   TuiExport: nor on a table or a key there is none of, and it is on the agent's table
   while that is shown, unless a key that was loading took it from there
   (export.go:109-119, :367-382, :416-421). *)
THEOREM FocusStaysShown == TuiSpec => []FocusIsShown
<1>1. TabsInv => FocusIsShown
  BY DEF TabsInv, CreateInv, ExportInv, FocusIsShown
<1> QED
  BY <1>1, TabsHold, PTL

(* TuiExport: a key is saved under its own default name or one typed for it
   (export.go:177-191, :384-394). *)
THEOREM NamesStayWithKeys == TuiSpec => []SavedUnderOwnName
<1>1. TabsInv => SavedUnderOwnName
  BY DEF TabsInv, ExportInv, SavedUnderOwnName
<1> QED
  BY <1>1, TabsHold, PTL

(* TuiEdit: a comment is edited and compared for the key it belongs to
   (edit.go:134-171, :295-300). *)
THEOREM CommentsStayWithKeys == TuiSpec => []CommentOfItsKey
<1>1. TabsInv => CommentOfItsKey
  BY EditInvShows DEF TabsInv
<1> QED
  BY <1>1, TabsHold, PTL

(* TuiVault: at rest the tab shows the vault, and says that it is busy only with an
   answer on its way (vault.go:172-177, :651-660). *)
THEOREM ScreenStaysTrue == TuiSpec => []ScreenIsTrue
<1>1. TabsInv => ScreenIsTrue
  BY VaultInvShows DEF TabsInv
<1> QED
  BY <1>1, TabsHold, PTL

(* TuiVault: a recovery phrase is shown before it goes, a passphrase is asked for twice
   (vault.go:299-302, :422-459, :825-862). *)
THEOREM SecretsStayHandled == TuiSpec => []SecretsHandled
<1>1. TabsInv => SecretsHandled
  BY VaultInvShows DEF TabsInv
<1> QED
  BY <1>1, TabsHold, PTL
=============================================================================

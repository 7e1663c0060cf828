-------------------------------- MODULE Tui_proof --------------------------------
(***************************************************************************)
(* Proofs about the frame of the terminal interface and its Agent tab, for *)
(* any number of presets, presses, events elsewhere and messages on their  *)
(* way.  The invariant of the frame falls into two halves that disturb     *)
(* each other in no step: the chrome (tabs, focus, what the pages show)    *)
(* and the themes (the picker, the theme, the message in the footer).      *)
(* That of the Agent tab is what it has heard of the agent, and its chain  *)
(* of polls.                                                               *)
(***************************************************************************)
EXTENDS MCTui, TLAPS

(* The fairness of TuiSpec is of no use here. *)
LEMMA SafetyOfSpec == TuiSpec => TuiInit /\ [][TuiNext]_allVars
BY PTL DEF TuiSpec

-----------------------------------------------------------------------------
(* TuiShell. *)

Views == {"plain", "modal", "typing", "prompt"}

ChromeInv ==
  /\ tab \in 1 .. TabCount /\ tabBefore \in 1 .. TabCount
  /\ nav \in {"screen", "tabs", "tools"} /\ navBefore \in {"screen", "tabs", "tools"}
  /\ view \in [1 .. TabCount -> Views]
  /\ nudge \in BOOLEAN /\ help \in BOOLEAN /\ quit \in BOOLEAN
  /\ ToolsAreLeft

(* While the picker is open, and was opened once, Esc goes back to the theme that was on. *)
ThemeInv ==
  /\ picker \in BOOLEAN /\ reopened \in BOOLEAN
  /\ theme \in Themes /\ themeBefore \in Themes /\ chosen \in Themes
  /\ message \in 0 .. MaxGeneration /\ generation \in 0 .. MaxGeneration
  /\ timers \subseteq 0 .. MaxGeneration
  /\ MessageWillClear
  /\ PickerCancelRestores
  /\ picker /\ ~reopened => themeBefore = chosen

ShellInv == ChromeInv /\ ThemeInv

LEMMA TabsAreTwo == TabCount = 2 /\ AgentTab \in 1 .. TabCount
BY DEF TabCount, Tabs, AgentTab

LEMMA ShellInit == Init => ShellInv
<1> SUFFICES ASSUME Init PROVE ShellInv
  OBVIOUS
<1>1. ChromeInv
  BY TabsAreTwo DEF Init, ChromeInv, Views, ToolsAreLeft
<1>2. ThemeInv
  <2>1. message = 0 /\ generation = 0 /\ timers = {} /\ 0 \in 0 .. MaxGeneration
    BY BoundAssumption DEF Init
  <2>2. picker \in BOOLEAN /\ reopened \in BOOLEAN /\ ~picker
    BY DEF Init
  <2>3. theme \in Themes /\ themeBefore = theme /\ chosen = theme
    BY DEF Init
  <2> QED
    BY <2>1, <2>2, <2>3 DEF ThemeInv, MessageWillClear, PickerCancelRestores
<1> QED
  BY <1>1, <1>2 DEF ShellInv

-----------------------------------------------------------------------------
(* The themes. *)

LEMMA OpenPickerThemes ==
  ASSUME ThemeInv, OpenPicker
  PROVE  ThemeInv'
BY BoundAssumption DEF OpenPicker, ThemeInv, MessageWillClear, PickerCancelRestores, Themes, Custom

LEMMA CancelThemes ==
  ASSUME ThemeInv, picker, Cancel
  PROVE  ThemeInv'
BY DEF Cancel, Close, Restored, ThemeInv, MessageWillClear, PickerCancelRestores

(* A message that is announced has its timer. *)
LEMMA AnnouncedThemes ==
  ASSUME ThemeInv, Announced
  PROVE  /\ message' \in 0 .. MaxGeneration /\ generation' \in 0 .. MaxGeneration
         /\ timers' \subseteq 0 .. MaxGeneration
         /\ MessageWillClear'
BY BoundAssumption DEF Announced, ThemeInv, MessageWillClear

LEMMA SaveThemes ==
  ASSUME ThemeInv, picker, Save
  PROVE  ThemeInv'
<1>1. picker' = FALSE /\ reopened' = FALSE /\ theme' = theme /\ chosen' = theme
      /\ themeBefore' = theme
  BY DEF Save, Close
<1>2. /\ message' \in 0 .. MaxGeneration /\ generation' \in 0 .. MaxGeneration
      /\ timers' \subseteq 0 .. MaxGeneration
      /\ MessageWillClear'
  <2>1. CASE Announced
    BY <2>1, AnnouncedThemes
  <2>2. CASE timers' = timers \cup {generation} /\ UNCHANGED <<message, generation>>
    BY <2>2 DEF ThemeInv, MessageWillClear
  <2> QED
    BY <2>1, <2>2 DEF Save
<1> QED
  BY <1>1, <1>2 DEF ThemeInv, PickerCancelRestores

LEMMA PreviewThemes ==
  ASSUME ThemeInv, picker, NEW i \in Themes, Preview(i)
  PROVE  ThemeInv'
<1>1. theme' = i /\ Announced /\ UNCHANGED <<picker, themeBefore, chosen, reopened>>
  BY DEF Preview
<1>2. /\ message' \in 0 .. MaxGeneration /\ generation' \in 0 .. MaxGeneration
      /\ timers' \subseteq 0 .. MaxGeneration
      /\ MessageWillClear'
  BY <1>1, AnnouncedThemes
<1> QED
  BY <1>1, <1>2 DEF ThemeInv, PickerCancelRestores

LEMMA ClearThemes ==
  ASSUME ThemeInv, NEW g \in timers, ThemeMessageClear(g)
  PROVE  ThemeInv'
BY BoundAssumption DEF ThemeMessageClear, ThemeInv, MessageWillClear, PickerCancelRestores

LEMMA UnchangedThemes ==
  ASSUME ThemeInv, UNCHANGED themes
  PROVE  ThemeInv'
BY DEF themes, ThemeInv, MessageWillClear, PickerCancelRestores

(* The rows of the picker. *)
LEMMA RowsAreThemes == 1 .. Order \subseteq Themes
BY BoundAssumption DEF Order, Themes, Custom

LEMMA PickerKeyThemes ==
  ASSUME ThemeInv, picker, NEW key \in PickerKeys, PickerKey(key)
  PROVE  ThemeInv'
<1>1. CASE key \in {"esc", "q"}
  <2>1. Cancel
    BY <1>1 DEF PickerKey
  <2> QED
    BY <2>1, CancelThemes
<1>2. CASE key \in {"enter", "s"}
  <2>1. Save
    BY <1>2 DEF PickerKey
  <2> QED
    BY <2>1, SaveThemes
<1>3. CASE key = "up"
  <2>1. IF theme > 1 THEN Preview(theme - 1) ELSE UNCHANGED themes
    BY <1>3 DEF PickerKey
  <2>2. theme > 1 => theme - 1 \in Themes
    BY BoundAssumption DEF ThemeInv, Themes, Custom
  <2> QED
    BY <2>1, <2>2, PreviewThemes, UnchangedThemes
<1>4. CASE key = "down"
  <2>1. IF theme < Order THEN Preview(theme + 1) ELSE UNCHANGED themes
    BY <1>4 DEF PickerKey
  <2>2. theme < Order => theme + 1 \in Themes
    BY BoundAssumption DEF ThemeInv, Themes, Custom, Order
  <2> QED
    BY <2>1, <2>2, PreviewThemes, UnchangedThemes
<1> QED
  BY <1>1, <1>2, <1>3, <1>4 DEF PickerKeys

-----------------------------------------------------------------------------
(* The chrome. *)

Places == {"screen", "tabs", "tools"}

LEMMA UnchangedChrome ==
  ASSUME ChromeInv, UNCHANGED chrome, UNCHANGED <<view, nudge>>
  PROVE  ChromeInv'
BY DEF chrome, ChromeInv, ToolsAreLeft

(* What a page shows, or a nudge: the frame stays as it is. *)
LEMMA PageChrome ==
  ASSUME ChromeInv, UNCHANGED <<tab, nav, navBefore, tabBefore, help>>,
         NEW t \in 1 .. TabCount, NEW v \in Views, view' = [view EXCEPT ![t] = v],
         nudge' \in BOOLEAN, quit' \in BOOLEAN
  PROVE  ChromeInv'
BY DEF ChromeInv, ToolsAreLeft

LEMMA ViewsAreViews == \A t : ViewsOf(t) \subseteq Views
BY DEF ViewsOf, Views

LEMMA PageGetsChrome ==
  ASSUME ChromeInv, NEW key, PageGets(key)
  PROVE  ChromeInv'
<1>1. PICK v \in ViewsOf(tab) : view' = [view EXCEPT ![tab] = v]
  BY DEF PageGets
<1>2. nudge' \in BOOLEAN /\ quit' \in BOOLEAN
  BY DEF PageGets, ChromeInv
<1>3. UNCHANGED <<tab, nav, navBefore, tabBefore, help>> /\ tab \in 1 .. TabCount
  BY DEF PageGets, ChromeInv
<1> QED
  BY <1>1, <1>2, <1>3, PageChrome, ViewsAreViews

(* After a change of tabs the focus is on the tab bar, or where the caller says. *)
LEMMA SwitchTabChrome ==
  ASSUME ChromeInv, NEW t \in 1 .. TabCount, NEW otherwise \in Places,
         SwitchTab(t, otherwise)
  PROVE  /\ tab' = t /\ nav' \in {"tabs", otherwise}
         /\ view' \in [1 .. TabCount -> Views]
<1>1. PICK v \in Landing(t) : view' = [view EXCEPT ![t] = v]
  BY DEF SwitchTab
<1>2. v \in Views
  BY DEF Landing, ChromeInv, Views
<1> QED
  BY <1>1, <1>2 DEF SwitchTab, Focus, ChromeInv

(* A change of tabs that comes from a key. *)
LEMMA SwitchedChrome ==
  ASSUME ChromeInv, NEW t \in 1 .. TabCount, NEW otherwise \in {"screen", "tabs"},
         SwitchTab(t, otherwise), Switched
  PROVE  ChromeInv'
<1>1. /\ tab' = t /\ nav' \in {"tabs", otherwise}
      /\ view' \in [1 .. TabCount -> Views]
  BY SwitchTabChrome DEF Places
<1> QED
  BY <1>1 DEF Switched, ChromeInv, ToolsAreLeft

(* The neighbours of a tab are tabs. *)
LEMMA NeighboursAreTabs ==
  ASSUME ChromeInv
  PROVE  /\ (IF tab = 1 THEN TabCount ELSE tab - 1) \in 1 .. TabCount
         /\ (IF tab = TabCount THEN 1 ELSE tab + 1) \in 1 .. TabCount
BY TabsAreTwo DEF ChromeInv

(* A prompt that opens on the Agent page. *)
LEMMA PromptChrome ==
  ASSUME ChromeInv, NEW key, PromptOpens(key)
  PROVE  view' \in [1 .. TabCount -> Views]
BY TabsAreTwo DEF PromptOpens, ChromeInv, Views

LEMMA QuitsChrome ==
  ASSUME ChromeInv, Quits
  PROVE  ChromeInv'
BY DEF Quits, ChromeInv, ToolsAreLeft

(* The help opens or closes. *)
LEMMA HelpChrome ==
  ASSUME ChromeInv, help' \in BOOLEAN, UNCHANGED <<tab, nav, navBefore, tabBefore>>, Framed
  PROVE  ChromeInv'
BY DEF Framed, ChromeInv, ToolsAreLeft

(* The focus moves within the page and the tab bar. *)
LEMMA FocusChrome ==
  ASSUME ChromeInv, nav' \in {"screen", "tabs"}, UNCHANGED <<tab, navBefore, tabBefore, help>>,
         Framed
  PROVE  ChromeInv'
BY DEF Framed, ChromeInv, ToolsAreLeft

LEMMA OpenPickerChrome ==
  ASSUME ChromeInv, OpenPicker
  PROVE  ChromeInv'
BY DEF OpenPicker, Focus, ChromeInv, ToolsAreLeft

(* The tools remember where the focus was, and that was not the tools. *)
LEMMA ActivateToolsChrome ==
  ASSUME ChromeInv, nav # "tools", ActivateTools, Framed
  PROVE  ChromeInv'
BY TabsAreTwo DEF ActivateTools, Framed, Focus, ChromeInv, ToolsAreLeft

LEMMA ToolsKeyChrome ==
  ASSUME ChromeInv, nav = "tools", NEW key \in Keys, ToolsKey(key)
  PROVE  ChromeInv'
<1>1. CASE key = "ctrl+c"
  <2>1. Quits
    BY <1>1 DEF ToolsKey, ButtonKeys, PromptKeys
  <2> QED
    BY <2>1, QuitsChrome
<1>2. CASE key = "?"
  <2>1. help' = TRUE /\ UNCHANGED <<tab, nav, navBefore, tabBefore>> /\ Framed
    BY <1>2 DEF ToolsKey, ButtonKeys, PromptKeys
  <2> QED
    BY <2>1, HelpChrome
<1>3. CASE key \in {"d", "esc"}
  <2>1. ExitTools /\ Switched
    BY <1>3 DEF ToolsKey, ButtonKeys, PromptKeys
  <2>2. navBefore \in {"screen", "tabs"}
    BY DEF ChromeInv, ToolsAreLeft
  <2>3. CASE tabBefore = tab
    BY <2>1, <2>2, <2>3 DEF ExitTools, Focus, Switched, ChromeInv, ToolsAreLeft
  <2>4. CASE tabBefore # tab
    BY <2>1, <2>2, <2>4, SwitchedChrome DEF ExitTools, ChromeInv
  <2> QED
    BY <2>3, <2>4
<1>4. CASE key \in ButtonKeys \cup PromptKeys \cup {"enter"}
  <2>1. /\ IF key \in ButtonKeys THEN UNCHANGED view ELSE PromptOpens(key)
        /\ nav' \in {"screen", nav}
        /\ UNCHANGED <<tab, navBefore, tabBefore, help, quit, nudge>>
    BY <1>4 DEF ToolsKey, Focus, ButtonKeys, PromptKeys
  <2>2. view' \in [1 .. TabCount -> Views]
    BY <2>1, PromptChrome DEF ChromeInv
  <2> QED
    BY <2>1, <2>2 DEF ChromeInv, ToolsAreLeft
<1>5. CASE key \notin {"ctrl+c", "?", "d", "esc"} \cup ButtonKeys \cup PromptKeys \cup {"enter"}
  <2>1. Ignored
    BY <1>5 DEF ToolsKey
  <2> QED
    BY <2>1, UnchangedChrome DEF Ignored
<1> QED
  BY <1>1, <1>2, <1>3, <1>4, <1>5

LEMMA DaemonKeyChrome ==
  ASSUME ChromeInv, nav # "tools", NEW key, DaemonKey(key)
  PROVE  ChromeInv'
<1>1. UNCHANGED <<navBefore, tabBefore, help, quit, nudge>>
  BY DEF DaemonKey
<1>2. tab' \in {tab, AgentTab} /\ nav' \in {"screen", nav}
  BY DEF DaemonKey, Focus
<1>3. view' \in [1 .. TabCount -> Views]
  BY PromptChrome DEF DaemonKey, ChromeInv
<1> QED
  BY <1>1, <1>2, <1>3, TabsAreTwo DEF ChromeInv, ToolsAreLeft

LEMMA DKeyChrome ==
  ASSUME ChromeInv, nav # "tools", DKey
  PROVE  ChromeInv'
BY PageGetsChrome, ActivateToolsChrome DEF DKey

LEMMA TabBarKeyChrome ==
  ASSUME ChromeInv, NEW key \in Keys, TabBarKey(key)
  PROVE  ChromeInv'
<1>1. CASE key \in {"q", "esc", "ctrl+c"}
  <2>1. Quits
    BY <1>1 DEF TabBarKey
  <2> QED
    BY <2>1, QuitsChrome
<1>2. CASE key \in {"left", "right"}
  <2>1. \/ SwitchTab(IF tab = 1 THEN TabCount ELSE tab - 1, "tabs") /\ Switched
        \/ SwitchTab(IF tab = TabCount THEN 1 ELSE tab + 1, "tabs") /\ Switched
    BY <1>2 DEF TabBarKey
  <2> QED
    BY <2>1, NeighboursAreTabs, SwitchedChrome
<1>3. CASE key \in {"down", "enter", "up"}
  <2>1. nav' \in {"screen", "tabs"} /\ UNCHANGED <<tab, navBefore, tabBefore, help>> /\ Framed
    BY <1>3 DEF TabBarKey, ToTabBar, Focus
  <2> QED
    BY <2>1, FocusChrome
<1>4. CASE key = "?"
  <2>1. help' = TRUE /\ UNCHANGED <<tab, nav, navBefore, tabBefore>> /\ Framed
    BY <1>4 DEF TabBarKey
  <2> QED
    BY <2>1, HelpChrome
<1>5. CASE key \notin {"q", "esc", "ctrl+c", "left", "right", "down", "enter", "up", "?"}
  <2>1. Ignored
    BY <1>5 DEF TabBarKey
  <2> QED
    BY <2>1, UnchangedChrome DEF Ignored
<1> QED
  BY <1>1, <1>2, <1>3, <1>4, <1>5

LEMMA PickerKeyChrome ==
  ASSUME ChromeInv, UnderPicker
  PROVE  ChromeInv'
BY DEF UnderPicker, ChromeInv, ToolsAreLeft

(* What is left of a key, after the modals, the tools and the hotkeys. *)
LEMMA AfterHotkeysInvariant ==
  ASSUME ShellInv, nav # "tools", NEW key \in Keys, AfterHotkeys(key)
  PROVE  ShellInv'
<1>1. CASE nav # "screen"
  <2>1. TabBarKey(key)
    BY <1>1 DEF AfterHotkeys
  <2>2. UNCHANGED themes
    BY <2>1 DEF TabBarKey, ToTabBar, Quits, Switched, Framed, Ignored
  <2> QED
    BY <2>1, <2>2, TabBarKeyChrome, UnchangedThemes DEF ShellInv
<1>2. CASE nav = "screen" /\ picker /\ key \in PickerKeys
  <2>1. PickerKey(key)
    BY <1>2 DEF AfterHotkeys
  <2>2. UnderPicker
    BY <2>1 DEF PickerKey
  <2> QED
    BY <1>2, <2>1, <2>2, PickerKeyThemes, PickerKeyChrome DEF ShellInv
<1>3. CASE nav = "screen" /\ ~(picker /\ key \in PickerKeys)
  <2>1. \/ Quits
        \/ PageGets(key)
        \/ SwitchTab(IF tab = TabCount THEN 1 ELSE tab + 1, nav) /\ Switched
        \/ SwitchTab(IF tab = 1 THEN TabCount ELSE tab - 1, nav) /\ Switched
        \/ help' = TRUE /\ UNCHANGED <<tab, nav, navBefore, tabBefore>> /\ Framed
    BY <1>3 DEF AfterHotkeys
  <2>2. UNCHANGED themes
    BY <2>1 DEF Quits, PageGets, Switched, Framed
  <2>3. ChromeInv'
    BY <1>3, <2>1, QuitsChrome, PageGetsChrome, SwitchedChrome, NeighboursAreTabs, HelpChrome
       DEF ShellInv
  <2> QED
    BY <2>2, <2>3, UnchangedThemes DEF ShellInv
<1> QED
  BY <1>1, <1>2, <1>3

LEMMA PressInvariant ==
  ASSUME ShellInv, NEW key \in Keys, Press(key)
  PROVE  ShellInv'
<1>1. CASE help
  <2>1. HelpKey(key)
    BY <1>1 DEF Press
  <2>2. \/ Quits
        \/ help' \in BOOLEAN /\ UNCHANGED <<tab, nav, navBefore, tabBefore>> /\ Framed
    BY <2>1 DEF HelpKey
  <2>3. UNCHANGED themes
    BY <2>2 DEF Quits, Framed
  <2> QED
    BY <2>2, <2>3, QuitsChrome, HelpChrome, UnchangedThemes DEF ShellInv
<1>2. CASE ~help /\ HasModal /\ nav = "screen"
  <2>1. ModalKey(key)
    BY <1>2 DEF Press
  <2>2. \/ nav' = "tabs" /\ UNCHANGED <<tab, navBefore, tabBefore, help>> /\ Framed
        \/ PageGets(key)
    BY <2>1 DEF ModalKey, ToTabBar, Focus
  <2>3. UNCHANGED themes
    BY <2>2 DEF PageGets, Framed
  <2> QED
    BY <2>2, <2>3, FocusChrome, PageGetsChrome, UnchangedThemes DEF ShellInv
<1>3. CASE ~help /\ ~(HasModal /\ nav = "screen")
  <2>1. \/ OpenPicker
        \/ nav = "tools" /\ ToolsKey(key)
        \/ nav # "tools" /\ (DKey \/ DaemonKey(key) \/ AfterHotkeys(key))
    BY <1>3 DEF Press
  <2>2. CASE OpenPicker
    BY <2>2, OpenPickerChrome, OpenPickerThemes DEF ShellInv
  <2>3. CASE nav = "tools" /\ ToolsKey(key)
    <3>1. UNCHANGED themes
      BY <2>3 DEF ToolsKey, Quits, Framed, Switched, Ignored
    <3> QED
      BY <2>3, <3>1, ToolsKeyChrome, UnchangedThemes DEF ShellInv
  <2>4. CASE nav # "tools" /\ (DKey \/ DaemonKey(key))
    <3>1. UNCHANGED themes
      BY <2>4 DEF DKey, PageGets, Framed, DaemonKey
    <3> QED
      BY <2>4, <3>1, DKeyChrome, DaemonKeyChrome, UnchangedThemes DEF ShellInv
  <2>5. CASE nav # "tools" /\ AfterHotkeys(key)
    BY <2>5, AfterHotkeysInvariant
  <2> QED
    BY <2>1, <2>2, <2>3, <2>4, <2>5
<1> QED
  BY <1>1, <1>2, <1>3

-----------------------------------------------------------------------------
(* The mouse, and messages that come back. *)

LEMMA ClickTabInvariant ==
  ASSUME ShellInv, NEW t \in 1 .. TabCount, ClickTab(t)
  PROVE  ShellInv'
<1>1. ThemeInv'
  BY CancelThemes, UnchangedThemes DEF ClickTab, ShellInv
<1>2. SwitchTab(t, "tabs") /\ UNCHANGED <<navBefore, tabBefore, help, quit, nudge>>
  BY DEF ClickTab
<1>3. tab' = t /\ nav' = "tabs" /\ view' \in [1 .. TabCount -> Views]
  BY <1>2, SwitchTabChrome, "tabs" \in Places DEF ShellInv, Places
<1>4. ChromeInv'
  BY <1>2, <1>3 DEF ShellInv, ChromeInv, ToolsAreLeft
<1> QED
  BY <1>1, <1>4 DEF ShellInv

(* A click on a tool from the tools keeps the way back that is there. *)
LEMMA ClickToolInvariant ==
  ASSUME ShellInv, ClickTool
  PROVE  ShellInv'
<1>1. ThemeInv'
  BY CancelThemes, UnchangedThemes DEF ClickTool, ShellInv
<1>2. view' \in [1 .. TabCount -> Views]
  BY PromptChrome DEF ClickTool, ShellInv, ChromeInv
<1>3. tab' = AgentTab /\ UNCHANGED <<help, quit, nudge>>
  BY DEF ClickTool
<1>4. \/ nav' \in {"screen", "tabs"} /\ UNCHANGED <<navBefore, tabBefore>>
      \/ /\ nav' = "tools"
         /\ IF nav = "tools" THEN UNCHANGED <<navBefore, tabBefore>>
            ELSE navBefore' = nav /\ tabBefore' = tab
  BY DEF ClickTool, Focus, KeepsWayBack
<1>5. ChromeInv'
  BY <1>2, <1>3, <1>4, TabsAreTwo DEF ShellInv, ChromeInv, ToolsAreLeft
<1> QED
  BY <1>1, <1>5 DEF ShellInv

LEMMA ClickPickerInvariant ==
  ASSUME ShellInv, ClickPicker
  PROVE  ShellInv'
<1>1. picker /\ UnderPicker /\ ((\E i \in 1 .. Order : Preview(i)) \/ Save \/ Cancel)
  BY DEF ClickPicker
<1>2. ThemeInv'
  BY <1>1, RowsAreThemes, PreviewThemes, SaveThemes, CancelThemes DEF ShellInv
<1> QED
  BY <1>1, <1>2, PickerKeyChrome DEF ShellInv

LEMMA ClickElsewhereInvariant ==
  ASSUME ShellInv, ClickHelp \/ ClickTheme \/ ClickPage
  PROVE  ShellInv'
<1>1. CASE ClickHelp
  <2>1. ChromeInv'
    BY <1>1 DEF ClickHelp, ShellInv, ChromeInv, ToolsAreLeft
  <2> QED
    BY <1>1, <2>1, UnchangedThemes DEF ClickHelp, ShellInv
<1>2. CASE ClickTheme
  BY <1>2, OpenPickerChrome, OpenPickerThemes DEF ClickTheme, ShellInv
<1>3. CASE ClickPage
  <2>1. PICK v \in ViewsOf(tab) : view' = [view EXCEPT ![tab] = v]
    BY <1>3 DEF ClickPage
  <2>2. ChromeInv'
    BY <1>3, <2>1, ViewsAreViews DEF ClickPage, Focus, ShellInv, ChromeInv, ToolsAreLeft
  <2> QED
    BY <1>3, <2>2, UnchangedThemes DEF ClickPage, ShellInv
<1> QED
  BY <1>1, <1>2, <1>3

LEMMA MessagesInvariant ==
  ASSUME ShellInv, NavToTabBar \/ PageResult
  PROVE  ShellInv'
<1>1. UNCHANGED themes
  BY DEF NavToTabBar, PageResult
<1>2. CASE NavToTabBar
  BY <1>1, <1>2, UnchangedThemes DEF NavToTabBar, Focus, ShellInv, ChromeInv, ToolsAreLeft
<1>3. CASE PageResult
  <2>1. PICK t \in 1 .. TabCount : \E v \in ViewsOf(t) : view' = [view EXCEPT ![t] = v]
    BY <1>3 DEF PageResult
  <2>2. nudge' \in BOOLEAN /\ quit' \in BOOLEAN
        /\ UNCHANGED <<tab, nav, navBefore, tabBefore, help>>
    BY <1>3 DEF PageResult, chrome, ShellInv, ChromeInv
  <2> QED
    BY <1>1, <2>1, <2>2, PageChrome, ViewsAreViews, UnchangedThemes DEF ShellInv
<1> QED
  BY <1>2, <1>3

LEMMA ShellNext == ShellInv /\ [Next]_vars => ShellInv'
<1> SUFFICES ASSUME ShellInv, [Next]_vars PROVE ShellInv'
  OBVIOUS
<1>1. CASE UNCHANGED vars
  BY <1>1, UnchangedChrome, UnchangedThemes DEF vars, ShellInv
<1>2. ASSUME NEW g \in timers, ThemeMessageClear(g)
      PROVE  ShellInv'
  BY <1>2, ClearThemes, UnchangedChrome DEF ThemeMessageClear, ShellInv
<1> QED
  BY <1>1, <1>2, PressInvariant, ClickElsewhereInvariant, ClickTabInvariant,
     ClickToolInvariant, ClickPickerInvariant, MessagesInvariant DEF Next

(* The steps of the tabs leave the frame alone. *)
LEMMA FrameStep == [TuiNext]_allVars => [Next]_vars
BY DEF TuiNext, allVars, OnlyShell, OnlyAgent, OnlyVault, OnlyCreate, OnlyEdit, OnlyExport

(* The inductive invariant of the frame: chrome and themes (skeleton.go, Update and
   handleMouseEvent). *)
THEOREM FrameInvariance == TuiSpec => []ShellInv
<1>1. TuiInit => ShellInv
  BY ShellInit DEF TuiInit
<1>2. ShellInv /\ [TuiNext]_allVars => ShellInv'
  BY FrameStep, ShellNext
<1> QED
  BY <1>1, <1>2, SafetyOfSpec, PTL

(* A theme that was only previewed goes when the picker is closed, for any number of
   presets (skeleton.go:43); no message stays in the footer for want of a timer
   (root.go:48-55); the header tools never remember themselves as the place to go back
   to (skeleton.go:354-391, :518-533). *)
THEOREM FrameStaysInOrder == TuiSpec => []FrameInOrder
<1>1. ShellInv => FrameInOrder
  BY DEF ShellInv, ThemeInv, ChromeInv, FrameInOrder
<1> QED
  BY <1>1, FrameInvariance, PTL

(* Every variable keeps its type. *)
THEOREM TypeCorrect == TuiSpec => []TypeOK
<1>1. ShellInv => TypeOK
  BY DEF ShellInv, ChromeInv, ThemeInv, TypeOK, Views
<1> QED
  BY <1>1, FrameInvariance, PTL

(* A letter typed at a modal or into a field is the page's, whatever the letter means
   elsewhere; the q that the frame takes from a modal moves the focus and does no more, and
   the letters after it are no hotkeys on a page that takes text (skeleton.go:630-718,
   :850-863). *)
THEOREM LettersStay == TuiSpec => LettersReachText
<1>1. ASSUME NEW key \in Letters, TypesOnPage, Press(key)
      PROVE  PageGets(key) \/ (key = "q" /\ HasModal /\ ToTabBar)
  <2>1. CASE HasModal
    <3>1. ModalKey(key)
      BY <1>1, <2>1 DEF Press, TypesOnPage
    <3> QED
      BY <2>1, <3>1 DEF ModalKey, Letters
  <2>2. CASE ~HasModal
    <3>1. AfterHotkeys(key)
      BY <1>1, <2>2 DEF Press, TypesOnPage, OpensPicker, TakesHotkeys, Letters
    <3> QED
      BY <1>1, <2>2, <3>1 DEF AfterHotkeys, TypesOnPage, Letters
  <2> QED
    BY <2>1, <2>2
<1>2. ASSUME NEW key \in Letters \ {"q"}, TypesOnBar, Press(key)
      PROVE  Ignored
  <2>1. AfterHotkeys(key)
    BY <1>2 DEF Press, TypesOnBar, OpensPicker, TakesHotkeys, Letters
  <2>2. TabBarKey(key)
    BY <1>2, <2>1 DEF AfterHotkeys, TypesOnBar
  <2> QED
    BY <1>2, <2>2 DEF TabBarKey, Letters
<1>3. [Next]_vars =>
        [/\ TypesOnPage => \A key \in Letters :
              Press(key) => PageGets(key) \/ (key = "q" /\ HasModal /\ ToTabBar)
         /\ TypesOnBar => \A key \in Letters \ {"q"} : Press(key) => Ignored]_vars
  BY <1>1, <1>2
<1> QED
  BY <1>3, FrameStep, SafetyOfSpec, PTL DEF LettersReachText

-----------------------------------------------------------------------------
(* TuiAgent. *)

IsAgent(a) ==
  /\ DOMAIN a = {"up", "backend", "locked", "loaded", "stored"}
  /\ a.backend \in Agent!Backends

(* What the tab has heard, or is about to hear, is the backend there is; and so is what
   the commands on their way were meant for. *)
HeardRight ==
  /\ mode \in {"", agent.backend}
  /\ \A m \in msgs : m.mode \in {"", agent.backend}
  /\ "lockVault" \in cmds => agent.backend = "vault"
  /\ "remove" \in cmds => agent.backend = "keys"

AgentInv ==
  /\ IsAgent(agent) /\ gen \in Nat
  /\ Agent!PollAlive
  /\ ~misled => HeardRight
  /\ Agent!ActsOnItsBackend

LEMMA AgentInit == Agent!Init => AgentInv
<1> SUFFICES ASSUME Agent!Init PROVE AgentInv
  OBVIOUS
<1>1. IsAgent(agent) /\ gen \in Nat
  <2>1. PICK up \in BOOLEAN, l \in BOOLEAN, b \in Agent!Backends :
          agent = [up |-> up, backend |-> b, locked |-> l, loaded |-> TRUE, stored |-> TRUE]
    BY Zenon DEF Agent!Init
  <2>2. DOMAIN agent = {"up", "backend", "locked", "loaded", "stored"} /\ agent.backend = b
    BY <2>1
  <2> QED
    BY <2>2 DEF Agent!Init, IsAgent
<1>2. Agent!PollAlive /\ Agent!ActsOnItsBackend
  BY DEF Agent!Init, Agent!PollAlive, Agent!ActsOnItsBackend
<1>3. HeardRight
  BY DEF Agent!Init, HeardRight, Agent!Refresh
<1> QED
  BY <1>1, <1>2, <1>3 DEF AgentInv

(* What the user asks for is meant for the backend the tab believes in; with none to
   believe in, a removal counts as misled. *)
LEMMA AgentPress ==
  ASSUME AgentInv, Agent!PressButton \/ Agent!StartLock \/ Agent!RemoveSelectedKey
  PROVE  AgentInv'
<1>1. PICK n \in Agent!Commands : Agent!Press(n)
  BY DEF Agent!PressButton, Agent!StartLock, Agent!RemoveSelectedKey, Agent!LocksBy, Agent!RemovesBy, Agent!Commands
<1>2. misled => misled'
  BY DEF Agent!PressButton, Agent!StartLock, Agent!RemoveSelectedKey, Agent!Misled
<1>3. IsAgent(agent)' /\ gen' \in Nat
  BY <1>1 DEF Agent!Press, AgentInv, IsAgent, Agent!view
<1>4. Agent!PollAlive' /\ Agent!ActsOnItsBackend'
  BY <1>1, <1>2 DEF Agent!Press, Agent!view, AgentInv, Agent!PollAlive, Agent!ActsOnItsBackend
<1>5. ASSUME ~misled'
      PROVE  HeardRight'
  <2>1. HeardRight
    BY <1>2, <1>5 DEF AgentInv
  <2>2. CASE Agent!PressButton
    BY <2>1, <2>2 DEF Agent!PressButton, Agent!Press, Agent!view, HeardRight
  <2>3. CASE Agent!StartLock
    <3>1. Agent!LocksBy = "lockVault" => agent.backend = "vault"
      BY <2>1 DEF Agent!LocksBy, HeardRight
    <3>2. Agent!LocksBy # "remove"
      BY DEF Agent!LocksBy
    <3> QED
      BY <2>1, <2>3, <3>1, <3>2 DEF Agent!StartLock, Agent!Press, Agent!view, HeardRight
  <2>4. CASE Agent!RemoveSelectedKey
    <3>1. mode # ""
      BY <1>5, <2>4 DEF Agent!RemoveSelectedKey, Agent!Misled
    <3>2. Agent!RemovesBy = "remove" => agent.backend = "keys"
      BY <2>1, <3>1 DEF Agent!RemovesBy, HeardRight, AgentInv, IsAgent, Agent!Backends
    <3>3. Agent!RemovesBy # "lockVault"
      BY DEF Agent!RemovesBy
    <3> QED
      BY <2>1, <2>4, <3>2, <3>3 DEF Agent!RemoveSelectedKey, Agent!Press, Agent!view, HeardRight
  <2> QED
    BY <2>2, <2>3, <2>4
<1> QED
  BY <1>3, <1>4, <1>5 DEF AgentInv

-----------------------------------------------------------------------------
(* Commands run. *)

LEMMA OutcomesAreAgents ==
  ASSUME AgentInv, NEW n \in Agent!Acts, NEW o \in Agent!Outcomes(n)
  PROVE  IsAgent(o.agent)
<1>1. IsAgent(agent)
  BY DEF AgentInv
<1>2. (\A a \in Agent!Started : IsAgent(a)) /\ IsAgent(Agent!Down)
  BY <1>1 DEF Agent!Started, Agent!Down, IsAgent, Agent!Backends
<1>2a. IsAgent(Agent!WithoutKey) /\ IsAgent(Agent!WithKey)
  BY <1>1 DEF Agent!WithoutKey, Agent!WithKey, IsAgent
<1>3. CASE n = "start"
  BY <1>1, <1>2, <1>3 DEF Agent!Outcomes
<1>4. CASE n = "stop"
  BY <1>1, <1>2, <1>4 DEF Agent!Outcomes
<1>5. CASE n = "reload"
  BY <1>1, <1>2, <1>5 DEF Agent!Outcomes
<1>6. CASE n = "remove"
  BY <1>2a, <1>1, <1>6 DEF Agent!Outcomes
<1>7. CASE n = "unload"
  BY <1>1, <1>7 DEF Agent!Outcomes, IsAgent
<1>8. CASE n = "add"
  BY <1>2a, <1>1, <1>8 DEF Agent!Outcomes
<1>9. CASE n \in {"lock", "lockVault"}
  BY <1>1, <1>9 DEF Agent!Outcomes, IsAgent
<1>10. CASE n = "unlock"
  BY <1>1, <1>10 DEF Agent!Outcomes, IsAgent
<1> QED
  BY <1>3, <1>4, <1>5, <1>6, <1>7, <1>8, <1>9, <1>10 DEF Agent!Acts, Agent!Commands, Agent!Refresh

(* A removal that reaches a vault, or a lock without a passphrase that reaches a keyring,
   was asked for by a tab that was misled. *)
LEMMA MistakesAreMisled ==
  ASSUME AgentInv, NEW n \in cmds \cap Agent!Acts, NEW o \in Agent!Outcomes(n), agent' = o.agent,
         Agent!Mistaken(n)
  PROVE  misled
<1>1. CASE n = "lockVault"
  BY <1>1 DEF Agent!Mistaken, AgentInv, HeardRight
<1>2. CASE n = "remove"
  <2>1. agent.backend # "vault" => agent'.stored = agent.stored
    <3>1. o.agent \in {agent, Agent!WithoutKey}
      BY <1>2 DEF Agent!Outcomes
    <3>2. agent.backend # "vault" => Agent!WithoutKey.stored = agent.stored
      BY DEF Agent!WithoutKey, AgentInv, IsAgent
    <3> QED
      BY <3>1, <3>2
  <2> QED
    BY <1>2, <2>1 DEF Agent!Mistaken, AgentInv, HeardRight
<1> QED
  BY <1>1, <1>2 DEF Agent!Mistaken

(* A result says nothing of the backend. *)
LEMMA ResultsHaveNoMode == ASSUME NEW is, NEW ok PROVE Agent!Result(is, ok).mode = ""
BY DEF Agent!Result, Agent!Msg

LEMMA AgentRunAct ==
  ASSUME AgentInv, NEW n, Agent!RunAct(n)
  PROVE  AgentInv'
<1>1. n \in cmds \cap Agent!Acts
  BY DEF Agent!RunAct
<1>2. PICK o \in Agent!Outcomes(n) : agent' = o.agent /\ msgs' = msgs \cup Agent!Answer(n, o.ok)
  BY DEF Agent!RunAct
<1>3. IsAgent(agent)'
  BY <1>1, <1>2, OutcomesAreAgents DEF IsAgent
<1>4. gen' \in Nat /\ Agent!PollAlive'
  BY DEF Agent!RunAct, Agent!view, AgentInv, Agent!PollAlive
<1>5. (misled => misled') /\ (~misled' => agent'.backend = agent.backend)
  BY DEF Agent!RunAct, Agent!Misled, Agent!IsNews
<1>6. Agent!ActsOnItsBackend'
  <2>1. mistaken' = (mistaken \/ Agent!Mistaken(n))
    BY DEF Agent!RunAct
  <2>2. Agent!Mistaken(n) => misled
    BY <1>1, <1>2, MistakesAreMisled
  <2> QED
    BY <1>5, <2>1, <2>2 DEF AgentInv, Agent!ActsOnItsBackend
<1>7. ~misled' => HeardRight'
  <2> SUFFICES ASSUME ~misled' PROVE HeardRight'
    OBVIOUS
  <2>1. HeardRight /\ agent'.backend = agent.backend
    BY <1>5 DEF AgentInv
  <2>2. \A m \in Agent!Answer(n, o.ok) : m.mode = ""
    BY ResultsHaveNoMode DEF Agent!Answer
  <2>3. cmds' \subseteq cmds \cup Agent!Refresh
    BY DEF Agent!RunAct, Agent!StatusAsks
  <2>4. mode' = mode
    BY DEF Agent!RunAct, Agent!view
  <2> QED
    BY <1>2, <2>1, <2>2, <2>3, <2>4 DEF HeardRight, Agent!Refresh
<1> QED
  BY <1>3, <1>4, <1>6, <1>7 DEF AgentInv

(* What changes neither the agent nor the chain, and only brings news that are true. *)
LEMMA AgentNews ==
  ASSUME AgentInv, UNCHANGED <<agent, gen, running, misled, mistaken>>, aTimers \subseteq aTimers',
         cmds' \subseteq cmds \cup Agent!Refresh \cup {"footer"},
         HeardRight => mode' \in {"", agent.backend},
         HeardRight => \A m \in msgs' : m.mode \in {"", agent.backend}
  PROVE  AgentInv'
<1>1. IsAgent(agent)' /\ gen' \in Nat /\ Agent!PollAlive' /\ Agent!ActsOnItsBackend'
  BY DEF AgentInv, IsAgent, Agent!PollAlive, Agent!ActsOnItsBackend
<1>2. ~misled' => HeardRight'
  BY DEF AgentInv, HeardRight, Agent!Refresh
<1> QED
  BY <1>1, <1>2 DEF AgentInv

LEMMA AgentRunCheck ==
  ASSUME AgentInv, (\E n \in Agent!Commands : Agent!RunCheck(n)) \/ Agent!ReadState
  PROVE  AgentInv'
<1>1. UNCHANGED <<agent, gen, running, mode, misled, mistaken, aTimers>> /\ cmds' \subseteq cmds
  BY DEF Agent!RunCheck, Agent!ReadState, Agent!view
<1>2. \A m \in msgs' : m \in msgs \/ m.mode \in {"", agent.backend}
  <2>1. Agent!VaultStatus.mode \in {"", agent.backend}
    BY DEF Agent!VaultStatus, Agent!Msg
  <2>2. Agent!Result("daemon", agent.up).mode = "" /\ Agent!Msg("vaultState", known, "", locked).mode = ""
    BY DEF Agent!Result, Agent!Msg
  <2>3. \/ msgs' = msgs \cup {Agent!Result("daemon", agent.up)}
        \/ msgs' = msgs \cup {Agent!VaultStatus}
        \/ msgs' = msgs \cup {Agent!Msg("vaultState", known, "", locked)}
    BY DEF Agent!RunCheck, Agent!ReadState
  <2>4. CASE msgs' = msgs \cup {Agent!Result("daemon", agent.up)}
    BY <2>2, <2>4
  <2>5. CASE msgs' = msgs \cup {Agent!VaultStatus}
    BY <2>1, <2>5
  <2>6. CASE msgs' = msgs \cup {Agent!Msg("vaultState", known, "", locked)}
    BY <2>2, <2>6
  <2> QED
    BY <2>3, <2>4, <2>5, <2>6
<1> QED
  BY <1>1, <1>2, AgentNews DEF HeardRight

-----------------------------------------------------------------------------
(* Messages and timers. *)

(* Only agentDaemonStateMsg starts a chain, and it starts that of the generation it
   begins. *)
LEMMA AgentHandle ==
  ASSUME AgentInv, NEW m \in msgs, Agent!Handle(m)
  PROVE  AgentInv'
<1>1. UNCHANGED <<agent, misled, mistaken>>
  BY DEF Agent!Handle, Agent!DaemonStateMsg, Agent!LockResultMsg, Agent!VaultStatusMsg, Agent!VaultStateMsg, Agent!Handles
<1>2. gen' \in Nat /\ Agent!PollAlive'
  <2>1. CASE Agent!DaemonStateMsg(m)
    BY <2>1 DEF Agent!DaemonStateMsg, Agent!NextChain, AgentInv, Agent!PollAlive
  <2>2. CASE Agent!LockResultMsg(m) \/ Agent!VaultStatusMsg(m) \/ Agent!VaultStateMsg(m)
    BY <2>2 DEF Agent!LockResultMsg, Agent!VaultStatusMsg, Agent!VaultStateMsg, Agent!view, AgentInv, Agent!PollAlive
  <2> QED
    BY <2>1, <2>2 DEF Agent!Handle
<1>3. HeardRight => HeardRight'
  <2> SUFFICES ASSUME HeardRight PROVE HeardRight'
    OBVIOUS
  <2>1. mode' \in {mode, m.mode}
    BY DEF Agent!Handle, Agent!DaemonStateMsg, Agent!LockResultMsg, Agent!VaultStatusMsg, Agent!VaultStateMsg, Agent!view
  <2>2. \A n \in msgs' : n \in msgs \/ n.mode = ""
    BY ResultsHaveNoMode DEF Agent!Handle, Agent!Posts
  <2>3. cmds' \subseteq cmds \cup {"state", "footer"}
    BY DEF Agent!Handle, Agent!DaemonStateMsg, Agent!LockResultMsg, Agent!VaultStatusMsg, Agent!VaultStateMsg, Agent!Handles
  <2> QED
    BY <1>1, <2>1, <2>2, <2>3 DEF HeardRight
<1> QED
  BY <1>1, <1>2, <1>3 DEF AgentInv, IsAgent, Agent!ActsOnItsBackend

(* A timer that is not renewed is not that of a daemon believed to run. *)
LEMMA AgentVaultPoll ==
  ASSUME AgentInv, NEW g \in aTimers, Agent!VaultPollMsg(g)
  PROVE  AgentInv'
<1>1. UNCHANGED <<agent, msgs, mode, gen, running, misled, mistaken>>
  BY DEF Agent!VaultPollMsg, Agent!view
<1>2. Agent!PollAlive'
  BY DEF Agent!VaultPollMsg, Agent!view, AgentInv, Agent!PollAlive
<1>3. cmds' \subseteq cmds \cup {"state"}
  BY DEF Agent!VaultPollMsg
<1>4. ~misled' => HeardRight'
  BY <1>1, <1>3 DEF AgentInv, HeardRight
<1> QED
  BY <1>1, <1>2, <1>4 DEF AgentInv, IsAgent, Agent!ActsOnItsBackend

(* What somebody else does keeps the backend, or is news. *)
LEMMA AgentElsewhere ==
  ASSUME AgentInv, Agent!Elsewhere
  PROVE  AgentInv'
<1>1. UNCHANGED <<msgs, cmds, mode, gen, running, aTimers, mistaken>>
  BY DEF Agent!Elsewhere, Agent!view
<1>2. IsAgent(agent)'
  BY DEF Agent!Elsewhere, Agent!Started, Agent!Down, AgentInv, IsAgent, Agent!Backends
<1>3. (misled => misled') /\ (~misled' => agent'.backend = agent.backend)
  BY DEF Agent!Elsewhere, Agent!Misled, Agent!IsNews
<1>4. ~misled' => HeardRight'
  BY <1>1, <1>3 DEF AgentInv, HeardRight
<1> QED
  BY <1>1, <1>2, <1>3, <1>4 DEF AgentInv, Agent!PollAlive, Agent!ActsOnItsBackend

LEMMA AgentNext == AgentInv /\ [Agent!Next]_agentVars => AgentInv'
<1> SUFFICES ASSUME AgentInv, [Agent!Next]_agentVars PROVE AgentInv'
  OBVIOUS
<1>1. CASE UNCHANGED agentVars
  BY <1>1 DEF agentVars, AgentInv, IsAgent, Agent!PollAlive, HeardRight, Agent!ActsOnItsBackend
<1> QED
  BY <1>1, AgentPress, AgentRunAct, AgentRunCheck, AgentHandle,
     AgentVaultPoll, AgentElsewhere DEF Agent!Next

(* The inductive invariant of the Agent tab: what it has heard of the agent, and its poll
   chain (agent.go, Update). *)
THEOREM AgentInvariance == TuiSpec => []AgentInv
<1>1. TuiInit => AgentInv
  BY AgentInit DEF TuiInit
<1>2. [TuiNext]_allVars => [Agent!Next]_agentVars
  BY DEF TuiNext, allVars, OnlyShell, OnlyAgent, OnlyVault, OnlyCreate, OnlyEdit, OnlyExport
<1> QED
  BY <1>1, <1>2, AgentNext, SafetyOfSpec, PTL

(* A tab that believes the daemon runs has the poll chain of its generation, for any
   number of results in any order (agent.go:196-215, :331-338). *)
THEOREM ChainStaysAlive == TuiSpec => []Agent!PollAlive
<1>1. AgentInv => Agent!PollAlive
  BY DEF AgentInv
<1> QED
  BY <1>1, AgentInvariance, PTL

(* What the tab asks of a kind of backend reaches that kind, unless the agent changed
   behind its back or had not answered yet (agent.go:569-593). *)
THEOREM RequestsMeetTheirBackend == TuiSpec => []Agent!ActsOnItsBackend
<1>1. AgentInv => Agent!ActsOnItsBackend
  BY DEF AgentInv
<1> QED
  BY <1>1, AgentInvariance, PTL

(* TuiAgent: the poll chain is alive, and nothing is deleted for good or locked without
   a passphrase by mistake (agent.go:196-215, :331-338, :569-593). *)
THEOREM BackendIsWatched == TuiSpec => []WatchesItsBackend
<1>1. AgentInv => WatchesItsBackend
  BY DEF AgentInv, WatchesItsBackend, Agent!WatchesItsBackend
<1> QED
  BY <1>1, AgentInvariance, PTL
=============================================================================

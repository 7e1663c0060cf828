-------------------------------- MODULE TuiShell --------------------------------
(***************************************************************************)
(* The frame of the terminal interface: internal/tui/skeleton.go with      *)
(* agent_chrome.go and root.go.  It owns the tab bar, the header tools     *)
(* (the daemon buttons), the help and the theme picker, and decides where  *)
(* each key and click goes.  Bubble Tea calls Update for one message at a  *)
(* time; messages the program sends to itself, timers and results come     *)
(* back in any order.                                                      *)
(*                                                                         *)
(* A page is what the frame can ask of it: whether it shows a modal and    *)
(* whether it takes text.  What a key or a result does inside the page is  *)
(* left open here (TuiAgent, TuiVault, TuiEdit.. have it), as are sizes    *)
(* and drawing.  "other" stands for Create, Edit, Export and Vault.  The   *)
(* presets are fewer than the rows of the picker, which so never scrolls,  *)
(* and the row it highlights is that of the theme that is on.              *)
(***************************************************************************)
EXTENDS Integers, Sequences

CONSTANTS Presets,        \* number of theme presets
          MaxGeneration   \* bound: theme messages shown in one behaviour

ASSUME BoundAssumption == Presets \in Nat \ {0} /\ MaxGeneration \in Nat

VARIABLES
  tab,         \* activeTab, from 1
  nav,         \* navFocus
  navBefore,   \* navFocusBeforeDaemon
  tabBefore,   \* activeTabBeforeDaemon
  view,        \* what HasModal and HasActiveTextInput say of each page
  nudge,       \* a NavToTabBarMsg is on its way
  help, quit,
  picker,
  theme, themeBefore,
  message, generation,
  timers,      \* generations a ThemeMessageClearMsg is due for
  chosen,      \* auxiliary: the theme the picker was first opened with, or that was saved
  reopened     \* auxiliary: the picker was opened while it was open

chrome == <<tab, nav, navBefore, tabBefore, help, quit>>
themes == <<picker, theme, themeBefore, message, generation, timers, chosen, reopened>>
vars == <<chrome, view, nudge, themes>>

Tabs == <<"agent", "other">>
TabCount == Len(Tabs)
AgentTab == 1

(* modal and prompt are modals; typing and prompt take text.  The passphrase prompt of
   the Agent page does not say that it takes text. *)
ViewsOf(t) ==
  IF t = AgentTab THEN {"plain", "modal"} ELSE {"plain", "modal", "typing", "prompt"}

IsModal(v) == v \in {"modal", "prompt"}
PageHasModal(t) == IsModal(view[t])
HasModal == PageHasModal(tab)
HasActiveTextInput == view[tab] \in {"typing", "prompt"}

Custom == Presets + 1
Themes == 1 .. Custom

(* themePickerOrder: the custom theme is listed only while it is on. *)
Order == IF theme = Custom THEN Custom ELSE Presets

Keys == {"q", "esc", "ctrl+c", "t", "?", "d", "s", "x", "L", "u", "left", "right", "up", "down",
         "enter", "tab", "shift+tab", "letter"}
ButtonKeys == {"s", "x"}   \* start, and stop or reload
PromptKeys == {"L", "u"}

TypeOK ==
  /\ tab \in 1 .. TabCount /\ tabBefore \in 1 .. TabCount
  /\ nav \in {"screen", "tabs", "tools"} /\ navBefore \in {"screen", "tabs", "tools"}
  /\ view \in [1 .. TabCount -> {"plain", "modal", "typing", "prompt"}]
  /\ nudge \in BOOLEAN /\ help \in BOOLEAN /\ quit \in BOOLEAN
  /\ picker \in BOOLEAN /\ reopened \in BOOLEAN
  /\ theme \in Themes /\ themeBefore \in Themes /\ chosen \in Themes
  /\ message \in 0 .. MaxGeneration /\ generation \in 0 .. MaxGeneration
  /\ timers \subseteq 0 .. MaxGeneration

Init ==
  /\ tab = AgentTab /\ nav = "tabs" /\ navBefore = "screen" /\ tabBefore = AgentTab
  /\ view = [t \in 1 .. TabCount |-> "plain"]
  /\ nudge = FALSE /\ help = FALSE /\ quit = FALSE
  /\ picker = FALSE
  /\ theme \in Themes /\ themeBefore = theme /\ chosen = theme
  /\ message = 0 /\ generation = 0 /\ timers = {}
  /\ reopened = FALSE

-----------------------------------------------------------------------------
Focus(where) == nav' = where

(* A page is told its size when it comes up; Edit with no key then opens its picker. *)
Landing(t) == IF t # AgentTab /\ view[t] = "plain" THEN {"plain", "modal"} ELSE {view[t]}

(* switchTab, and where the focus is if the page is not in a modal. *)
SwitchTab(t, otherwise) ==
  /\ tab' = t
  /\ \E v \in Landing(t) : view' = [view EXCEPT ![t] = v]
  /\ Focus(IF IsModal(view'[t]) THEN "tabs" ELSE otherwise)

(* A page may do anything with a key but leave its own view; "up" at its top asks for
   the tab bar. *)
PageGets(key) ==
  /\ \E v \in ViewsOf(tab) : view' = [view EXCEPT ![tab] = v]
  /\ nudge' \in IF key = "up" THEN {nudge, TRUE} ELSE {nudge}
  /\ quit' \in IF key \in {"q", "esc"} /\ view[tab] = "plain" THEN {FALSE, TRUE} ELSE {FALSE}
  /\ UNCHANGED <<tab, nav, navBefore, tabBefore, help, themes>>

Quits ==
  /\ quit' = TRUE
  /\ UNCHANGED <<tab, nav, navBefore, tabBefore, help, view, nudge, themes>>

Ignored == UNCHANGED <<chrome, view, nudge, themes>>

(* What a key does to the frame when it leaves pages and themes alone. *)
Framed == UNCHANGED <<quit, view, nudge, themes>>

(* A key that changes tabs. *)
Switched ==
  UNCHANGED <<navBefore, tabBefore, help, quit, nudge, themes>>

HelpKey(key) ==
  IF key = "ctrl+c" THEN Quits
  ELSE /\ help' = (key \notin {"q", "esc", "?"})
       /\ UNCHANGED <<tab, nav, navBefore, tabBefore>> /\ Framed

ToTabBar == Focus("tabs") /\ UNCHANGED <<tab, navBefore, tabBefore, help>> /\ Framed

(* The frame takes q and esc even from a modal that takes text. *)
ModalKey(key) == IF key \in {"q", "esc"} THEN ToTabBar ELSE PageGets(key)

(* By "t", or by a click on the footer, which does not look whether it is open. *)
OpenPicker ==
  /\ picker' = TRUE /\ themeBefore' = theme
  /\ message' = 0
  /\ reopened' = picker
  /\ Focus("screen")
  /\ UNCHANGED <<tab, navBefore, tabBefore, help, quit, view, nudge, theme, generation, timers,
                 chosen>>

(* handleActivateHeaderTools without EnsureOnly; a modal of the Agent page comes first. *)
ActivateTools ==
  /\ navBefore' = nav /\ tabBefore' = tab
  /\ tab' = AgentTab
  /\ Focus(IF PageHasModal(AgentTab) THEN "screen" ELSE "tools")
  /\ UNCHANGED help

(* handleExitHeaderTools *)
ExitTools == IF tabBefore = tab THEN Focus(navBefore) /\ UNCHANGED <<tab, view>>
             ELSE SwitchTab(tabBefore, navBefore)

(* startPassphrase puts up the prompt; startLock does so only for a keyring. *)
PromptOpens(key) ==
  \E v \in IF key = "u" THEN {"modal"} ELSE {"modal", view[AgentTab]} :
     view' = [view EXCEPT ![AgentTab] = v]

ToolsKey(key) ==
  CASE key = "ctrl+c" -> Quits
    [] key = "?" -> help' = TRUE /\ UNCHANGED <<tab, nav, navBefore, tabBefore>> /\ Framed
    [] key \in {"d", "esc"} -> ExitTools /\ Switched
    [] key \in ButtonKeys \cup PromptKeys \cup {"enter"} ->
         /\ IF key \in ButtonKeys THEN UNCHANGED view ELSE PromptOpens(key)
         /\ Focus(IF IsModal(view'[AgentTab]) THEN "screen" ELSE nav)
         /\ UNCHANGED <<tab, navBefore, tabBefore, help, quit, nudge, themes>>
    [] OTHER -> Ignored

(* HandleGlobalKey with ActivateHeaderToolsMsg{EnsureOnly}: the Agent page comes up. *)
DaemonKey(key) ==
  /\ IF key \in ButtonKeys
     THEN UNCHANGED <<view, tab>> /\ Focus(IF PageHasModal(AgentTab) THEN "screen" ELSE nav)
     ELSE /\ PromptOpens(key)
          /\ tab' = AgentTab
          /\ Focus(IF key = "u" \/ IsModal(view'[AgentTab]) THEN "screen" ELSE nav)
  /\ UNCHANGED <<navBefore, tabBefore, help, quit, nudge, themes>>

(* The table of the page that is looked at may claim "d" for its row; otherwise it goes
   to the header tools. *)
DKey ==
  \/ nav = "screen" /\ view[tab] = "plain" /\ PageGets("d")
  \/ ActivateTools /\ Framed

TabBarKey(key) ==
  CASE key \in {"q", "esc", "ctrl+c"} -> Quits
    [] key = "left" ->
         SwitchTab(IF tab = 1 THEN TabCount ELSE tab - 1, "tabs") /\ Switched
    [] key = "right" ->
         SwitchTab(IF tab = TabCount THEN 1 ELSE tab + 1, "tabs") /\ Switched
    [] key \in {"down", "enter"} ->
         Focus("screen") /\ UNCHANGED <<tab, navBefore, tabBefore, help>> /\ Framed
    [] key = "up" -> ToTabBar
    [] key = "?" -> help' = TRUE /\ UNCHANGED <<tab, nav, navBefore, tabBefore>> /\ Framed
    [] OTHER -> Ignored

-----------------------------------------------------------------------------
(* The theme picker. *)

(* Mutation of Announced: the timer is started before the generation is counted up. *)
BugAnnounced ==
  /\ generation < MaxGeneration
  /\ generation' = generation + 1 /\ message' = generation'
  /\ timers' = timers \cup {generation}

(* A message, and the timer that will clear it. *)
Announced ==
  /\ generation < MaxGeneration
  /\ generation' = generation + 1 /\ message' = generation'
  /\ timers' = timers \cup {generation'}

UnderPicker == UNCHANGED <<tab, nav, navBefore, tabBefore, help, quit, view, nudge>>

Preview(i) ==
  /\ theme' = i
  /\ Announced
  /\ UNCHANGED <<picker, themeBefore, chosen, reopened>>

(* Mutation of Restored: the picker is closed, and the preview stays. *)
BugRestored == theme

Restored == themeBefore

(* themeBefore is not looked at again before the picker is opened. *)
Close ==
  /\ picker' = FALSE /\ themeBefore' = theme' /\ reopened' = FALSE

Cancel ==
  /\ theme' = Restored /\ Close
  /\ chosen' = IF reopened THEN theme' ELSE chosen
  /\ UNCHANGED <<message, generation, timers>>

(* The configuration is written, cannot be written, or there is none.  Whatever comes of
   it, the theme stays for this session. *)
Save ==
  /\ UNCHANGED theme /\ Close /\ chosen' = theme
  /\ \/ Announced
     \/ timers' = timers \cup {generation} /\ UNCHANGED <<message, generation>>

PickerKeys == {"esc", "q", "enter", "s", "up", "down"}

PickerKey(key) ==
  /\ CASE key \in {"esc", "q"} -> Cancel
       [] key \in {"enter", "s"} -> Save
       [] key = "up" -> IF theme > 1 THEN Preview(theme - 1) ELSE UNCHANGED themes
       [] key = "down" -> IF theme < Order THEN Preview(theme + 1) ELSE UNCHANGED themes
  /\ UnderPicker

-----------------------------------------------------------------------------
(* Update, for a key. *)

(* Mutation of TakesHotkeys: a text field does not keep its letters. *)
BugTakesHotkeys == ~picker

TakesHotkeys == ~picker /\ ~HasActiveTextInput

AfterHotkeys(key) ==
  CASE nav # "screen" -> TabBarKey(key)
    [] nav = "screen" /\ picker /\ key \in PickerKeys -> PickerKey(key)
    [] OTHER ->
         CASE HasActiveTextInput -> IF key \in {"ctrl+c", "esc"} THEN Quits ELSE PageGets(key)
           [] ~HasActiveTextInput /\ key = "ctrl+c" -> Quits
           [] ~HasActiveTextInput /\ key = "tab" ->
                SwitchTab(IF tab = TabCount THEN 1 ELSE tab + 1, nav) /\ Switched
           [] ~HasActiveTextInput /\ key = "shift+tab" ->
                SwitchTab(IF tab = 1 THEN TabCount ELSE tab - 1, nav) /\ Switched
           [] ~HasActiveTextInput /\ key = "?" ->
                help' = TRUE /\ UNCHANGED <<tab, nav, navBefore, tabBefore>> /\ Framed
           [] OTHER -> PageGets(key)

OpensPicker(key) == key = "t" /\ ~picker /\ ~HasModal /\ ~HasActiveTextInput

Press(key) ==
  /\ ~quit
  /\ CASE help -> HelpKey(key)
       [] ~help /\ HasModal /\ nav = "screen" -> ModalKey(key)
       [] OTHER ->
            CASE OpensPicker(key) -> OpenPicker
              [] ~OpensPicker(key) /\ nav = "tools" -> ToolsKey(key)
              [] nav # "tools" /\ TakesHotkeys /\ key = "d" -> DKey
              [] nav # "tools" /\ TakesHotkeys /\ key \in ButtonKeys \cup PromptKeys -> DaemonKey(key)
              [] OTHER -> AfterHotkeys(key)

-----------------------------------------------------------------------------
(* handleMouseEvent. *)

Clicks == ~quit /\ ~help

ClickHelp ==
  /\ Clicks
  /\ help' = TRUE
  /\ UNCHANGED <<tab, nav, navBefore, tabBefore, quit, view, nudge, themes>>

ClickTheme == Clicks /\ ~HasModal /\ OpenPicker

ClickTab(t) ==
  /\ Clicks
  /\ IF picker THEN Cancel ELSE UNCHANGED themes
  /\ SwitchTab(t, "tabs")
  /\ UNCHANGED <<navBefore, tabBefore, help, quit, nudge>>

(* Mutation of KeepsWayBack: the way back is taken down again from the tools. *)
BugKeepsWayBack == FALSE

KeepsWayBack == nav = "tools"

(* A header tool, which also closes the picker. *)
ClickTool ==
  /\ Clicks
  /\ IF picker THEN Cancel ELSE UNCHANGED themes
  /\ \E key \in ButtonKeys \cup PromptKeys :
        IF key \in ButtonKeys THEN UNCHANGED view ELSE PromptOpens(key)
  /\ tab' = AgentTab
  /\ IF IsModal(view'[AgentTab])
     THEN /\ Focus(IF tab = AgentTab THEN "screen" ELSE "tabs")
          /\ UNCHANGED <<navBefore, tabBefore>>
     ELSE /\ Focus("tools")
          /\ IF KeepsWayBack THEN UNCHANGED <<navBefore, tabBefore>>
             ELSE navBefore' = nav /\ tabBefore' = tab
  /\ UNCHANGED <<help, quit, nudge>>

ClickPicker ==
  /\ Clicks /\ picker
  /\ (\E i \in 1 .. Order : Preview(i)) \/ Save \/ Cancel
  /\ UnderPicker

(* Anywhere else: the page gets the click, and the focus unless it shows a modal. *)
ClickPage ==
  /\ Clicks /\ ~picker
  /\ IF HasModal THEN UNCHANGED nav ELSE Focus("screen")
  /\ \E v \in ViewsOf(tab) : view' = [view EXCEPT ![tab] = v]
  /\ UNCHANGED <<tab, navBefore, tabBefore, help, quit, nudge, themes>>

-----------------------------------------------------------------------------
(* Messages that come back. *)

NavToTabBar ==
  /\ ~quit /\ nudge
  /\ nudge' = FALSE /\ Focus("tabs")
  /\ UNCHANGED <<tab, navBefore, tabBefore, help, quit, view, themes>>

ThemeMessageClear(g) ==
  /\ ~quit /\ g \in timers
  /\ timers' = timers \ {g}
  /\ message' = IF g = generation THEN 0 ELSE message
  /\ UNCHANGED <<chrome, view, nudge, picker, theme, themeBefore, generation, chosen, reopened>>

(* The result of a command changes what a page shows, looked at or not. *)
PageResult ==
  /\ ~quit
  /\ \E t \in 1 .. TabCount : \E v \in ViewsOf(t) : view' = [view EXCEPT ![t] = v]
  /\ nudge' \in {nudge, TRUE}
  /\ UNCHANGED <<chrome, themes>>

Next ==
  \/ \E key \in Keys : Press(key)
  \/ ClickHelp \/ ClickTheme \/ (\E t \in 1 .. TabCount : ClickTab(t)) \/ ClickTool
  \/ ClickPicker \/ ClickPage
  \/ NavToTabBar \/ (\E g \in timers : ThemeMessageClear(g)) \/ PageResult

Spec == Init /\ [][Next]_vars

-----------------------------------------------------------------------------

(* When the picker is closed, whichever way, the theme is the one that was on before it
   was opened, or was saved (skeleton.go:43, "restored on Esc so we don't save").  It is
   not so once the footer was clicked while the picker was open: the preview is then
   taken for the theme to restore. *)
PickerCancelRestores == ~picker => theme = chosen

(* A message in the footer has a timer that clears it (root.go:48-55). *)
MessageWillClear == message # 0 => message = generation /\ generation \in timers

(* Esc always leaves the header tools: the place to go back to is never the tools
   themselves (skeleton.go:354-391, :518-533). *)
ToolsAreLeft == nav = "tools" => navBefore # "tools"

(* The frame keeps the theme, its messages and the way back from the header tools in
   order, whichever keys, clicks and timers came (skeleton.go, root.go). *)
FrameInOrder == PickerCancelRestores /\ MessageWillClear /\ ToolsAreLeft

Letters == {"t", "d", "s", "x", "L", "u", "q", "letter"}

TypesOnPage == ~help /\ nav = "screen" /\ (HasModal \/ (HasActiveTextInput /\ ~picker))
TypesOnBar == ~help /\ nav = "tabs" /\ HasActiveTextInput

(* What is typed at a modal, or into a field, goes to the page and to nothing else: it
   starts no daemon, locks nothing, opens no picker and does not quit.  Excepted is q: at a
   modal, also one that takes text, the frame takes it and moves the focus to the tab bar
   (skeleton.go:630-641).  What is typed on after that is not taken for a hotkey if the
   page says that it takes text (skeleton.go:643-718, :850-863); a second q quits, and the
   Agent page's passphrase prompt does not say so. *)
LettersReachText ==
  [][/\ TypesOnPage => \A key \in Letters :
          Press(key) => PageGets(key) \/ (key = "q" /\ HasModal /\ ToTabBar)
     /\ TypesOnBar => \A key \in Letters \ {"q"} : Press(key) => Ignored]_vars
=============================================================================

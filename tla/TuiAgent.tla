-------------------------------- MODULE TuiAgent --------------------------------
(***************************************************************************)
(* The Agent tab of the terminal interface (internal/tui/agent.go,         *)
(* agent_chrome.go): what it knows of the running                          *)
(* agent, and what it asks of it.  Update handles one message at a time,   *)
(* but each command runs in a goroutine of its own: it acts on the agent   *)
(* at some moment after the key, and its message is handled at some moment *)
(* after that, in any order with the others.                               *)
(*                                                                         *)
(* There is one key, in a vault or in a keyring.  Of two equal commands    *)
(* that have not run yet one is kept.  The table may or may not show the   *)
(* key, whatever listings are on their way, and the status that ends most  *)
(* commands is handled at once: it only asks for more commands.            *)
(***************************************************************************)
EXTENDS Integers

CONSTANTS MaxPresses,  \* bound: things the user does in the tab
          MaxEvents    \* bound: things somebody else does to the agent

VARIABLES
  agent,     \* the agent: up, its backend, locked, the key loaded, the key in the vault
  running, mode, locked, known,   \* daemonRunning, vaultMode, vaultLocked, vaultKnown
  gen,       \* vaultPollGen
  footer,    \* what Skeleton knows of the vault: vaultLocked, vaultKnown
  cmds,      \* commands that have not run yet
  msgs,      \* messages that have not been handled yet
  timers,    \* generations a vaultPollMsg is due for
  presses, events,
  misled,    \* auxiliary: the agent changed, or had not been heard of, when the user acted
  mistaken   \* auxiliary: a request meant for the other kind of backend took effect

view == <<running, mode, locked, known, gen>>
vars == <<agent, view, footer, cmds, msgs, timers, presses, events, misled, mistaken>>

Backends == {"vault", "keys"}
Lists == agent.up /\ ~agent.locked /\ agent.loaded

Refresh == {"daemon", "state"}
Commands ==
  Refresh \cup {"start", "stop", "reload", "remove", "unload", "add", "lock", "lockVault",
                "unlock", "footer"}

Msg(is, ok, m, l) == [is |-> is, ok |-> ok, mode |-> m, locked |-> l]
Result(is, ok) == Msg(is, ok, "", FALSE)
Messages ==
  {"daemon", "vault", "lock", "unlock", "vaultState"}

(* The interface is started beside an agent that is up or not. *)
Init ==
  /\ \E up, l \in BOOLEAN, b \in Backends :
       agent = [up |-> up, backend |-> b, locked |-> l, loaded |-> TRUE, stored |-> TRUE]
  /\ running = FALSE /\ mode = "" /\ locked = FALSE /\ known = FALSE /\ gen = 0
  /\ footer = [locked |-> FALSE, known |-> FALSE]
  /\ cmds = Refresh /\ msgs = {} /\ timers = {}
  /\ presses = 0 /\ events = 0
  /\ misled = FALSE /\ mistaken = FALSE

-----------------------------------------------------------------------------
(* What the user does.  Prompts, the comment overlay and the file picker are not shown:
   the command of one that is opened comes when it is answered, in Press. *)

Press(name) ==
  /\ presses < MaxPresses
  /\ presses' = presses + 1
  /\ cmds' = cmds \cup {name}
  /\ UNCHANGED <<agent, view, footer, msgs, timers, events, mistaken>>

Misled(yes) == misled' = (misled \/ yes)

(* The buttons, the passphrase prompt for unlocking, a key file picked or found. *)
PressButton == (\E name \in {"start", "stop", "reload", "unlock", "add"} : Press(name)) /\ UNCHANGED misled

(* startLock: a keyring asks for a passphrase first. *)
LocksBy == IF mode = "vault" THEN "lockVault" ELSE "lock"

StartLock == Press(LocksBy) /\ UNCHANGED misled

(* Mutation of RemovesBy: the lock state is taken for the mode. *)
BugRemovesBy == IF known /\ locked THEN "unload" ELSE "remove"

RemovesBy == IF mode = "vault" THEN "unload" ELSE "remove"

(* removeSelectedKey *)
RemoveSelectedKey == Press(RemovesBy) /\ Misled(mode = "")

-----------------------------------------------------------------------------
(* A command runs. *)

(* What starts has the backend of the configuration, which may have been edited; a vault
   starts locked. *)
Started ==
  {[up |-> TRUE, backend |-> b, locked |-> b = "vault", loaded |-> b = "keys" \/ agent.stored,
    stored |-> agent.stored] : b \in Backends}

Down == [agent EXCEPT !.up = FALSE]

(* The key removed or added, from or to the vault too if there is one. *)
WithoutKey ==
  IF agent.backend = "vault" THEN [agent EXCEPT !.loaded = FALSE, !.stored = FALSE]
  ELSE [agent EXCEPT !.loaded = FALSE]

WithKey ==
  IF agent.backend = "vault" THEN [agent EXCEPT !.loaded = TRUE, !.stored = TRUE]
  ELSE [agent EXCEPT !.loaded = TRUE]

(* The agents and the answers a command can end with. *)
Outcomes(name) ==
  LET Same(ok) == [agent |-> agent, ok |-> ok]
      Fine(a) == [agent |-> a, ok |-> TRUE] IN
  CASE name = "start"  -> {Fine(a) : a \in IF agent.up THEN {agent} ELSE Started} \cup {Same(FALSE)}
    [] name = "stop"   -> {Same(FALSE)} \cup IF agent.up THEN {Fine(Down)} ELSE {}
    [] name = "reload" -> {Fine(a) : a \in Started} \cup {Same(FALSE), [agent |-> Down, ok |-> FALSE]}
    [] name = "remove" ->
         IF Lists THEN {Fine(WithoutKey)} ELSE {Same(FALSE)}
    [] name = "unload" ->
         IF agent.up /\ agent.backend = "vault" /\ ~agent.locked /\ agent.stored
         THEN {Fine([agent EXCEPT !.loaded = FALSE])} ELSE {Same(FALSE)}
    [] name = "add" ->
         IF agent.up /\ ~agent.locked THEN {Fine(WithKey)} ELSE {Same(FALSE)}
    [] name \in {"lock", "lockVault"} ->
         IF agent.up /\ ~agent.locked THEN {Fine([agent EXCEPT !.locked = TRUE])} ELSE {Same(FALSE)}
    [] name = "unlock" ->
         {Same(FALSE)} \cup IF agent.up /\ agent.locked
                            THEN {Fine([agent EXCEPT !.locked = FALSE])} ELSE {}

(* The message a command ends with; agentStatusMsg asks for a check and is gone. *)
Answer(name, ok) ==
  CASE name \in {"lock", "lockVault"} -> {Result("lock", ok)}
    [] name = "unlock"                -> {Result("unlock", ok)}
    [] OTHER                          -> {}

StatusAsks(name) == IF Answer(name, TRUE) = {} THEN Refresh ELSE {}

Acts == Commands \ (Refresh \cup {"footer"})

Mistaken(name) ==
  \/ name = "lockVault" /\ agent.backend = "keys" /\ agent'.locked # agent.locked
  \/ name = "remove" /\ agent'.stored # agent.stored

(* A restart, or another backend, is news the tab has not had. *)
IsNews == agent'.backend # agent.backend \/ agent'.up # agent.up

RunAct(name) ==
  /\ name \in cmds \cap Acts
  /\ \E o \in Outcomes(name) : agent' = o.agent /\ msgs' = msgs \cup Answer(name, o.ok)
  /\ cmds' = (cmds \ {name}) \cup StatusAsks(name)
  /\ mistaken' = (mistaken \/ Mistaken(name))
  /\ Misled(IsNews)
  /\ UNCHANGED <<view, footer, timers, presses, events>>

(* checkVaultState: no mode when the agent cannot be asked. *)
VaultStatus ==
  IF agent.up THEN Msg("vault", TRUE, agent.backend, agent.backend = "vault" /\ agent.locked)
  ELSE Msg("vault", FALSE, "", FALSE)

RunCheck(name) ==
  /\ name \in cmds \cap {"daemon", "state"}
  /\ cmds' = cmds \ {name}
  /\ msgs' = msgs \cup {IF name = "daemon" THEN Result("daemon", agent.up) ELSE VaultStatus}
  /\ UNCHANGED <<agent, view, footer, timers, presses, events, misled, mistaken>>

(* The closure that reports to the footer. *)
ReadState ==
  /\ "footer" \in cmds
  /\ cmds' = cmds \ {"footer"}
  /\ msgs' = msgs \cup {Msg("vaultState", known, "", locked)}
  /\ UNCHANGED <<agent, view, footer, timers, presses, events, misled, mistaken>>

-----------------------------------------------------------------------------
(* Update, for a message.  Skeleton hands all of them to this tab, whichever is active. *)

Handles(more) ==
  /\ cmds' = cmds \cup more
  /\ UNCHANGED <<agent, presses, events, misled, mistaken>>

(* Mutation of NextChain: the chain is started for the generation before. *)
BugNextChain == gen

NextChain == gen'

(* agentDaemonStateMsg *)
DaemonStateMsg(m) ==
  /\ m.is = "daemon"
  /\ running' = m.ok
  /\ gen' = gen + 1
  /\ IF m.ok
     THEN timers' = timers \cup {NextChain} /\ UNCHANGED <<locked, known>>
     ELSE timers' = timers /\ locked' = FALSE /\ known' = FALSE
  /\ Handles({})
  /\ UNCHANGED <<mode, footer>>

(* agentLockResultMsg and agentUnlockResultMsg *)
LockResultMsg(m) ==
  /\ m.is \in {"lock", "unlock"}
  /\ IF m.ok THEN locked' = FALSE /\ known' = FALSE ELSE UNCHANGED <<locked, known>>
  /\ Handles({"state"})
  /\ UNCHANGED <<running, mode, gen, footer, timers>>

(* Mutation of KnownFrom: an agent that cannot be reached leaves what was known. *)
BugKnownFrom(m) == m.ok \/ known

KnownFrom(m) == m.ok

(* vaultStatusMsg *)
VaultStatusMsg(m) ==
  /\ m.is = "vault"
  /\ mode' = m.mode /\ known' = KnownFrom(m) /\ locked' = m.locked
  /\ Handles({"footer"})
  /\ UNCHANGED <<running, gen, footer, timers>>

(* VaultStateMsg, which Skeleton takes for itself.  The closure read the fields of the
   screen one after the other while Update may have been changing them: the second one
   can be younger than the first. *)
VaultStateMsg(m) ==
  /\ m.is = "vaultState"
  /\ \E k \in {m.ok, known} : footer' = [locked |-> m.locked, known |-> k]
  /\ Handles({})
  /\ UNCHANGED <<view, timers>>

(* A daemon found stopped is reported to the footer at once. *)
Posts(m) == IF m = Result("daemon", FALSE) THEN {Result("vaultState", FALSE)} ELSE {}

Handle(m) ==
  /\ m \in msgs
  /\ msgs' = (msgs \ {m}) \cup Posts(m)
  /\ \/ DaemonStateMsg(m) \/ LockResultMsg(m)
     \/ VaultStatusMsg(m) \/ VaultStateMsg(m)

(* vaultPollMsg: the chain goes on while it is the current one. *)
VaultPollMsg(g) ==
  /\ g \in timers
  /\ IF g = gen /\ running
     THEN UNCHANGED timers /\ cmds' = cmds \cup {"state"}
     ELSE timers' = timers \ {g} /\ UNCHANGED cmds
  /\ UNCHANGED <<agent, view, footer, msgs, presses, events, misled, mistaken>>

-----------------------------------------------------------------------------
(* Somebody else starts, stops, locks or unlocks the agent. *)
Elsewhere ==
  /\ events < MaxEvents
  /\ events' = events + 1
  /\ \/ ~agent.up /\ agent' \in Started
     \/ agent.up /\ agent' = Down
     \/ agent.up /\ agent' = [agent EXCEPT !.locked = ~@]
  /\ Misled(IsNews)
  /\ UNCHANGED <<view, footer, cmds, msgs, timers, presses, mistaken>>

Next ==
  \/ PressButton \/ StartLock \/ RemoveSelectedKey \/ Elsewhere
  \/ \E name \in Commands : RunAct(name) \/ RunCheck(name)
  \/ ReadState
  \/ \E m \in msgs : Handle(m)
  \/ \E g \in timers : VaultPollMsg(g)

Spec == Init /\ [][Next]_vars

(* Bubble Tea runs every command, hands over every message, and timers go off.  Less is
   assumed: of the commands the user asked for, and of the messages of a kind, one or
   another. *)
HandleKind(kind) == \E m \in msgs : m.is = kind /\ Handle(m)

FairSpec ==
  /\ Spec
  /\ WF_vars(\E name \in Acts : RunAct(name))
  /\ \A name \in Refresh : WF_vars(RunCheck(name))
  /\ WF_vars(ReadState)
  /\ \A kind \in Messages : WF_vars(HandleKind(kind))
  /\ WF_vars(\E g \in timers : VaultPollMsg(g))

-----------------------------------------------------------------------------

(* While the tab believes the daemon runs, the poll chain of the current generation is
   alive: no order of results leaves the lock state unwatched (agent.go:196-215,
   :331-338). *)
PollAlive == running => gen \in timers

(* As long as the tab believes the daemon runs, and once nobody does anything any more,
   the footer comes to show the agent as it is: answers that are late, or come in the
   wrong order, are corrected by the next poll (agent.go:314-338, :1035-1039). *)
FooterAgrees ==
  IF agent.up
  THEN footer = [known |-> TRUE, locked |-> agent.backend = "vault" /\ agent.locked]
  ELSE ~footer.known /\ ~footer.locked

FooterCatchesUp == <>[]running => <>[]FooterAgrees

(* Beside an agent that neither restarted nor changed its backend, and once it has
   answered, the tab takes no identity out of a vault for good and locks no keyring
   without a passphrase (docs/tui.md:254, agent.go:569-593). *)
ActsOnItsBackend == mistaken => misled

(* The tab goes on asking for the state of the backend and acts by what it heard
   (agent.go:196-215, :569-593). *)
WatchesItsBackend == PollAlive /\ ActsOnItsBackend
=============================================================================

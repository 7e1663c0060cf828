# sshush: a TLA+ model

sshush is an SSH agent with an encrypted vault, a command line and a terminal
interface around it, and an optional SSH server whose sign-in can use the vault's
passphrase. This directory holds TLA+ modules translated from its Go sources, the
TLC configurations that check them on small instances, and theorems about them
checked by TLAPS. Paths below are relative to `src/internal/` unless they start
with `cmd/` or `docs/`.

## 1. Inventory

| Component | State | Operations | Interacts with | What is hard |
|---|---|---|---|---|
| Vault agent (`vault/agent.go`, `store.go`, `op.go`) | identities in memory and in one JSON file, master key, session set, hidden set, `a.mu`, `s.mu` | List, Sign, Add, Remove, RemoveAll, Lock, Unlock, UnlockWithRecovery, sessionLoad, sessionUnload, setAutoload, setComment, purge of expired identities | one goroutine per client connection (`agent/server.go`); the file | several critical sections per call, a failed save after memory changed, restarts, lifetimes against the lock |
| Keys agent (`agent/kdf_locked_keyring.go`) | inner keyring, lock flag, verifier | the same protocol without a vault | connections; key files read at start | a second lock, a wrong passphrase, what a restart forgets |
| Operations over the wire (`agent/op.go`, `session.go`, `vault/payload.go`, `session_ops.go`) | none | encode and decode requests, statuses and payloads | client and agent | lengths taken from the payload, two layouts of one body |
| Password guard (`server/password_guard.go`, `auth_vault.go`) | failures per address, slots, clock | verify: lockout check, wait, check, count, pause | goroutine of each SSH connection | check and count apart, a queue, a client that leaves, two comparisons of one age |
| Daemon lifecycle (`sshushd/`, `agent/server.go`, `readypipe/`, `cmd/sshushd/main.go`, `cli/start.go`, `stop.go`, `reload.go`, `server.go`) | pidfiles, socket file, port, signals, readiness pipe | start, stop, reload; load, check, write pidfile, open, dial, remove, bind, ready, serve, clean up | processes that share nothing but paths | look-then-act on every path, crashes, waits that run out |
| SSH server (`server/server.go`, `shell.go`, `channels.go`, `connlog.go`) | serving flag, sessions, connection records | ListenAndServe, Close, sessions and their shells, the sign-in log | the agent's socket, the password guard, the shell's process group | a session ends in several ways at once; Close before Serve; callbacks that are not called in pairs |
| Host key (`server/hostkey.go`) | one file | EnsureHostKey | two servers starting together | exclusive creation, a reader that finds half a file |
| Vault operations (`vaultops/`) | a connection, what it believes of the backend | init, add, remove, lock, unlock, load, autoload | the agent's socket; commands and TUI | answers about a vault that other clients change |
| Comment editing (`editcomment/`, `cli/edit.go`) | none | edit a key file's comment, its .pub, then the agent and the vault | four places, updated in turn | failure between them; remove then add |
| Reconciliation (`cli/reload.go`) | none | difference between configuration and agent, applied key by key | a live agent, the vault file | another client in between; another vault than the one served |
| Key and vault creation (`cli/create.go`, `keys/`, `cli/vault.go`, `vaultops/init.go`) | a pair of files; vault, temporary file and recovery text | create, vault init | two processes on the same paths | several files per command, each of which can fail |
| Terminal interface (`tui/`) | frame, five tabs, focus, prompts, pending commands | key presses, clicks, timers, messages from commands that run beside it | agent, vault, daemon, files | answers that arrive late, out of order, or for a tab that has been left |
| Configuration (`config/`, `runtime/`, `platform/`) | files, environment, flags | load, merge, write a theme | everything at start | precedence |
| Cryptography and formats (`kdf/`, `vault/cipher.go`, `keys/parse.go`, `openssh/`) | none | derive, encrypt, parse, format | the vault | none for a state machine |
| Presentation (`style/`, `theme/`, `version/`, the render functions of `tui/`) | none | text and colours | commands, TUI | none for a state machine |

### What makes each component correct

- Vault agent: what was answered is on disk; a locked vault changes nothing and
  serves nothing; a key that is not loaded, or has expired, is not served; a key
  that is loaded is found; the session sets never outlive an identity; every call
  is answered.
- Keys agent: the first lock decides what unlocks it; nothing changes while it is
  locked.
- Password guard: never more checks than slots; an address can exceed the limit
  only by what it had under way; the lockout is the one the history of failures
  calls for, and is reported once; every attempt is answered.
- Daemon lifecycle: a start reports what became of its daemon; paths and processes
  agree between commands; every command returns, unless the agent it is in a session
  with hangs; a daemon told to stop stops.
- SSH server: every shell ends with its session or its server, in the right order;
  a client that leaves ends its session; Close ends the process; the log of a
  connection is the story of its sign-in.
- Host key: clients see one identity.
- Operations over the wire: decoding inverts encoding and reads inside the body.
- Vault operations, editing, reconciliation: what a command reports is so; what it
  lost it tells; it takes away only what has to go.
- Creation: no key is replaced unasked, a pair belongs together, a vault opens with
  what its user was given.
- Terminal interface: what a screen shows follows from the last answer; what a key
  does is what the screen promised; a late answer is not taken for another.

## 2. Modules

```
LockableAgent            what both backends promise about locking (abstract)
  ^            ^
VaultAgent   KDFLockedKeyring          both implement LockableAgent
  ^
VaultAgentCalls          VaultAgent + what was true while a call lasted
VaultAgentAtomic         VaultAgent + memory as of the last settled moment
  |  implements
  v
LinearVault              a vault whose requests are atomic, with its clients (abstract)
  v
AtomicVault              its operations (abstract)
  ^
  |  each vault of ClientCommands implements
PasswordGuard  <-  PasswordGuardLog    + every outcome per address
DaemonLifecycle  <-  DaemonLifecycleOrder   + whether anything went wrong so far
ServerDaemon   SSHSessions   ConnectionLog          the SSH server
ClientCommands   NewFiles   OpPayloads              the commands
TuiShell   TuiAgent   TuiVault   TuiCreate   TuiEdit   TuiExport   (FocusRing)
```

`MC*` modules make instances of them for TLC; `*_proof` modules hold the theorems.
Where parts share no variable, one run checks them side by side: `MCAgents`,
`MCDaemons`, `MCProgress`, `MCServer`, `MCClients` and `MCTui` have a variable (`part`,
or `backend`) that says which part moves; the others stay as they began, and fairness is
stated for the part that moves only.

A definition whose name starts with `Bug` is a mutation: the definition after it as
a plausible mistake would have it. Nothing uses them; they serve to show that a
property can fail. PROJECT.json names one for each property; the others break other
parts of properties that are conjunctions.

### VaultAgent (`vault/agent.go`, `vault/store.go`, `vault/op.go`)

One process per client connection. A call is cut where another goroutine can see
or change something: a writer takes `mu` in its first step (`HoldForSave`) and
gives it up in `Save`; `List` is `NothingToPurge` or `PurgeExpired` and
`PurgeSave`, then `ListSession`, `ListHidden` and `ListRows`, the last without
`a.mu`; `Sign` is the purge, `SignLookup` and `SignDecrypt`, the last without
`a.mu`, so it can meet a master key that `Lock` has wiped. `masterKey = "wiped"`
is the moment between `wipe` and the assignment. `Save` fails before or after the
rename (`SaveOutcome`). `Restart` is a crash or a stop at any moment: memory is
read back from the file, which the rename keeps whole, and every call in progress
is gone. `acked` is auxiliary: it records what the last answered Add, Remove or
RemoveAll promised.

`VaultAgentCalls` adds `since`: for each call, what has been true at every moment
since it arrived. It lets a property speak about answers without pretending that a
call is instantaneous. A key is unloaded in one of two ways: it has neither the autoload
flag nor an entry in the session set (`Unflagged`), or it has the flag and
`sessionUnload` has hidden it (`Hidden`). List obeys both, Sign the first only.

Left out: blobs, public keys, file paths, timestamps, the order of the list, the
constraints `Add` refuses outright, and the question "is the vault locked?", which
changes nothing. Removing several expired identities is one step, as `a.mu` is
held over it and `List`'s unlocked read of the store then sees them go one by one
without any property telling the difference.

### AtomicVault, LinearVault, VaultAgentAtomic

`AtomicVault` is the vault as one asks things of it: each operation is one step on the
identities in memory, those in the file and the two session sets, its save included,
which may fail with the file as it was or already changed. `LinearVault` adds clients: a
request is sent, takes effect once, at some moment before its answer comes back, and the
answer is the one that moment calls for. Two answers are left open: the rows of a List,
which is not atomic in the code (`VaultAgentCalls` says what they may be), and whether a
Sign that was granted then succeeds, as it decrypts without `a.mu`.

`VaultAgentAtomic` shows that VaultAgent implements `LinearVault`. A writer changes
memory first, and file and session sets when its save is over, so memory alone makes no
whole step; the history variable `settled` is memory as of the last moment that nobody
was between the two halves (`Halfway`), and stands for `held`, `shown` and `hidden`. A
request takes effect when its save ends, a lock or unlock when `masterKey` is set, a Sign
when it has looked its key up. The purge before a List or a Sign is an operation of its
own.

`ClientCommands` takes the agent's requests for single steps. `AsAtomic(v)` reads its
state as the vault `v` of AtomicVault (a vault that is not served is one whose agent has
just come up), and `AsksWhatAgentsDo` says that every step of every command is an
operation of it or leaves it alone: what the two models say of the vault is one thing.

### KDFLockedKeyring (`agent/kdf_locked_keyring.go`)

Each operation runs under one mutex and is one step. The derived verifier is the
passphrase it comes from. The inner `x/crypto` keyring is external: it holds keys
and drops those whose lifetime is over (`aged`) when it lists or signs. A restart
loads `keyPaths` again and knows of no lock (`sshushd/daemon.go:83-105`), and so
does `LockableAgent`, which lets a restart choose.

### LockableAgent

Three variables: is it locked, what does it hold, what would it hold after a
restart. `VaultAgent` implements it with its memory and its file, `KDFLockedKeyring`
with its inner keyring and the configured key files.

### PasswordGuard (`server/password_guard.go`)

An attempt is `CheckLockout`, then `TakeSlot` or `GiveUpWaiting`, `Checked`,
`Accept` or `RecordFailure`, `PauseEnds`. The mutex of the guard covers the
lockout check and the count, nothing else does. Time is a counter in units of
which `Lockout` is a multiple. `PasswordGuardLog` remembers the outcome of every
check in the order they were counted.

### DaemonLifecycle (`sshushd/`, `agent/server.go`, `readypipe/`, `cmd/sshushd/`, `cli/`)

Two kinds of process. A daemon walks from `config` to `dead`: the check of `main`, the
pidfile, the vault, the dial, the removal of a stale socket, the bind, readiness,
serving, and the deferred removals in the order Go runs them. A command walks through
the looks and acts of `start`, `stop`, `reload` and their TUI counterparts, which skip
the look at the pidfile. A daemon that ends on a signal removes whatever is at its
socket path, since the listener unlinks by path. SIGTERM is caught from
`signal.NotifyContext` to its `stop`, and kills at any other moment. A command that
finds a listener, or whose daemon has become ready, opens a session (`Connect`,
`OpenSession`) and is `asking` until the daemon has served it (`ServeSession`) or its
process has ended (`SessionBreaks`): these answers have no deadline. What is asked in
a session, and the passphrase prompt of a start, changes nothing here and is part of
that one state. All commands share one configuration, so one socket path; pids are not
reused; writing the pidfile is one step. `DaemonLifecycleOrder` remembers whether
anything out of the ordinary has happened, and says what holds until then.

### ServerDaemon (`sshushd/daemon.go`, `control.go`, `server/server.go`, `hostkey.go`, `cli/server.go`)

The processes of the SSH server and the commands `server` and `server stop`. They
share a pidfile, a port and the host key file; `EnsureHostKey` is four steps (stat,
exclusive create, write, load), any of which can fail or be the last one. A server
registers for SIGTERM, listens, publishes its listener (`Publish`), reports readiness,
tracks its first session and accepts until `Close`. `SignalStep` is the goroutine that
waits for the signal: `MarkClosed` finds `s.serving` set or not, `CloseServing` closes
what it found. `smooth` is auxiliary: nothing out of the ordinary has happened.

### SSHSessions (`server/server.go`, `shell.go`, `channels.go`)

A connection is signed in, asks for a session, and has a handler (`handleSession`), a
watcher that hangs up when the client goes (`hangUpOnDisconnect`) and, on a pty, one
that cuts the read of the terminal. The shell may ignore SIGHUP and may leave
something in the background that holds its output open. `reaped` is the channel all of
them meet at. Close hangs up on every connection; `waitForSessions` drains for
`Grace + Over` units of the clock, which moves only when no goroutine of the server
could. One session per connection is a bound.

### ConnectionLog (`server/connlog.go`, `auth_agent.go`, `server.go`)

One connection's records, put together from callbacks. `truth` is auxiliary: what was
tried and what came of it. x/crypto is external: it remembers a key it was told about,
asks without logging, and logs without asking. Its read loop closes the connection when
the client goes, so `Close` can come at any moment, also while the guard has a password;
sign-in goes on up to the first answer that cannot be written (`AfterAnswer`). The
remote address is taken to be the connection's own.

### ClientCommands (`cli/`, `vaultops/`, `editcomment/`, `agent/session.go`)

Each terminal runs a command, a sequence of requests on one agent session; one request
is one step. Between two requests another terminal, the editor of the configuration, a
vault file that becomes unreadable, or a restart can come. `served` is the vault of the
running agent, `config` the file the command read at its start, `store` what each vault
and the keyring hold. `took` is auxiliary: who took an identity out of a store last.

### NewFiles (`cli/create.go`, `keys/`, `cli/vault.go`, `vaultops/init.go`, `vault/`)

Two commands that create several files: a process is `stat`, `private`, `public` for
`create`, and `ask`, `target`, `save`, `rename`, `phrase`, `resave`, `rerename`, `text`
for `vault init`. Each step can fail and be the last; another process can work on the
same paths.

### OpPayloads (`vault/payload.go`, `vault/op.go`, `session_ops.go`)

The builders of the three bodies with fields and the parsers that take them apart, as
functions over sequences of byte values; `Panic` is an index past the end.

### TuiShell (`tui/skeleton.go`, `agent_chrome.go`, `root.go`)

The frame: which tab is active, where the focus is (screen, tabs, header tools), help,
theme picker, theme messages with their timers. `Press(key)` is `Skeleton.Update` for a
key, `Click*` are the branches of `handleMouseEvent`. A page is what the frame asks of
it: has it a modal, does it take text; everything else it does is open. `Letters` are
the keys that are characters, q among them.

### TuiAgent, TuiVault, TuiCreate, TuiEdit, TuiExport (`tui/`)

Each tab is a state machine on its own. A key starts a command (`cmds`, `work`), the
command acts at some later moment and leaves a message (`msgs`), the message is handled
at some moment after that, in any order, or is lost when another tab is active, as
`Skeleton` hands messages to the active tab only. `TuiAgent` also has the agent behind
it, which others may lock, restart or replace; `misled` is auxiliary and lists the
ways in which the tab can be told nothing. In `TuiVault` others change the vault at any
moment, with the tab active or not (`Elsewhere`: the global keys, commands of the Agent
tab, other terminals; `InitElsewhere`); `unlisted` is auxiliary and says that this
happened with the tab active and that nothing has listed the vault since. `filled` says
that `passInput` holds something; `seen` and `missed` are auxiliary: whether a recovery
phrase was on the screen when a key dropped it, and whether the tab was left during the
init or a prompt was open when the phrase came. In `TuiExport` a name is a default one,
by which keys may coincide (`Renamed` are the keys whose files are called otherwise), or
one typed while a given key was shown; `displaced` is auxiliary: a key that was loading
arrived while the agent's table was shown. `FocusRing` is `focus.go` as operators.

## 3. Runs

| Run | Module | What it asks | Bounds |
|---|---|---|---|
| Agents | MCAgents | `RequestsAreAtomic` (refinement of `LinearVault`); the keyring's `FirstLockDecides`; `BothKeepLockPromise` (refinement of `LockableAgent` by both) | 2 clients, 1 key, 9 operations, a lifetime of one tick, clock to 3, a recovery phrase; 2 keys and 2 passphrases in the keyring |
| VaultAgentCalls | MCVaultAgentCalls | `SessionSetsInStore`, `AckedDurable`, `ServesOnlyVisible`, `ListFindsVisible` | 2 clients, 1 key, 6 operations, a lifetime of one tick, clock to 3, no recovery phrase |
| Progress | MCProgress | `CallsAnswered`, `CommandsReturn`, `TerminatedEnds`, `AttemptsAnswered` | 2 clients, 1 key, 6 operations; 1 command, 2 daemons, one of which may hang, one may crash; 2 attempts, 1 slot |
| Daemons | MCDaemons | `ChecksCapped`, `OvershootBounded`, `LockoutFollowsHistory`; `StartReports`, `QuietMeansConsistent` | 2 addresses, 2 attempts at once, 1 slot, limit 2, lockout 2, clock to 3, 4 outcomes in all; 2 commands at once, 2 daemons, crashes, timeouts; one command at a time once a daemon was launched by hand (`PartBound`) |
| Server | MCServer | `OneIdentity`, `CommandsAgreeWithServers`, `AcceptingCloses`; `ShellsEnd`, `DisconnectEndsSession`, `CloseReturns`; `LogIsTrue` | 1 command, 2 servers, one may crash; 1 connection, grace 2, wait 3; 2 keys, 3 sign-in attempts |
| Clients | MCClients | `EditKeepsKeys`, `ReloadDoesItsPart`, `VerbsKeepTheirWord`; `AsksWhatAgentsDo` (refinement of `AtomicVault`); `CreateKeepsItsWord`, `VaultCanBeOpened`; `PayloadsAgree` | 2 terminals, 2 keys, 2 vaults, 2 commands, 1 event; 2 processes; bytes below 3, fields to 2, bodies to 7 bytes |
| Tui | MCTui | `FrameInOrder`, `LettersReachText`; `WatchesItsBackend`, `FooterCatchesUp`; `ScreenIsTrue`, `SecretsHandled`; `OverwritesWarned`; `CommentOfItsKey`; `SavedUnderOwnName`; `FocusIsShown` | 2 themes, message and poll generations to 2; 1 key and 1 event on the Agent tab; 5 actions on the Vault tab, entering and leaving it among them; 2 saves on Create; 2 files, 2 comments, 3 commands on Edit and Export, 2 keys of one type, the file of one named by that type |
| VaultAgentSetAutoload | VaultAgent | `SetAutoloadPersists` is violated | 1 client, 1 key, setAutoload and unlock |
| VaultAgentHidden | VaultAgentCalls | `HiddenNotSigned` is violated | 1 client, 1 key, sign, sessionUnload and unlock |
| PasswordGuardQueue | PasswordGuard | `LockedOutUnchecked` is violated | 2 attempts, 1 slot |
| DaemonSocketTaken | DaemonLifecycle | `SocketRemovedOnlyStale` is violated | 1 command, 2 daemons, launches by hand |
| DaemonStalePidfile | DaemonLifecycle | `ReloadStarts` is violated | 1 command, 2 daemons, crashes |

The largest passing runs have from 1.2 to 3.1 million distinct states.

Many properties are conjunctions of named parts, each with its own comment in its
module: `ServesOnlyVisible` is `LockedServesNothing`, `UnloadedNotServed` and
`ExpiredNotServed`, for example. A violation of any part is a violation of the whole.

Why the bounds are enough. The vault's operations touch one identity each, RemoveAll
and the purge apart, and never compare two, so one key shows every interleaving on a
key, and two clients show every pair of operations that overlap; the theorems cover
any number of both. Agents and VaultAgentCalls share out the operations: the one has
the writers and the recovery phrase, the other the passphrase and `sessionUnload`;
there only the purge removes an identity while a call looks at it, and the theorems have
every operation.
`setComment` is the step of `setAutoload` on another field, and would change nothing
with one comment; the theorems have it. A clock to 3 lets an identity be added at 1,
live at 2 and be expired at 3. One slot and two attempts give the guard its queue; a
limit of 2 lets a run of failures be interrupted, four outcomes pass the limit, and a
clock to 3 with a lockout of 2 lets a run end and begin again. Two daemons and two commands are the smallest instance
with a race on each path; starting after a stop needs the second daemon. Two servers
race for the host key and for the port; sessions share nothing but the wait of Close,
so one connection shows every order of the ends of a session, and the proof covers any
number of them. Three attempts on a connection let a method come back after another
one. Two processes show every race for a file of one pair or vault. Two terminals show
every crossing of two commands, two keys let a loop stop half way, two vaults let the
configuration and the agent disagree. Bodies of 7 bytes hold two fields with their
lengths, and every length that is too long by one. On each tab two commands under way
are enough for an answer to overtake another; five actions on the Vault tab make a vault
with the passphrase confirmed and a prompt or picker opened over it, or leave the tab and
come back; two files, keys and comments are enough to take one for the other.

Symmetry is used in safety runs only, over clients, attempts, hosts, pids, keys and
processes, which the code only compares (MCDaemons takes the same model values for
attempts and commands, and for addresses and pids: only one part moves); `PROPERTIES`
of those runs are action properties. `PartBound`, the one state constraint, cuts off what
follows a state beyond it in a run for safety; the theorems have no bound.

Deadlock is checked except in Progress, Server, Clients and Tui, where the system stops
once its bounds are used up or its processes have ended.

### Fairness

`VaultAgent!FairSpec`: a goroutine's next step is strongly fair, since Go's RWMutex
holds new readers back for a waiting writer and hands the lock to a starved waiter;
nobody is obliged to call. `GuardFairSpec`: steps of a goroutine are weakly
fair, taking a slot strongly, since a channel serves its waiting senders in order;
clients need not sign in or leave. `DaemonLifecycle!FairSpec`: commands run, and so do
the daemons in `Steady`, which also serve the sessions they have; the others may hang
at any step for good. No daemon and no user has to start anything.
`ServerDaemon!FairSpec`: commands, servers and the goroutine that waits for a signal
run. `SSHSessions!FairSpec`: handlers, watchers, the drain and the clock run, but no
shell ends and no client leaves of itself. `TuiAgent!FairSpec`: some command that may
act acts, each kind of listing runs, some message of each kind is handled, some timer
fires; this is less than Bubble Tea gives, which runs every command and handles every
message.

## 4. What disagrees with the code's own words

- `VaultAgentSetAutoload`: a `setAutoload` whose save failed leaves the new flag in
  memory; the retry finds nothing to change and is answered ok, with the old flag on
  disk (`vault/agent.go:409`). `setComment` has the same shape (`:447`).
- `VaultAgentHidden`: `Sign` does not look at the hidden set (`vault/agent.go:282`), so a
  key hidden by `sessionUnload` still signs, against the comment at `:367`.
- `PasswordGuardQueue`: an attempt that queued before its address was locked out is
  checked after it (`server/password_guard.go:88`).
- `DaemonSocketTaken`: a daemon that finds another one listening removes that one's
  socket on its way out (`sshushd/daemon.go:106`).
- `DaemonStalePidfile`: `stop` and `reload` give up on a pidfile whose process has
  died before removing it, and `start` refuses while it exists (`sshushd/helpers.go:51`).

Seen while modelling, not checked by a run of their own; properties say what holds
beside them.

Vault agent. A vault unlocked between the purge and the read of `List` answers an
expired key (`vault/agent.go:44`), which is why `ExpiredNotServed` asks for a vault
unlocked throughout; `List` can miss a key that an overlapping `Add` moves from the
autoload flag to the session set (`:83`), which is why `ListFindsVisible` speaks of keys
visible for one reason; and it can name a key that had no flag and no session entry
and, after `List` had read the hidden set, was hidden and then given the flag by a
`setAutoload` still in its save: it was unloaded all along, but for two reasons in turn,
and `UnloadedNotServed` speaks of one. That property excepts a Sign
with a hidden key, and no more.

Daemons. The sessions in which `reload` lists the keys of the agent
(`cli/reload.go:139`, `:160`) and `start` those of the one it found or started
(`cli/start.go:58-62`, `:139-166`) have no deadline: with a daemon that hangs while it
listens neither command returns. `CommandsReturn` excepts that case (`AsksUnsteady`)
and no other; whether the passphrase prompt of a start is answered is up to its user.
A daemon killed before it is ready is reported as started, since the readiness pipe
closes empty either way (`readypipe/readypipe.go:93`); so is a server that is closed
before it serves. SIGTERM is read once: a Close that finds `serving` set before Serve
has the listener is lost, and no later SIGTERM ends that server
(`server/server.go:117`, `:135-138`), which is why `AcceptingCloses` begins at
"accepting". `StopDaemon` waits one second where a drain may take three, so an old
server's deferred removal can delete the pidfile of its successor; a server that loses
the port removes the winner's; a crash between the exclusive creation of the host key
and its write leaves a file no server can load. `hangUpOnDisconnect` may signal a
process group that has just been reaped. An attempt refused for its algorithm may be
logged with the key before it. A client that leaves while its password waits or is
checked has its "connection closed" logged first and "auth failed" (or even "auth
accepted") after it (`server/connlog.go:192-199`, `server/password_guard.go:87-91`),
with the lockout this caused; the end then says that nobody signed in.
`EndAgreesWithSignIn` allows this one answer after the end and nothing else, and
`LeftMeansEnded` says that only there is a client said to have left.

Commands. `reload` removes the identities of the vault that is served when the
configuration names another one, or its vault cannot be read (`cli/reload.go:113-131`;
compare `docs/vault.md:200`); a reload crossed by an edit can delete the identity that
was being edited. An edit adds its key again with autoload on, whatever it was
(`editcomment/sync.go:114`), a plain Add replaces with autoload off, `edit --copy`
syncs the agent although its source was not rewritten, and an edit skips the sync in
silence when the agent does not say its backend. Until the agent is restarted after a
change of `vault_path`, the prompt is for the old vault. `create` overwrites a lone
.pub without `--force`; two creates or two inits at once can mix their files; an init
that cannot write the recovery text leaves a vault with a phrase nobody saw. A version
1 key whose PEM fills its body makes the parser index past the end (`vault/op.go:172`).

Terminal interface. Two rules of `docs/tui.md` have exceptions: the frame takes esc and q
from a modal, while ctrl+c goes to the modal (`docs/tui.md:62`), and keys the theme
picker does not know reach the page below it (`:61`). So a q typed into a passphrase
moves the focus to the tab bar, a second one quits, and what is typed after it on the
Agent page is taken for hotkeys, as its prompt does not say that it takes text. A click
on the footer while the picker is open makes the preview the theme to go back to. Esc
while typing in a form quits. With no answer yet, or one that is out of date, the Agent
tab's `d` deletes from a vault (`docs/tui.md:254`) and its lock sets an empty passphrase
on a keyring; a late lock result closes a prompt opened since.

Vault tab. What others change while the tab is active (the global L, a command of the
Agent tab that ends late, another terminal) is not listed until the tab lists again of
itself or is switched to (`tui/vault.go:172-177`), though the table looks at rest;
`docs/tui.md:152` promises it for a switch only. Leaving the tab during an init loses the
recovery phrase; a prompt opened during it is drawn over the phrase (`:834-853`), and the
first key drops the phrase unseen (`:299-301`). The phrase stays in memory after it was
closed, and so does the passphrase that was confirmed or tried: `passInput` keeps it
until the next prompt clears it (`:453-465`), as `recoveryInput` keeps a recovery phrase.
Stale rows remain after listings overtake each other.

Create, Edit, Export. On Create, mouse clicks do not withdraw the confirmation to
overwrite. On Edit, text typed while a save runs becomes the original, and a save that
ends after Back gives the keyboard to a field that is not shown. On Export, a key that
was loading and arrives while the agent's table is shown moves the focus to the form that
the table hides (`tui/export.go:189-190`, `:416-421`), and keys go there unseen. Export
from the agent writes type, fingerprint and comment, which is not a public key; keys of
one type, and a file `id_<type>`, share a default name (`:384-394`), and a save overwrites
`~/.ssh/<name>.pub` unasked.

The hypotheses of `SecretsHandled`, `ScreenIsTrue`, `OverwritesWarned`, `FocusIsShown`,
`CommentOfItsKey` and `WatchesItsBackend` (auxiliary variables `missed`, `crossed` and
`unlisted`, `mouse`, `displaced`, `hurried`, `misled`) are these cases, and no others.

## 5. Proofs

All theorems hold for every value of the constants, under the named assumptions of
the modules. Most say that sentinels are not members of the sets they are told apart
from (`ClientAssumption`, `IdentityAssumption`, `KeysAssumption`,
`LifecycleAssumption`, `TuiAssumption`, `ServersAreNoFiles`, `FilesAssumption`,
`CommandsAssumption`, which also says that there is a vault) or that bounds are numbers
(`LifetimeAssumption`, `TimeAssumption`, `RecoveryAssumption`, `GuardAssumption`,
`BoundAssumption`). Two carry an argument: `TimeAssumption` of
`SSHSessions` (`Over > 0`: Close waits longer than the grace of a hang-up) and
`PayloadsAssumption` (a field is so short that its length field begins with a zero, by
which the daemon tells the body of an older client from a versioned one: in the code, no
key of 2^24 bytes). TLC evaluates all of them on the instances it runs.

An invariant that a run checks is seldom inductive. What each proof adds, and why:

- **VaultAgent_proof.** `Invariance`: `IInv` is inductive. Durability alone is not: it
  needs to know that a client between the halves of a mutation holds `mu`
  (`HolderHoldsMu`), that the master key is then intact (`KeyMatchesHolder`), what the
  first half left in memory for `Save` to write (`SaveAgreesWithStore`), which request
  a label belongs to (`CallMatchesLabel`), and that memory agrees with every promise
  already given (`AckedAgrees`), since any later save writes all of memory. From it
  follow `SessionSetsCorrect`, `Durability`, and `LockPromiseKept`, the refinement of
  `LockableAgent`, with one lemma per action: each is a step of the abstract
  specification or leaves its three variables alone. For the history of
  `VaultAgentCalls`, `CInv` says what each step of a call has settled about its answer
  (`HistoryFits`): past the check of the key it has seen the vault unlocked, past the
  purge what was dead all along is gone from the store, and what it read of the
  session sets fits what has been true since it arrived. `since` only ever shrinks, so
  a step of another client keeps all of it. `ServedIsVisible` and `ListIsComplete` are
  the last two conjuncts of `CInv`; neither says that a hidden key does not sign,
  which it does. `Atomicity` is the refinement of `LinearVault`: `SInv` says what the
  first half of an operation has made of settled memory (`HalfDone`: what an add, a
  removal, an update or a purge has changed, and that the session sets have or have
  not followed), that with nobody half way memory is settled (`SettledIsMemory`), and
  that a call is answered exactly when its goroutine is done (`RequestFits`). Only the
  holder of `a.mu` can be half way, by `IInv`, so the step of anyone else leaves
  settled memory alone. There is one lemma per action: the first half of a writer is a
  stutter, its `Save` the whole operation. `VaultIsAtomic` forgets the clients.
- **Agents_proof** (over MCAgents). For the keyring: `VerifierKept` (a verifier is kept
  exactly while locked), `KeyringFirstLock`, `KeyringPromise`, `KeyringTypes`. For the
  two backends side by side: `BothBackends`, by which a behaviour of MCAgents is one of
  each backend, and with it `BothAtomic`, `FirstLockWins` and `BothPromisesKept`.
- **PasswordGuard_proof.** `ChecksAreCapped`: the slots are exactly the attempts that
  check. `OvershootIsBounded`: the sum of counted failures and attempts in flight from
  one address does not exceed the limit less one plus the number of attempts; an
  attempt enters flight only below the limit, and a failure moves one unit from the
  second summand to the first. Both rest on counting lemmas about finite sets.
  `TypeCorrect`. `LockoutIsOfHistory`: `LogInv` says that the count of an address
  stands for the run of failures that ends its history, and no count for a history that
  ends in a success or went quiet (`CountFitsLog`), and that only a counted failure is
  reported as the lockout (`ReportIsCounted`).
- **DaemonLifecycle_proof.** `TypeCorrect` and `StartReportsTruly`. The inductive
  invariant relates how far a daemon has come to its readiness pipe
  (`PipeAgreesWithDaemon`) and the pipe to what its command was told
  (`AnswerAgreesWithPipe`). `QuietIsConsistent`: in an orderly history at most one
  command is under way, and `OrderInv` says for each place it can be at what the daemons
  and the files are like (`Progress`): that all is settled, that one runs, is stopping
  or is starting.
- **Server_proof** (over MCServer). `ShellsAreEnded`, for any number of connections and
  any grace: `SessionsInv` keeps handler, shell and watchers of a connection in step,
  and says of every shell that was hung up on that its timer has no more than the
  remaining wait of Close less `Over` to go. `ClientsSeeOneIdentity` and
  `CommandsAndServersAgree`: `DaemonInv` says that at most one server is about to write
  the host key, the file being half written then (`OneWriter`), what each stage of a
  server holds (`RoundIsOfStage`, `SignalsOfStage`), what the pipe says of it
  (`PipeTells`), what a command knows (`CommandKnows`), and that in a smooth history
  there is at most one command and one server that is not at its end (`Smooth`).
  `LogTellsTheStory`: what the connection has noted fits the attempt about to be logged
  (`NotesFitAttempt`); the properties of the log are stated by positions, so no
  induction over the log is needed; that the end has been recorded (`closed`) bounds what
  may still come.
- **Tui_proof** (over MCTui). `FrameStaysInOrder`, `LettersStay` (a property of single
  steps, which needs no invariant) and `TypeCorrect`, for any number of presets and
  generations. `ShellInv` has two halves that steps disturb
  one at a time: the chrome (focus, help, tools, views) and the themes (theme, what to
  restore, message, timers). `ChainStaysAlive`, `RequestsMeetTheirBackend` and with them
  `BackendIsWatched`: `AgentInv` says that what the tab, and every answer on its way to
  it, has heard of the backend is right unless `misled` (`HeardRight`).
- **TuiTabs_proof** (over MCTui). One invariant per tab, because a property of a screen
  is about what is on its way to it as well. Create: a confirmation is for the path it
  was given for, and only from the save slot (`CreateInv`). Edit: each command and
  answer carries the file it is for, and unless the user hurried the tab is at rest or
  one of them is on its way (`EditInv`). Export: the name in the field, and that of every
  save under way, is the default one of its line or one typed for it, and what covers the
  form has the focus unless it was displaced (`ExportInv`). Vault: a busy mark has its
  answer coming; a phrase is on its way, on the screen, seen or missed; with listings that
  do not overtake each other, the last one asked for is still to run, or carries the vault
  as it is, or the table does, unless `unlisted` (`VaultInv`).
- **Clients_proof** (over MCClients). `EditsKeepTheirKeys`, `ReloadsDoTheirPart` and
  `VerbsAreTrueToTheirWord`, for any number of terminals, keys and vaults: `CommandsInv`
  says of each terminal what its command has done so far. An edit that took an identity
  out is about to put it back or has reported the loss (`EditSoFar`), and its files are
  ahead of the agent (`FilesAhead`); what a reload has yet to drop is in neither
  key_paths nor the vault it read (`ReloadSpares`), and what the agent lists is
  accounted for by what is left to do (`ReloadSoFar`); a vault verb has made true what
  it counts as done (`VerbSoFar`). A step of one terminal keeps what others know only
  because it marks them crossed (`Crossed`), and takes identities in its own name only.
  `InitLeavesAVaultThatOpens` and `CreateIsTrueToItsWord`: `FilesInv` says how far each
  process that nobody crossed has come with its pair (`PairSoFar`) and its vault
  (`VaultSoFar`). `ClientAndDaemonAgree`: the parsers undo the builders field by field.
  `CommandsAskWhatAgentsDo`: every step is an operation of `AtomicVault` on the vault that
  is served and touches no other; that a status the agent answered tells what the store
  holds (`StatusTells`) is what makes the guard of each operation true.

Model-checked only: the liveness properties (`CallsAnswered`, `CommandsReturn`,
`TerminatedEnds`, `AttemptsAnswered`, `AcceptingCloses`, `DisconnectEndsSession`,
`CloseReturns`, `FooterCatchesUp`), which the prover cannot reach. Every safety property
of a passing run is also a theorem.

## 6. Plan

Done: the vault agent, its calls and its proofs; the atomicity of its requests, and that
the commands ask for nothing else; the promise of both backends, also side by side; the
password guard and its history; the daemon lifecycle and its order; the SSH server's
processes, sessions and log; the commands, what they create and what they send; the
terminal interface; a proof of every safety property that a run of theirs checks.

Left: a failed save as seen by the commands, which `ClientCommands` does not have (its
steps are those of `AtomicVault` whose save succeeds); configuration as pure functions.

## 7. Not modelled, and why

- Configuration: read once by one process and merged from files, environment and flags.
  It is a pure function of text; the models take its result as given and let it change
  between two reads.
- Cryptographic primitives, key formats and file encodings: a key is its fingerprint, a
  derived key is its passphrase.
- Other commands (`theme`, `server enable`, `server logs`, `completion`, `find`, `list`,
  `validate`): they read and print, or write one file in one step.
- Presentation: colours, layout, help text, the render functions of the terminal
  interface, window sizes, scrolling and table cursors; the version check.
- Parts of modelled components: reading key files at the start of the daemon; the
  fallback of a client session to the extensions of an older daemon; the shell's
  environment and window size, authorized_keys files, and the requests a session refuses
  before it changes anything (forwarding, subsystems); the editor on a temporary file;
  the comment overlay and the key discovery of the terminal interface; rotation of the
  log.

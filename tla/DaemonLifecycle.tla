---------------------------- MODULE DaemonLifecycle ----------------------------
(***************************************************************************)
(* Starting and stopping the agent daemon: sshush start, stop and reload   *)
(* (cli/start.go, stop.go, reload.go), their twins in the TUI, and the     *)
(* sshushd processes they fork, signal and wait for (sshushd/daemon.go,    *)
(* control.go, helpers.go, agent/server.go, cmd/sshushd/main.go).          *)
(*                                                                         *)
(* Nothing but two paths ties these processes together: the pidfile, and   *)
(* the socket, which a dial can tell to be live or stale.  Every look at a *)
(* path and every change of one is a step of its own.  A daemon reports to *)
(* the command that forked it over the readiness pipe (readypipe).         *)
(*                                                                         *)
(* All commands share one configuration, and so one socket path.  A pid is *)
(* used once.  Writing the pidfile is one step.                            *)
(***************************************************************************)
EXTENDS Integers, FiniteSets

CONSTANTS Cli,       \* commands that can be under way at once
          Proc,      \* pids: the daemons of one behaviour
          Mortal,    \* the daemons that may be killed or crash
          Steady,    \* the daemons that never hang
          Timeouts,  \* whether a wait for a daemon may run out
          ByHand,    \* whether sshushd may be launched without sshush
          None       \* no file; no process

ASSUME LifecycleAssumption ==
  /\ Mortal \subseteq Proc /\ Steady \subseteq Proc
  /\ Timeouts \in BOOLEAN /\ ByHand \in BOOLEAN
  /\ None \notin Proc

VARIABLES
  pidfile,     \* the pid written in it, or None
  socket,      \* the daemon whose listener made the socket file, or None
  listening,   \* the daemons whose listener is open
  terminated,  \* the daemons whose signal context is done
  pipe,        \* per daemon, its readiness pipe: open, ready, failed or eof
  pc,          \* where each daemon stands
  cli,         \* what each command does: op, at, target, child and answer
  served       \* auxiliary: the daemons that have ever accepted connections

vars == <<pidfile, socket, listening, terminated, pipe, pc, cli, served>>

Begun(op, at) == [op |-> op, at |-> at, target |-> None, child |-> None, answer |-> "none"]

Idle == Begun("none", "idle")

Init ==
  /\ pidfile = None
  /\ socket = None
  /\ listening = {}
  /\ terminated = {}
  /\ pipe = [d \in Proc |-> "none"]
  /\ pc = [d \in Proc |-> "unborn"]
  /\ cli = [c \in Cli |-> Idle]
  /\ served = {}

(* A dial finds a listener behind the socket file. *)
Reachable == socket \in listening

Alive(d) == pc[d] \notin {"unborn", "dead"}

Goto(d, label) == pc' = [pc EXCEPT ![d] = label]

-----------------------------------------------------------------------------
(* sshushd. *)

(* main: the config is loaded, or the daemon gives up. *)
LoadConfig(d) ==
  /\ pc[d] = "config"
  /\ Goto(d, "check") \/ Goto(d, "exiting")
  /\ UNCHANGED <<pidfile, socket, listening, terminated, pipe, cli, served>>

(* main: CheckAlreadyRunning. *)
CheckRunning(d) ==
  /\ pc[d] = "check"
  /\ Goto(d, IF Reachable THEN "exiting" ELSE "writePid")
  /\ UNCHANGED <<pidfile, socket, listening, terminated, pipe, cli, served>>

(* RunDaemonOnly detaches and writes the pidfile. *)
WritePid(d) ==
  /\ pc[d] = "writePid"
  /\ \/ pidfile' = d /\ Goto(d, "openVault")
     \/ UNCHANGED pidfile /\ Goto(d, "exiting")
  /\ UNCHANGED <<socket, listening, terminated, pipe, cli, served>>

(* Mutation of AfterVaultError: the pidfile is not given back. *)
BugAfterVaultError == "exiting"

AfterVaultError == "removePid"

(* The vault is opened, or the keys loaded; then signals are caught. *)
OpenVault(d) ==
  /\ pc[d] = "openVault"
  /\ Goto(d, "dial") \/ Goto(d, AfterVaultError)
  /\ UNCHANGED <<pidfile, socket, listening, terminated, pipe, cli, served>>

(* ListenAndServe: something listens already, or what is there is stale.
   Creating the directory may fail. *)
Dial(d) ==
  /\ pc[d] = "dial"
  /\ Goto(d, IF Reachable THEN "removeSocket" ELSE "removeStale") \/ Goto(d, "removeSocket")
  /\ UNCHANGED <<pidfile, socket, listening, terminated, pipe, cli, served>>

RemoveStale(d) ==
  /\ pc[d] = "removeStale"
  /\ socket' = None
  /\ Goto(d, "bind")
  /\ UNCHANGED <<pidfile, listening, terminated, pipe, cli, served>>

(* A path that exists cannot be bound; listening may fail for other reasons. *)
Bind(d) ==
  /\ pc[d] = "bind"
  /\ \/ /\ socket = None
        /\ socket' = d
        /\ listening' = listening \cup {d}
        /\ served' = served \cup {d}
        /\ Goto(d, "ready")
     \/ UNCHANGED <<socket, listening, served>> /\ Goto(d, "removeSocket")
  /\ UNCHANGED <<pidfile, terminated, pipe, cli>>

(* Ready: a bare close of the pipe. *)
Ready(d) ==
  /\ pc[d] = "ready"
  /\ pipe' = [pipe EXCEPT ![d] = IF @ = "open" THEN "ready" ELSE @]
  /\ Goto(d, "serving")
  /\ UNCHANGED <<pidfile, socket, listening, terminated, cli, served>>

(* Mutation of AfterClose: the accept loop outlives its listener. *)
BugAfterClose == "serving"

AfterClose == "removeSocket"

(* The context is done: the listener unlinks the socket path, whatever is there,
   and closes; Accept fails and ListenAndServe returns. *)
CloseListener(d) ==
  /\ pc[d] = "serving"
  /\ d \in terminated
  /\ socket' = None
  /\ listening' = listening \ {d}
  /\ Goto(d, AfterClose)
  /\ UNCHANGED <<pidfile, terminated, pipe, cli, served>>

(* The deferred removals of RunDaemonOnly, in the order they run. *)
RemoveSocket(d) ==
  /\ pc[d] = "removeSocket"
  /\ socket' = None
  /\ Goto(d, "removePid")
  /\ UNCHANGED <<pidfile, listening, terminated, pipe, cli, served>>

RemovePid(d) ==
  /\ pc[d] = "removePid"
  /\ pidfile' = None
  /\ Goto(d, "exiting")
  /\ UNCHANGED <<socket, listening, terminated, pipe, cli, served>>

(* Mutation of FailPipe: the failure is written even after Ready. *)
BugFailPipe(d) == pipe' = [pipe EXCEPT ![d] = IF @ = "none" THEN @ ELSE "failed"]

(* Fail writes the error and closes; it does nothing after Ready, or without a
   pipe. *)
FailPipe(d) == pipe' = [pipe EXCEPT ![d] = IF @ = "open" THEN "failed" ELSE @]

(* main reports the error, as every way out of RunDaemonOnly is one. *)
ReportFailure(d) ==
  /\ pc[d] = "exiting"
  /\ FailPipe(d)
  /\ Goto(d, "exit")
  /\ UNCHANGED <<pidfile, socket, listening, terminated, cli, served>>

(* The process ends, and the kernel closes what it still holds. *)
DieNow(d) ==
  /\ Goto(d, "dead")
  /\ listening' = listening \ {d}
  /\ pipe' = [pipe EXCEPT ![d] = IF @ = "open" THEN "eof" ELSE @]

Exit(d) ==
  /\ pc[d] = "exit"
  /\ DieNow(d)
  /\ UNCHANGED <<pidfile, socket, terminated, cli, served>>

Crash(d) ==
  /\ d \in Mortal
  /\ Alive(d)
  /\ DieNow(d)
  /\ UNCHANGED <<pidfile, socket, terminated, cli, served>>

LaunchByHand(d) ==
  /\ ByHand
  /\ pc[d] = "unborn"
  /\ Goto(d, "config")
  /\ UNCHANGED <<pidfile, socket, listening, terminated, pipe, cli, served>>

DaemonStep(d) ==
  \/ LoadConfig(d) \/ CheckRunning(d) \/ WritePid(d) \/ OpenVault(d) \/ Dial(d)
  \/ RemoveStale(d) \/ Bind(d) \/ Ready(d) \/ CloseListener(d)
  \/ RemoveSocket(d) \/ RemovePid(d) \/ ReportFailure(d) \/ Exit(d)

-----------------------------------------------------------------------------
(* The commands.  cliReload and tuiReload stop and start; tuiStart and         *)
(* tuiReload call StartDaemon without looking at the pidfile first.            *)

CliGoto(c, label) == cli' = [cli EXCEPT ![c].at = label]

(* The command is done with the daemon it has signalled or asked. *)
CliForget(c, label) == cli' = [cli EXCEPT ![c].at = label, ![c].target = None]

Answer(c, what) ==
  cli' = [cli EXCEPT ![c].at = "answered", ![c].target = None, ![c].answer = what]

Call(c) ==
  /\ cli[c].at = "idle"
  /\ \E op \in {"start", "tuiStart", "stop", "cliReload", "tuiReload"} :
       cli' = [cli EXCEPT ![c] = Begun(op, CASE op = "start"     -> "dial"
                                             [] op = "tuiStart"  -> "startDaemon"
                                             [] op = "cliReload" -> "connect"
                                             [] OTHER            -> "readPid")]
  /\ UNCHANGED <<pidfile, socket, listening, terminated, pipe, pc, served>>

(* A session with the daemon behind the socket, whose listener the dial has
   found: nothing limits how long its answers may take. *)
Ask(c, answer) ==
  cli' = [cli EXCEPT ![c].at = "asking", ![c].target = socket, ![c].answer = answer]

(* runReload: an agent that answers has its keys reconciled, and stays. *)
Connect(c) ==
  /\ cli[c].at = "connect"
  /\ IF Reachable THEN Ask(c, "reconciled") ELSE CliGoto(c, "readPid")
  /\ UNCHANGED <<pidfile, socket, listening, terminated, pipe, pc, served>>

(* start knows what to report, and opens a session to add the agent's keys to it:
   a dial of its own. *)
ListKeys(c, answer) == cli' = [cli EXCEPT ![c].at = "open", ![c].answer = answer]

OpenSession(c) ==
  /\ cli[c].at = "open"
  /\ IF Reachable THEN Ask(c, cli[c].answer) ELSE CliGoto(c, "answered")
  /\ UNCHANGED <<pidfile, socket, listening, terminated, pipe, pc, served>>

(* The daemon serves the sessions it has accepted until its process ends; one it
   has not accepted is over when its listener closes.  Errors change nothing. *)
ServeSession(d, c) ==
  /\ cli[c].at = "asking" /\ cli[c].target = d
  /\ pc[d] \in {"serving", "removeSocket", "removePid", "exiting", "exit"}
  /\ CliForget(c, "answered")
  /\ UNCHANGED <<pidfile, socket, listening, terminated, pipe, pc, served>>

(* The kernel closes the session of a process that has ended. *)
SessionBreaks(c) ==
  /\ cli[c].at = "asking"
  /\ pc[cli[c].target] = "dead"
  /\ CliForget(c, "answered")
  /\ UNCHANGED <<pidfile, socket, listening, terminated, pipe, pc, served>>

(* What follows StopDaemon: a reload goes on whatever it returned. *)
AfterStop(c, answer) ==
  CASE cli[c].op = "stop"      -> Answer(c, answer)
    [] cli[c].op = "cliReload" -> CliForget(c, "dial")
    [] OTHER                   -> CliForget(c, "startDaemon")

(* Mutation of PidRead: the daemon the command forked, not the one that runs. *)
BugPidRead(c) == cli[c].child

PidRead(c) == pidfile

ReadPid(c) ==
  /\ cli[c].at = "readPid"
  /\ IF pidfile = None
     THEN AfterStop(c, "no pidfile")
     ELSE cli' = [cli EXCEPT ![c].at = "signal", ![c].target = PidRead(c)]
  /\ UNCHANGED <<pidfile, socket, listening, terminated, pipe, pc, served>>

(* The daemon catches SIGTERM from signal.NotifyContext on until it returns;
   before and after, the signal kills it. *)
Catches(d) == pc[d] \in {"dial", "removeStale", "bind", "ready", "serving"}

(* A process that has ended cannot be signalled, and its pidfile stays. *)
Signal(c) ==
  /\ cli[c].at = "signal"
  /\ LET d == cli[c].target IN
       \/ /\ pc[d] = "dead"
          /\ AfterStop(c, "cannot signal")
          /\ UNCHANGED <<listening, terminated, pipe, pc>>
       \/ /\ Alive(d) /\ Catches(d)
          /\ terminated' = terminated \cup {d}
          /\ CliGoto(c, "waitExit")
          /\ UNCHANGED <<listening, pipe, pc>>
       \/ /\ Alive(d) /\ ~Catches(d)
          /\ DieNow(d)
          /\ CliGoto(c, "waitExit")
          /\ UNCHANGED terminated
  /\ UNCHANGED <<pidfile, socket, served>>

(* Fifty looks at the process, a second in all. *)
WaitExit(c) ==
  /\ cli[c].at = "waitExit"
  /\ pc[cli[c].target] = "dead" \/ Timeouts
  /\ CliGoto(c, "removePid")
  /\ UNCHANGED <<pidfile, socket, listening, terminated, pipe, pc, served>>

RemoveStopped(c) ==
  /\ cli[c].at = "removePid"
  /\ pidfile' = None
  /\ AfterStop(c, "stopped")
  /\ UNCHANGED <<socket, listening, terminated, pipe, pc, served>>

(* runStartDaemon's own checks. *)
CheckSocket(c) ==
  /\ cli[c].at = "dial"
  /\ IF Reachable THEN ListKeys(c, "running") ELSE CliGoto(c, "statPid")
  /\ UNCHANGED <<pidfile, socket, listening, terminated, pipe, pc, served>>

StatPid(c) ==
  /\ cli[c].at = "statPid"
  /\ IF pidfile # None THEN Answer(c, "pidfile exists") ELSE CliGoto(c, "startDaemon")
  /\ UNCHANGED <<pidfile, socket, listening, terminated, pipe, pc, served>>

(* StartDaemon: the last look at the socket, then the fork. *)
Fork(c) ==
  /\ cli[c].at = "startDaemon"
  /\ \/ Reachable /\ Answer(c, "running") /\ UNCHANGED <<pipe, pc>>
     \/ /\ ~Reachable
        /\ \E d \in Proc :
             /\ pc[d] = "unborn"
             /\ Goto(d, "config")
             /\ pipe' = [pipe EXCEPT ![d] = "open"]
             /\ cli' = [cli EXCEPT ![c].at = "waiting", ![c].child = d]
     \/ ~Reachable /\ Answer(c, "cannot fork") /\ UNCHANGED <<pipe, pc>>
  /\ UNCHANGED <<pidfile, socket, listening, terminated, served>>

(* Mutation of MayGiveUp: the wait has no deadline. *)
BugMayGiveUp(c) == FALSE

MayGiveUp(c) == Timeouts

(* Wait: an empty pipe is success, text the daemon's error. *)
WaitResult(state) == IF state = "failed" THEN "failed" ELSE "started"

(* startSuccess, of the command line only, lists the keys of what it finds. *)
AfterWait(c, result) ==
  IF result = "started" /\ cli[c].op \in {"start", "cliReload"}
  THEN ListKeys(c, result) ELSE Answer(c, result)

Wait(c) ==
  /\ cli[c].at = "waiting"
  /\ \/ pipe[cli[c].child] # "open" /\ AfterWait(c, WaitResult(pipe[cli[c].child]))
     \/ pipe[cli[c].child] = "open" /\ MayGiveUp(c) /\ Answer(c, "not ready")
  /\ UNCHANGED <<pidfile, socket, listening, terminated, pipe, pc, served>>

Return(c) ==
  /\ cli[c].at = "answered"
  /\ cli' = [cli EXCEPT ![c] = Idle]
  /\ UNCHANGED <<pidfile, socket, listening, terminated, pipe, pc, served>>

CliStep(c) ==
  \/ Connect(c) \/ ReadPid(c) \/ Signal(c) \/ WaitExit(c) \/ RemoveStopped(c)
  \/ CheckSocket(c) \/ StatPid(c) \/ Fork(c) \/ Wait(c) \/ OpenSession(c) \/ SessionBreaks(c)

Next ==
  \/ \E d \in Proc : DaemonStep(d) \/ Crash(d) \/ LaunchByHand(d)
  \/ \E c \in Cli : Call(c) \/ CliStep(c) \/ Return(c)
  \/ \E d \in Proc, c \in Cli : ServeSession(d, c)

Spec == Init /\ [][Next]_vars

(* Commands run, and so do the steady daemons; the others may hang for good. *)
FairSpec ==
  /\ Spec
  /\ \A c \in Cli : WF_vars(CliStep(c))
  /\ \A d \in Steady : WF_vars(DaemonStep(d))
  /\ \A d \in Steady, c \in Cli : WF_vars(ServeSession(d, c))

-----------------------------------------------------------------------------
(* Properties. *)

CliLabels == {"idle", "connect", "readPid", "signal", "waitExit", "removePid", "dial", "statPid",
              "startDaemon", "waiting", "open", "asking", "answered"}

Answers == {"none", "reconciled", "no pidfile", "cannot signal", "stopped", "running",
            "pidfile exists", "cannot fork", "started", "failed", "not ready"}

Command == [op : {"none", "start", "tuiStart", "stop", "cliReload", "tuiReload"}, at : CliLabels,
            target : Proc \cup {None}, child : Proc \cup {None}, answer : Answers]

TypeOK ==
  /\ pidfile \in Proc \cup {None}
  /\ socket \in Proc \cup {None}
  /\ listening \subseteq served /\ served \subseteq Proc
  /\ terminated \subseteq Proc
  /\ pipe \in [Proc -> {"none", "open", "ready", "failed", "eof"}]
  /\ pc \in [Proc -> {"unborn", "config", "check", "writePid", "openVault", "dial", "removeStale",
                      "bind", "ready", "serving", "removeSocket", "removePid", "exiting", "exit",
                      "dead"}]
  /\ cli \in [Cli -> Command]
  /\ \A c \in Cli :
       /\ cli[c].at \in {"signal", "waitExit", "removePid", "asking"} => cli[c].target \in Proc
       /\ cli[c].at = "waiting" => cli[c].child \in Proc

(* What a start reports is what became of its daemon: the text of an error only
   from one that never accepted a connection, success only from one that did, or
   that died without a word (readypipe.go:72-94, daemon.go:110-116). *)
StartReports ==
  \A c \in Cli :
    /\ cli[c].answer = "failed"  => cli[c].child \notin served
    /\ cli[c].answer = "started" => cli[c].child \in served \/ pc[cli[c].child] = "dead"

(* The invariant that keeps StartReports: how far a daemon has come, whether it
   has ever listened, what its pipe says and what its command has been told. *)
PipeAgreesWithDaemon ==
  \A d \in Proc :
    /\ pc[d] = "unborn" => pipe[d] = "none" /\ d \notin served
    /\ pc[d] \in {"ready", "serving"} => d \in served
    /\ pc[d] \in {"config", "check", "writePid", "openVault", "dial", "removeStale", "bind"} =>
         d \notin served
    /\ pipe[d] = "open" => pc[d] \notin {"serving", "exit", "dead"}
    /\ pipe[d] = "open" /\ d \in served => pc[d] = "ready"
    /\ pipe[d] = "ready" => d \in served
    /\ pipe[d] = "failed" => pc[d] \in {"exit", "dead"} /\ d \notin served
    /\ pipe[d] = "eof" => pc[d] = "dead"

AnswerAgreesWithPipe ==
  \A c \in Cli :
    /\ cli[c].at = "waiting" => cli[c].child \in Proc /\ pipe[cli[c].child] # "none"
    /\ cli[c].at \notin {"open", "asking", "answered"} => cli[c].answer = "none"
    /\ cli[c].answer = "failed"  => cli[c].child \in Proc /\ pipe[cli[c].child] = "failed"
    /\ cli[c].answer = "started" => cli[c].child \in Proc /\ pipe[cli[c].child] \in {"ready", "eof"}

(* A command in a session with a daemon that may hang while it listens: the agent's
   answers have no deadline (reload.go:139, :160, start.go:58-62, :139-166). *)
AsksUnsteady(c) == cli[c].at = "asking" /\ cli[c].target \notin Steady

(* Every command returns, though the daemon it starts or stops may hang: the wait
   for readiness and the wait for the exit both end (control.go:17-21,
   helpers.go:54-59).  The one thing that can keep it is a session with a daemon
   that hangs while it listens. *)
CommandsReturn ==
  \A c \in Cli : cli[c].at # "idle" ~> cli[c].at = "answered" \/ AsksUnsteady(c)

(* A daemon that has caught SIGTERM ends (server.go:72-75, daemon.go:107). *)
TerminatedEnds == \A d \in Steady : d \in terminated ~> pc[d] = "dead"

(* agent/server.go:46-47: ListenAndServe "returns ErrAlreadyRunning when something
   is already listening on the path, and removes a stale socket otherwise."  No
   daemon takes the socket of another that is listening behind it. *)
SocketRemovedOnlyStale ==
  [][Reachable /\ socket' # socket => pc'[socket] # pc[socket]]_vars

(* cli/reload.go:24-25: "If the agent is not running, it will be started."  A reload
   is turned away because of a pidfile only while there is a daemon. *)
ReloadStarts ==
  \A c \in Cli :
    cli[c].op = "cliReload" /\ cli[c].answer = "pidfile exists" => \E d \in Proc : Alive(d)
=============================================================================

------------------------------ MODULE ServerDaemon ------------------------------
(***************************************************************************)
(* The SSH server as a daemon: sshush server and sshush server stop        *)
(* (cli/server.go, sshushd/control.go), the sshushd --server processes     *)
(* they fork and signal (sshushd/daemon.go, RunServerOnly), and the        *)
(* server's own start and Close (server/server.go, hostkey.go).            *)
(*                                                                         *)
(* The processes share a pidfile, a TCP port and the host key file.  Every *)
(* look at one and every change of one is a step.  The sessions a server   *)
(* hangs up on when it is closed are those of SSHSessions; here they only  *)
(* make draining last.  A pid is used once.                                *)
(***************************************************************************)
EXTENDS Integers, FiniteSets

CONSTANTS Cli,       \* commands that can be under way at once
          Proc,      \* pids: the servers of one behaviour
          Mortal,    \* the servers that may be killed, crash or fail to write
          Timeouts,  \* whether a wait for a server may run out
          None       \* no file; no process

(* No server is taken for a missing or a half-written file. *)
NamesDiffer == None \notin Proc /\ "torn" \notin Proc /\ None # "torn"

VARIABLES
  pidfile,   \* the pid written in it, or None
  hostkey,   \* None, "torn" while half written, or the server that made it
  port,      \* the server that listens on it, or None
  pc,        \* where each server stands
  round,     \* which of its two calls of EnsureHostKey it is in, or past
  identity,  \* the host key each server has loaded
  mark,      \* per server, Server.closed and Server.serving, and whether
             \* gliderlabs has been told to stop (its done channel)
  sig,       \* per server, how far its signal goroutine is
  pipe,      \* per server, its readiness pipe
  cli,       \* what each command does: op, at, target, child and answer
  smooth     \* auxiliary: no crash, no timeout, never two commands at once

vars == <<pidfile, hostkey, port, pc, round, identity, mark, sig, pipe, cli, smooth>>

Begun(op, at) == [op |-> op, at |-> at, target |-> None, child |-> None, answer |-> "none"]

Idle == Begun("none", "idle")

Init ==
  /\ pidfile = None /\ hostkey = None /\ port = None
  /\ pc = [d \in Proc |-> "unborn"]
  /\ round = [d \in Proc |-> 1]
  /\ identity = [d \in Proc |-> None]
  /\ mark = [d \in Proc |-> [closed |-> FALSE, serving |-> FALSE, done |-> FALSE]]
  /\ sig = [d \in Proc |-> "default"]
  /\ pipe = [d \in Proc |-> "none"]
  /\ cli = [c \in Cli |-> Idle]
  /\ smooth = TRUE

Alive(d) == pc[d] \notin {"unborn", "dead"}

Goto(d, label) == pc' = [pc EXCEPT ![d] = label]

(* Mutation of FailTo: an error after detaching leaves the pidfile. *)
BugFailTo(d) == "exiting"

(* Once the pidfile is written, every return removes it. *)
FailTo(d) == IF round[d] = 1 THEN "exiting" ELSE "removePid"

-----------------------------------------------------------------------------
(* EnsureHostKey, called by RunServerOnly and again by ListenAndServe. *)

EnsuredTo(d) == IF round[d] = 1 THEN "settings" ELSE "load"

StatHostKey(d) ==
  /\ pc[d] = "stat"
  /\ Goto(d, IF hostkey = None THEN "create" ELSE "check") \/ Goto(d, FailTo(d))
  /\ UNCHANGED <<pidfile, hostkey, port, round, identity, mark, sig, pipe, cli, smooth>>

(* A file that holds half a key is an error, not a missing key. *)
CheckHostKey(d) ==
  /\ pc[d] = "check"
  /\ Goto(d, IF hostkey \in Proc THEN EnsuredTo(d) ELSE FailTo(d))
  /\ UNCHANGED <<pidfile, hostkey, port, round, identity, mark, sig, pipe, cli, smooth>>

(* Mutation of MayCreate: os.Create instead of O_EXCL. *)
BugMayCreate == TRUE

MayCreate == hostkey = None

CreateHostKey(d) ==
  /\ pc[d] = "create"
  /\ \/ MayCreate /\ hostkey' = "torn" /\ Goto(d, "write")
     \/ ~MayCreate /\ UNCHANGED hostkey /\ Goto(d, "check")
     \/ UNCHANGED hostkey /\ Goto(d, FailTo(d))
  /\ UNCHANGED <<pidfile, port, round, identity, mark, sig, pipe, cli, smooth>>

WriteHostKey(d) ==
  /\ pc[d] = "write"
  /\ \/ hostkey' = d /\ Goto(d, EnsuredTo(d)) /\ UNCHANGED smooth
     \/ d \in Mortal /\ UNCHANGED hostkey /\ Goto(d, FailTo(d)) /\ smooth' = FALSE
  /\ UNCHANGED <<pidfile, port, round, identity, mark, sig, pipe, cli>>

-----------------------------------------------------------------------------
(* RunServerOnly. *)

(* main loads the config; the port and the authorized keys are checked. *)
LoadConfig(d) ==
  /\ pc[d] = "config"
  /\ Goto(d, "stat") \/ Goto(d, "exiting")
  /\ UNCHANGED <<pidfile, hostkey, port, round, identity, mark, sig, pipe, cli, smooth>>

(* The shell, the vault passwords are checked against, and the log. *)
CheckSettings(d) ==
  /\ pc[d] = "settings"
  /\ Goto(d, "writePid") \/ Goto(d, "exiting")
  /\ UNCHANGED <<pidfile, hostkey, port, round, identity, mark, sig, pipe, cli, smooth>>

WritePid(d) ==
  /\ pc[d] = "writePid"
  /\ \/ pidfile' = d /\ round' = [round EXCEPT ![d] = 2] /\ Goto(d, "notify")
     \/ UNCHANGED <<pidfile, round>> /\ Goto(d, "exiting")
  /\ UNCHANGED <<hostkey, port, identity, mark, sig, pipe, cli, smooth>>

(* SIGTERM is caught from here on, by a goroutine that waits for one signal. *)
NotifySignals(d) ==
  /\ pc[d] = "notify"
  /\ sig' = [sig EXCEPT ![d] = "idle"]
  /\ Goto(d, "stat")
  /\ UNCHANGED <<pidfile, hostkey, port, round, identity, mark, pipe, cli, smooth>>

(* The deferred signal.Stop and removal of the pidfile. *)
RemovePid(d) ==
  /\ pc[d] = "removePid"
  /\ pidfile' = None
  /\ sig' = [sig EXCEPT ![d] = "default"]
  /\ Goto(d, "exiting")
  /\ UNCHANGED <<hostkey, port, round, identity, mark, pipe, cli, smooth>>

-----------------------------------------------------------------------------
(* ListenAndServe. *)

LoadHostKey(d) ==
  /\ pc[d] = "load"
  /\ IF hostkey \in Proc
     THEN identity' = [identity EXCEPT ![d] = hostkey] /\ Goto(d, "listen")
     ELSE UNCHANGED identity /\ Goto(d, "removePid")
  /\ UNCHANGED <<pidfile, hostkey, port, round, mark, sig, pipe, cli, smooth>>

Listen(d) ==
  /\ pc[d] = "listen"
  /\ \/ port = None /\ port' = d /\ Goto(d, "publish")
     \/ UNCHANGED port /\ Goto(d, "removePid")
  /\ UNCHANGED <<pidfile, hostkey, round, identity, mark, sig, pipe, cli, smooth>>

(* Under s.mu: a server closed already gives the port back, and reports no error. *)
Publish(d) ==
  /\ pc[d] = "publish"
  /\ IF mark[d].closed
     THEN port' = None /\ Goto(d, "removePid") /\ UNCHANGED mark
     ELSE mark' = [mark EXCEPT ![d].serving = TRUE] /\ Goto(d, "ready") /\ UNCHANGED port
  /\ UNCHANGED <<pidfile, hostkey, round, identity, sig, pipe, cli, smooth>>

Ready(d) ==
  /\ pc[d] = "ready"
  /\ pipe' = [pipe EXCEPT ![d] = IF @ = "open" THEN "ready" ELSE @]
  /\ Goto(d, "track")
  /\ UNCHANGED <<pidfile, hostkey, port, round, identity, mark, sig, cli, smooth>>

(* gliderlabs' Serve registers the listener; having none before, it takes itself to be
   reused after a Close and makes a new done channel. *)
Track(d) ==
  /\ pc[d] = "track"
  /\ mark' = [mark EXCEPT ![d].done = FALSE]
  /\ Goto(d, "accept")
  /\ UNCHANGED <<pidfile, hostkey, port, round, identity, sig, pipe, cli, smooth>>

(* Mutation of AfterAccept: the accept loop is entered again. *)
BugAfterAccept == "track"

AfterAccept == "drain"

(* Accept fails: the server has been closed, or something else is wrong. *)
AcceptEnds(d) ==
  /\ pc[d] = "accept"
  /\ \/ mark[d].done /\ Goto(d, AfterAccept) /\ UNCHANGED <<port, smooth>>
     \/ /\ ~mark[d].done /\ d \in Mortal
        /\ port' = None /\ Goto(d, "removePid") /\ smooth' = FALSE
  /\ UNCHANGED <<pidfile, hostkey, round, identity, mark, sig, pipe, cli>>

(* waitForSessions. *)
Drain(d) ==
  /\ pc[d] = "drain"
  /\ Goto(d, "removePid")
  /\ UNCHANGED <<pidfile, hostkey, port, round, identity, mark, sig, pipe, cli, smooth>>

(* Close, first half: under s.mu.  A server that is not serving needs no more. *)
MarkClosed(d) ==
  /\ sig[d] = "pending"
  /\ mark' = [mark EXCEPT ![d].closed = TRUE]
  /\ sig' = [sig EXCEPT ![d] = IF mark[d].serving THEN "marked" ELSE "closed"]
  /\ UNCHANGED <<pidfile, hostkey, port, pc, round, identity, pipe, cli, smooth>>

(* Close, second half: gliderlabs closes the listeners it knows of. *)
CloseServing(d) ==
  /\ sig[d] = "marked"
  /\ mark' = [mark EXCEPT ![d].done = TRUE]
  /\ port' = IF pc[d] = "accept" THEN None ELSE port
  /\ sig' = [sig EXCEPT ![d] = "closed"]
  /\ UNCHANGED <<pidfile, hostkey, pc, round, identity, pipe, cli, smooth>>

-----------------------------------------------------------------------------
(* The end of a process. *)

(* Mutation of FailPipe: the failure is written even after Ready. *)
BugFailPipe(d) == pipe' = [pipe EXCEPT ![d] = IF @ = "none" THEN @ ELSE "failed"]

FailPipe(d) == pipe' = [pipe EXCEPT ![d] = IF @ = "open" THEN "failed" ELSE @]

(* main: an error goes to the pipe; a server that was closed returned none. *)
ReportFailure(d) ==
  /\ pc[d] = "exiting"
  /\ IF mark[d].closed THEN UNCHANGED pipe ELSE FailPipe(d)
  /\ Goto(d, "exit")
  /\ UNCHANGED <<pidfile, hostkey, port, round, identity, mark, sig, cli, smooth>>

(* The kernel closes what a process still holds. *)
DieNow(d) ==
  /\ Goto(d, "dead")
  /\ port' = IF port = d THEN None ELSE port
  /\ pipe' = [pipe EXCEPT ![d] = IF @ = "open" THEN "eof" ELSE @]
  /\ sig' = [sig EXCEPT ![d] = "default"]

Exit(d) ==
  /\ pc[d] = "exit"
  /\ DieNow(d)
  /\ UNCHANGED <<pidfile, hostkey, round, identity, mark, cli, smooth>>

Crash(d) ==
  /\ d \in Mortal /\ Alive(d)
  /\ DieNow(d)
  /\ smooth' = FALSE
  /\ UNCHANGED <<pidfile, hostkey, round, identity, mark, cli>>

ServerStep(d) ==
  \/ LoadConfig(d) \/ StatHostKey(d) \/ CheckHostKey(d) \/ CreateHostKey(d) \/ WriteHostKey(d)
  \/ CheckSettings(d) \/ WritePid(d) \/ NotifySignals(d) \/ LoadHostKey(d) \/ Listen(d)
  \/ Publish(d) \/ Ready(d) \/ Track(d) \/ AcceptEnds(d) \/ Drain(d)
  \/ RemovePid(d) \/ ReportFailure(d) \/ Exit(d)

SignalStep(d) == MarkClosed(d) \/ CloseServing(d)

-----------------------------------------------------------------------------
(* The commands. *)

CliGoto(c, label) == cli' = [cli EXCEPT ![c].at = label]

Answer(c, what) == cli' = [cli EXCEPT ![c].at = "answered", ![c].answer = what]

Call(c) ==
  /\ cli[c].at = "idle"
  /\ \E op \in {"start", "stop"} :
       cli' = [cli EXCEPT ![c] = Begun(op, IF op = "start" THEN "readPid" ELSE "stopPid")]
  /\ smooth' = (smooth /\ \A o \in Cli \ {c} : cli[o].at = "idle")
  /\ UNCHANGED <<pidfile, hostkey, port, pc, round, identity, mark, sig, pipe>>

(* StartServerDaemon: a live process behind the pidfile, or a port that answers, is a
   server that runs. *)
ReadPid(c) ==
  /\ cli[c].at = "readPid"
  /\ IF pidfile # None /\ Alive(pidfile) THEN Answer(c, "running") ELSE CliGoto(c, "dial")
  /\ UNCHANGED <<pidfile, hostkey, port, pc, round, identity, mark, sig, pipe, smooth>>

DialPort(c) ==
  /\ cli[c].at = "dial"
  /\ IF port # None THEN Answer(c, "running") ELSE CliGoto(c, "fork")
  /\ UNCHANGED <<pidfile, hostkey, port, pc, round, identity, mark, sig, pipe, smooth>>

Fork(c) ==
  /\ cli[c].at = "fork"
  /\ \/ \E d \in Proc :
          /\ pc[d] = "unborn"
          /\ Goto(d, "config")
          /\ pipe' = [pipe EXCEPT ![d] = "open"]
          /\ cli' = [cli EXCEPT ![c].at = "waiting", ![c].child = d]
     \/ Answer(c, "cannot fork") /\ UNCHANGED <<pipe, pc>>
  /\ UNCHANGED <<pidfile, hostkey, port, round, identity, mark, sig, smooth>>

(* readypipe: nothing is success, text is the server's error. *)
Wait(c) ==
  /\ cli[c].at = "waiting"
  /\ LET said == pipe[cli[c].child] IN
       \/ /\ said # "open"
          /\ Answer(c, IF said = "failed" THEN "failed" ELSE "started")
          /\ UNCHANGED smooth
       \/ said = "open" /\ Timeouts /\ Answer(c, "not ready") /\ smooth' = FALSE
  /\ UNCHANGED <<pidfile, hostkey, port, pc, round, identity, mark, sig, pipe>>

(* StopDaemon, on the server's pidfile. *)
StopReadPid(c) ==
  /\ cli[c].at = "stopPid"
  /\ IF pidfile = None
     THEN Answer(c, "no pidfile")
     ELSE cli' = [cli EXCEPT ![c].at = "signal", ![c].target = pidfile]
  /\ UNCHANGED <<pidfile, hostkey, port, pc, round, identity, mark, sig, pipe, smooth>>

(* SIGTERM kills unless it is caught; one that comes after the first stays in the
   channel's buffer. *)
SendTerm(c) ==
  /\ cli[c].at = "signal"
  /\ LET d == cli[c].target IN
       \/ pc[d] = "dead" /\ Answer(c, "cannot signal") /\ UNCHANGED <<port, pc, sig, pipe, smooth>>
       \/ /\ Alive(d) /\ sig[d] # "default"
          /\ sig' = [sig EXCEPT ![d] = IF @ = "idle" THEN "pending" ELSE @]
          /\ CliGoto(c, "waitExit") /\ UNCHANGED <<port, pc, pipe, smooth>>
       \/ /\ Alive(d) /\ sig[d] = "default"
          /\ DieNow(d) /\ smooth' = FALSE
          /\ CliGoto(c, "waitExit")
  /\ UNCHANGED <<pidfile, hostkey, round, identity, mark>>

WaitExit(c) ==
  /\ cli[c].at = "waitExit"
  /\ \/ pc[cli[c].target] = "dead" /\ UNCHANGED smooth
     \/ Alive(cli[c].target) /\ Timeouts /\ smooth' = FALSE
  /\ CliGoto(c, "removePid")
  /\ UNCHANGED <<pidfile, hostkey, port, pc, round, identity, mark, sig, pipe>>

RemoveStopped(c) ==
  /\ cli[c].at = "removePid"
  /\ pidfile' = None
  /\ Answer(c, "stopped")
  /\ UNCHANGED <<hostkey, port, pc, round, identity, mark, sig, pipe, smooth>>

Return(c) ==
  /\ cli[c].at = "answered"
  /\ cli' = [cli EXCEPT ![c] = Idle]
  /\ UNCHANGED <<pidfile, hostkey, port, pc, round, identity, mark, sig, pipe, smooth>>

CliStep(c) ==
  \/ ReadPid(c) \/ DialPort(c) \/ Fork(c) \/ Wait(c)
  \/ StopReadPid(c) \/ SendTerm(c) \/ WaitExit(c) \/ RemoveStopped(c)

Next ==
  \/ \E d \in Proc : ServerStep(d) \/ SignalStep(d) \/ Crash(d)
  \/ \E c \in Cli : Call(c) \/ CliStep(c) \/ Return(c)

Spec == Init /\ [][Next]_vars

(* Commands and servers run; nobody has to start or stop anything. *)
FairSpec ==
  /\ Spec
  /\ \A c \in Cli : WF_vars(CliStep(c))
  /\ \A d \in Proc : WF_vars(ServerStep(d)) /\ WF_vars(SignalStep(d))

-----------------------------------------------------------------------------
(* Properties. *)

(* The host key a server greets clients with is the one in the file, which the next
   server will load: no start, failed start, crash or race between two servers gives
   clients a second identity (server/hostkey.go:15-22, :40-48). *)
OneIdentity == \A d \in Proc : identity[d] # None => hostkey = identity[d]

(* The server a clean history leaves behind can be found: between commands, the
   pidfile names the server that has the port, and no other (daemon.go:182-187,
   helpers.go:60, cli/server.go "by sending SIGTERM and removing its pidfile"). *)
QuietServerFound ==
  smooth /\ (\A c \in Cli : cli[c].at = "idle") =>
    /\ pidfile = port
    /\ \A d \in Proc : Alive(d) => port = d \/ pc[d] = "exit"

(* What sshush server reports is what became of the server: an error only from one
   that never said it was ready, success only from one that did, or that ended
   without a word (control.go:105-110, readypipe.go:72-94). *)
StartServerReports ==
  \A c \in Cli :
    /\ cli[c].answer = "failed"  => ~mark[cli[c].child].serving
    /\ cli[c].answer = "started" => mark[cli[c].child].serving \/ pc[cli[c].child] = "dead"

(* What the commands on the server leave behind and say agrees with the servers there
   are (sshushd/control.go, cli/server.go). *)
CommandsAgreeWithServers == QuietServerFound /\ StartServerReports

(* A Close that finds the server accepting ends its process (server.go:135-138). *)
AcceptingCloses == \A d \in Proc : pc[d] = "accept" /\ sig[d] = "marked" ~> pc[d] = "dead"
=============================================================================

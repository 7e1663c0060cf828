-------------------------------- MODULE MCServer --------------------------------
(***************************************************************************)
(* The three parts of the SSH server for TLC: its processes, the sessions  *)
(* of one of them, and the log of one connection.  They share no variable, *)
(* so they are checked side by side: a behaviour is one of one part, while *)
(* the other two stay as they began.                                       *)
(***************************************************************************)
EXTENDS SSHSessions, Sequences

CONSTANTS Cli, Proc, Mortal, Timeouts, None, Key, Attempts, NoKey

VARIABLES
  part,
  pidfile, hostkey, port, pc, round, identity, mark, sig, pipe, cli, smooth,
  phase, state, cache, attempt, listed, log, truth

Daemon == INSTANCE ServerDaemon
Log == INSTANCE ConnectionLog

ASSUME ServersAreNoFiles == Daemon!NamesDiffer

daemonVars == <<pidfile, hostkey, port, pc, round, identity, mark, sig, pipe, cli, smooth>>
logVars == <<phase, state, cache, attempt, listed, log, truth>>

ServerInit ==
  /\ part \in {"daemon", "sessions", "log"}
  /\ Daemon!Init /\ Init /\ Log!Init

OnlyDaemon == part = "daemon" /\ part' = part /\ UNCHANGED <<vars, logVars>>
OnlySessions == part = "sessions" /\ part' = part /\ UNCHANGED <<daemonVars, logVars>>
OnlyLog == part = "log" /\ part' = part /\ UNCHANGED <<daemonVars, vars>>

ServerNext ==
  \/ OnlyDaemon /\ Daemon!Next
  \/ OnlySessions /\ Next
  \/ OnlyLog /\ Log!Next

allVars == <<part, daemonVars, vars, logVars>>

(* The fairness of ServerDaemon!FairSpec and of FairSpec. *)
ServerSpec ==
  /\ ServerInit /\ [][ServerNext]_allVars
  /\ \A c \in Cli : WF_allVars(OnlyDaemon /\ Daemon!CliStep(c))
  /\ \A d \in Proc :
       /\ WF_allVars(OnlyDaemon /\ Daemon!ServerStep(d))
       /\ WF_allVars(OnlyDaemon /\ Daemon!SignalStep(d))
  /\ \A c \in Conn :
       /\ WF_allVars(OnlySessions /\ server # "returned" /\ Handler(c))
       /\ WF_allVars(OnlySessions /\ server # "returned" /\ Watcher(c))
  /\ WF_allVars(OnlySessions /\ BeginDrain)
  /\ WF_allVars(OnlySessions /\ EndDrain)
  /\ WF_allVars(OnlySessions /\ Tick)

-----------------------------------------------------------------------------
(* The properties of the sessions are those of SSHSessions. *)

(* ServerDaemon: the host key file and every server agree on the key clients see
   (server/hostkey.go:15-22, :40-48). *)
OneIdentity == Daemon!OneIdentity

(* ServerDaemon: the pidfile names the one server there is after a clean history, and
   starts report what became of their server (sshushd/daemon.go:182-187,
   control.go:105-110). *)
CommandsAgreeWithServers == Daemon!CommandsAgreeWithServers

(* ServerDaemon: a Close that finds the server accepting ends its process
   (server/server.go:135-138). *)
AcceptingCloses == Daemon!AcceptingCloses

(* ConnectionLog: the log of a connection is the story of its sign-in
   (server/connlog.go:102-145, :192-238). *)
LogIsTrue == Log!LogIsTrue
=============================================================================

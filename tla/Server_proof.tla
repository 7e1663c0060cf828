------------------------------- MODULE Server_proof -------------------------------
(***************************************************************************)
(* Proofs about the SSH server, for any number of connections, commands,   *)
(* server processes, keys and attempts, and any grace: what is left of a   *)
(* session that has ended and of the shells Close hung up on; that clients *)
(* see one host key, and that the commands agree with the servers there    *)
(* are; and that the log of a connection tells the truth.  Each part has   *)
(* an inductive invariant of its own, for the parts share no variable.     *)
(***************************************************************************)
EXTENDS MCServer, TLAPS

(* The fairness of ServerSpec is of no use here. *)
LEMMA SafetyOfSpec == ServerSpec => ServerInit /\ [][ServerNext]_allVars
BY PTL DEF ServerSpec

-----------------------------------------------------------------------------
(* SSHSessions. *)

(* The handler and the shell advance together. *)
ShellFollowsHandler(c) ==
  /\ at[c] \in {"none", "asked", "counted"} => shell[c] = "none"
  /\ shell[c] \in {"running", "zombie"} => at[c] \in {"relay", "wait"}
  /\ at[c] \in {"relay", "wait"} => shell[c] \in {"running", "zombie"}
  /\ at[c] \in {"waited", "join"} => shell[c] = "reaped"
  /\ reaped[c] => shell[c] = "reaped"

(* The watchers are there as soon as the shell is, and hangUpOnDisconnect is done only
   with a shell that no longer runs. *)
WatchersFollowShell(c) ==
  /\ shell[c] # "none" => hangup[c] # "none" /\ cutter[c] # "none"
  /\ shell[c] = "running" => hangup[c] # "over"

(* EndedSessionsAreOver, for one session. *)
Over1(c) ==
  at[c] = "ended" /\ shell[c] # "none" =>
    shell[c] = "reaped" /\ hangup[c] = "over" /\ cutter[c] \in {"cut", "over"}

(* A session is that of a connection that signed in. *)
SessionHasClient(c) == at[c] # "none" => conn[c] \in {"open", "closed"}

(* The grace of a shell that Close hung up on runs out before the wait for sessions. *)
HungIsTimed(c) ==
  c \in hung =>
    /\ server # "accept" /\ Gone(c) /\ shell[c] # "none"
    /\ server = "drain" /\ shell[c] = "running" =>
         \/ hangup[c] = "watch" /\ limit = Grace + Over
         \/ hangup[c] = "grace" /\ timer[c] + Over =< limit

SessionInv(c) ==
  /\ ShellFollowsHandler(c) /\ WatchersFollowShell(c) /\ Over1(c)
  /\ SessionHasClient(c) /\ HungIsTimed(c)

SessionsInv == TypeOK /\ (\A c \in Conn : SessionInv(c)) /\ NoShellLeft

LEMMA SessionsInit == Init => SessionsInv
<1> SUFFICES ASSUME Init PROVE SessionsInv
  OBVIOUS
<1>1. TypeOK
  BY TimeAssumption DEF Init, TypeOK
<1>2. \A c \in Conn : SessionInv(c)
  BY DEF Init, SessionInv, ShellFollowsHandler, WatchersFollowShell, Over1,
     SessionHasClient, HungIsTimed
<1>3. NoShellLeft
  BY DEF Init, NoShellLeft
<1> QED
  BY <1>1, <1>2, <1>3 DEF SessionsInv

(* What a client does changes its connection, and the request of a session. *)
LEMMA ClientSteps ==
  ASSUME SessionsInv, NEW c \in Conn, Client(c)
  PROVE  SessionsInv'
<1> USE DEF SessionsInv, TypeOK, Client, Connect, SignIn, Leave, RequestSession, sesVars
<1>1. TypeOK'
  OBVIOUS
<1>2. ASSUME NEW d \in Conn
      PROVE  SessionInv(d)'
  <2>1. SessionInv(d)
    OBVIOUS
  <2> QED
    BY <2>1 DEF SessionInv, ShellFollowsHandler, WatchersFollowShell, Over1,
       SessionHasClient, HungIsTimed, Gone
<1>3. NoShellLeft'
  BY DEF NoShellLeft
<1> QED
  BY <1>1, <1>2, <1>3

(* The programs of a session only end its shell, or hold its output open. *)
LEMMA ProgramSteps ==
  ASSUME SessionsInv, NEW c \in Conn, Programs(c)
  PROVE  SessionsInv'
<1> USE DEF SessionsInv, TypeOK, Programs, ShellExits, JobStarts, JobEnds
<1>1. TypeOK'
  OBVIOUS
<1>2. ASSUME NEW d \in Conn
      PROVE  SessionInv(d)'
  <2>1. SessionInv(d)
    OBVIOUS
  <2> QED
    BY <2>1 DEF SessionInv, ShellFollowsHandler, WatchersFollowShell, Over1,
       SessionHasClient, HungIsTimed, Gone
<1>3. NoShellLeft'
  BY DEF NoShellLeft
<1> QED
  BY <1>1, <1>2, <1>3

(* The handler: from the request to the end of the session. *)
LEMMA HandlerSteps ==
  ASSUME SessionsInv, NEW c \in Conn, server # "returned", Handler(c)
  PROVE  SessionsInv'
<1> USE DEF SessionsInv, TypeOK
<1>1. TypeOK'
  <2>1. CASE Count(c) \/ Follow(c) \/ EndSession(c)
    BY <2>1 DEF Count, Follow, EndSession
  <2>2. CASE StartShell(c)
    BY <2>2 DEF StartShell
  <2>3. CASE WaitShell(c) \/ CloseReaped(c)
    BY <2>3 DEF WaitShell, CloseReaped
  <2> QED
    BY <2>1, <2>2, <2>3 DEF Handler
<1>2. ASSUME NEW d \in Conn
      PROVE  SessionInv(d)'
  <2>1. SessionInv(d)
    OBVIOUS
  <2> USE <2>1 DEF SessionInv, ShellFollowsHandler, WatchersFollowShell, Over1,
                   SessionHasClient, HungIsTimed, Gone
  <2>2. CASE Count(c) \/ Follow(c)
    BY <2>2 DEF Count, Follow
  <2>3. CASE StartShell(c)
    BY <2>3 DEF StartShell
  <2>4. CASE WaitShell(c) \/ CloseReaped(c)
    BY <2>4 DEF WaitShell, CloseReaped
  <2>5. CASE EndSession(c)
    BY <2>5 DEF EndSession, Joined
  <2> QED
    BY <2>2, <2>3, <2>4, <2>5 DEF Handler
<1>3. NoShellLeft'
  BY DEF NoShellLeft, Handler, Count, StartShell, Follow, WaitShell, CloseReaped, EndSession
<1> QED
  BY <1>1, <1>2, <1>3

(* The watchers: a signal stops the shell at the latest when it is SIGKILL. *)
LEMMA WatcherSteps ==
  ASSUME SessionsInv, NEW c \in Conn, server # "returned", Watcher(c)
  PROVE  SessionsInv'
<1> USE DEF SessionsInv, TypeOK
<1>1. TypeOK'
  BY TimeAssumption DEF Watcher, SendHup, SendKill, StopWatching, CutRead, Signal
<1>2. ASSUME NEW d \in Conn
      PROVE  SessionInv(d)'
  <2>1. SessionInv(d) /\ SessionInv(c)
    OBVIOUS
  <2> USE <2>1 DEF SessionInv, ShellFollowsHandler, WatchersFollowShell, Over1,
                   SessionHasClient, HungIsTimed, Gone
  <2>2. CASE SendHup(c)
    BY <2>2, TimeAssumption DEF SendHup, Signal
  <2>3. CASE SendKill(c)
    BY <2>3 DEF SendKill, Signal
  <2>4. CASE StopWatching(c)
    BY <2>4 DEF StopWatching
  <2>5. CASE CutRead(c)
    BY <2>5 DEF CutRead
  <2> QED
    BY <2>2, <2>3, <2>4, <2>5 DEF Watcher
<1>3. NoShellLeft'
  BY DEF NoShellLeft, Watcher, SendHup, SendKill, StopWatching, CutRead
<1> QED
  BY <1>1, <1>2, <1>3

(* Close hangs up; the wait for sessions then begins with more than a grace left. *)
LEMMA CloseSteps ==
  ASSUME SessionsInv, Close \/ BeginDrain
  PROVE  SessionsInv'
<1> USE DEF SessionsInv, TypeOK
<1>1. TypeOK'
  BY TimeAssumption DEF Close, BeginDrain, DrainLimit, Active, sesVars
<1>2. ASSUME NEW d \in Conn
      PROVE  SessionInv(d)'
  <2>1. SessionInv(d)
    OBVIOUS
  <2> USE <2>1 DEF SessionInv, ShellFollowsHandler, WatchersFollowShell, Over1,
                   SessionHasClient, HungIsTimed, Gone, sesVars
  <2>2. CASE Close
    BY <2>2 DEF Close, Active
  <2>3. CASE BeginDrain
    BY <2>3, TimeAssumption DEF BeginDrain, DrainLimit
  <2> QED
    BY <2>2, <2>3
<1>3. NoShellLeft'
  BY DEF NoShellLeft, Close, BeginDrain
<1> QED
  BY <1>1, <1>2, <1>3

(* When the wait is over, no session is left, or its shell has had its SIGKILL. *)
LEMMA EndDrainStep ==
  ASSUME SessionsInv, EndDrain
  PROVE  SessionsInv'
<1> USE DEF SessionsInv, TypeOK, EndDrain, sesVars
<1>1. TypeOK'
  OBVIOUS
<1>2. ASSUME NEW d \in Conn
      PROVE  SessionInv(d)'
  <2>1. SessionInv(d)
    OBVIOUS
  <2> QED
    BY <2>1 DEF SessionInv, ShellFollowsHandler, WatchersFollowShell, Over1,
       SessionHasClient, HungIsTimed, Gone
<1>3. NoShellLeft'
  <2> SUFFICES ASSUME NEW c \in hung, shell[c] = "running"
               PROVE  FALSE
    BY DEF NoShellLeft
  <2>1. c \in Conn /\ SessionInv(c)
    OBVIOUS
  <2>2. c \in Active
    BY <2>1 DEF Active, SessionInv, ShellFollowsHandler
  <2>3. limit = 0
    BY <2>2 DEF DrainOver
  <2> QED
    BY <2>1, <2>3, TimeAssumption DEF SessionInv, HungIsTimed
<1> QED
  BY <1>1, <1>2, <1>3

(* The clock takes as much from the wait as from the grace. *)
LEMMA TickStep ==
  ASSUME SessionsInv, Tick
  PROVE  SessionsInv'
<1> USE DEF SessionsInv, TypeOK
<1>1. TypeOK'
  BY TimeAssumption DEF Tick
<1>2. ASSUME NEW d \in Conn
      PROVE  SessionInv(d)'
  <2>1. SessionInv(d) /\ ~Prompt(d)
    BY DEF Tick
  <2>2. HungIsTimed(d)'
    <3> SUFFICES ASSUME d \in hung, server = "drain", shell[d] = "running"
                 PROVE  hangup[d] = "grace" /\ timer'[d] + Over =< limit'
      BY <2>1 DEF Tick, SessionInv, HungIsTimed, Gone
    <3>1. hangup[d] = "grace" /\ timer[d] # 0 /\ timer[d] + Over =< limit
      BY <2>1 DEF SessionInv, HungIsTimed, Prompt
    <3>2. timer[d] > 0 /\ limit > 0
      BY <3>1, TimeAssumption
    <3>3. timer'[d] = timer[d] - 1 /\ limit' = limit - 1
      BY <3>2 DEF Tick
    <3> QED
      BY <3>1, <3>2, <3>3, TimeAssumption
  <2> QED
    BY <2>1, <2>2 DEF Tick, SessionInv, ShellFollowsHandler, WatchersFollowShell, Over1,
       SessionHasClient
<1>3. NoShellLeft'
  BY DEF NoShellLeft, Tick
<1> QED
  BY <1>1, <1>2, <1>3

LEMMA SessionsNext == SessionsInv /\ [Next]_vars => SessionsInv'
<1> SUFFICES ASSUME SessionsInv, [Next]_vars PROVE SessionsInv'
  OBVIOUS
<1>1. CASE UNCHANGED vars
  BY <1>1 DEF vars, SessionsInv, TypeOK, SessionInv, ShellFollowsHandler, WatchersFollowShell,
       Over1,
     SessionHasClient, HungIsTimed, Gone, NoShellLeft
<1>2. ASSUME NEW c \in Conn,
             Client(c) \/ Programs(c) \/ (server # "returned" /\ (Handler(c) \/ Watcher(c)))
      PROVE  SessionsInv'
  BY <1>2, ClientSteps, ProgramSteps, HandlerSteps, WatcherSteps
<1> QED
  BY <1>1, <1>2, CloseSteps, EndDrainStep, TickStep DEF Next

(* The inductive invariant: handler, shell and watchers in step, and the time each shell
   that was hung up on has left (shell.go, handleSession and hangUpOnDisconnect;
   server.go, Close and waitForSessions). *)
THEOREM SessionsInvariance == ServerSpec => []SessionsInv
<1>1. ServerInit => SessionsInv
  BY SessionsInit DEF ServerInit
<1>2. [ServerNext]_allVars => [Next]_vars
  BY DEF ServerNext, allVars, OnlyDaemon, OnlySessions, OnlyLog
<1> QED
  BY <1>1, <1>2, SessionsNext, SafetyOfSpec, PTL

(* An ended session has reaped its shell, and its goroutines are over (shell.go:187-189);
   ListenAndServe returns only after every shell Close hung up on has stopped, for any
   grace, as long as the wait for sessions is longer (server.go:150-159). *)
THEOREM ShellsAreEnded == ServerSpec => []ShellsEnd
<1>1. SessionsInv => EndedSessionsAreOver
  BY DEF SessionsInv, SessionInv, Over1, EndedSessionsAreOver
<1>2. SessionsInv => NoShellLeft
  BY DEF SessionsInv
<1> QED
  BY <1>1, <1>2, SessionsInvariance, PTL DEF ShellsEnd

(* Every variable keeps its type. *)
THEOREM SessionsTypeCorrect == ServerSpec => []TypeOK
<1>1. SessionsInv => TypeOK
  BY DEF SessionsInv
<1> QED
  BY <1>1, SessionsInvariance, PTL

-----------------------------------------------------------------------------
(* ServerDaemon: what each server has done by where it stands. *)

Labels ==
  {"unborn", "config", "stat", "check", "create", "write", "settings", "writePid", "notify",
   "load", "listen", "publish", "ready", "track", "accept", "drain", "removePid",
   "exiting", "exit", "dead"}

Stands ==
  {"idle", "readPid", "dial", "fork", "waiting", "stopPid", "signal", "waitExit", "removePid",
   "answered"}

Answers ==
  {"none", "running", "cannot fork", "started", "failed", "not ready", "no pidfile",
   "cannot signal", "stopped"}

CommandTypes ==
  cli \in [Cli -> [op : {"none", "start", "stop"}, at : Stands, target : Proc \cup {None},
                  child : Proc \cup {None}, answer : Answers]]

MarkTypes == mark \in [Proc -> [closed : BOOLEAN, serving : BOOLEAN, done : BOOLEAN]]

DaemonTypes ==
  /\ pc \in [Proc -> Labels]
  /\ round \in [Proc -> {1, 2}]
  /\ identity \in [Proc -> Proc \cup {None}]
  /\ MarkTypes
  /\ sig \in [Proc -> {"default", "idle", "pending", "marked", "closed"}]
  /\ pipe \in [Proc -> {"none", "open", "ready", "failed", "eof"}]
  /\ CommandTypes
  /\ pidfile \in Proc \cup {None}
  /\ port \in Proc \cup {None}

(* The file is half written only while the one server that created it is about to
   write, or after that server failed; a whole key is never written over. *)
OneWriter ==
  \A d \in Proc : pc[d] = "write" =>
    hostkey = "torn" /\ \A e \in Proc : pc[e] = "write" => e = d

(* A server is past its first EnsureHostKey once its pidfile is written, and catches
   signals from soon after then until it removes it. *)
RoundIsOfStage(d) ==
  /\ pc[d] \in {"unborn", "config", "settings", "writePid"} => round[d] = 1
  /\ pc[d] \in {"notify", "load", "listen", "publish", "ready", "track", "accept", "drain",
                "removePid"} => round[d] = 2

Catches(d) ==
  \/ pc[d] \in {"load", "listen", "publish", "ready", "track", "accept", "drain", "removePid"}
  \/ pc[d] \in {"stat", "check", "create", "write"} /\ round[d] = 2

SignalsOfStage(d) == sig[d] # "default" <=> Catches(d)

(* What went through the readiness pipe is what became of the server. *)
PipeTells(d) ==
  /\ pc[d] = "unborn" => ~mark[d].closed /\ ~mark[d].done
  /\ pipe[d] = "none" <=> pc[d] = "unborn"
  /\ pc[d] \in {"ready", "track", "accept"} => mark[d].serving
  /\ mark[d].serving => pc[d] \in {"ready", "track", "accept", "drain", "removePid", "exiting",
                                   "exit", "dead"}
  /\ mark[d].serving /\ pipe[d] = "open" => pc[d] = "ready"
  /\ pipe[d] = "ready" => mark[d].serving
  /\ pipe[d] = "failed" => ~mark[d].serving /\ pc[d] \in {"exit", "dead"}
  /\ pipe[d] = "eof" => pc[d] = "dead"

(* What a command knows of the server it started, or stops. *)
CommandKnows(c) ==
  /\ cli[c].at # "answered" => cli[c].answer = "none"
  /\ cli[c].at = "waiting" => cli[c].child \in Proc /\ pc[cli[c].child] # "unborn"
  /\ cli[c].answer = "failed" =>
       cli[c].child \in Proc /\ ~mark[cli[c].child].serving /\ pc[cli[c].child] \in {"exit",
            "dead"}
  /\ cli[c].answer = "started" =>
       cli[c].child \in Proc /\ (mark[cli[c].child].serving \/ pc[cli[c].child] = "dead")
  /\ cli[c].at \in {"signal", "waitExit", "removePid"} => cli[c].target \in Proc

-----------------------------------------------------------------------------
(* ServerDaemon: clean histories. *)

(* Every server but one is gone, or about to. *)
OnlyServer(d) == \A e \in Proc : e = d \/ pc[e] \in {"unborn", "exit", "dead"}

(* No server, or one that serves and that nobody has signalled. *)
Quiet ==
  /\ pidfile = port
  /\ OnlyServer(port)
  /\ port # None => pc[port] \in {"track", "accept"} /\ sig[port] = "idle" /\ ~mark[port].done

HasPid(d) ==
  \/ pc[d] \in {"notify", "load", "listen", "publish", "ready", "track", "accept", "removePid"}
  \/ pc[d] \in {"stat", "check", "create", "write"} /\ round[d] = 2

HasPort(d) == pc[d] \in {"publish", "ready", "track", "accept"}

(* The one server is on its way up, or has failed. *)
Starting(d) ==
  /\ OnlyServer(d)
  /\ pidfile = IF HasPid(d) THEN d ELSE None
  /\ port = IF HasPort(d) THEN d ELSE None
  /\ sig[d] \in {"default", "idle"} /\ ~mark[d].closed /\ ~mark[d].done
  /\ pc[d] # "drain"
  /\ pipe[d] # "open" => pc[d] \in {"track", "accept", "exit", "dead"}

(* The one server has been sent SIGTERM. *)
Stopping(d) ==
  /\ OnlyServer(d)
  /\ pidfile \in {d, None}
  /\ port \in {d, None}
  /\ pc[d] \in {"track", "accept", "drain", "removePid", "exiting", "exit", "dead"}
  /\ pc[d] # "track" /\ mark[d].done => port = None
  /\ pc[d] \in {"drain", "removePid", "exiting", "exit", "dead"} => port = None

OneCommand == \A c, o \in Cli : cli[c].at # "idle" /\ cli[o].at # "idle" => c = o

CommandAt(c) ==
  /\ cli[c].at \in {"dial", "fork"} => port = None
  /\ cli[c].at = "signal" => cli[c].target = port
  /\ cli[c].at = "waiting" => Starting(cli[c].child)
  /\ cli[c].at \in {"waitExit", "removePid"} => Stopping(cli[c].target)
  /\ cli[c].at = "removePid" => pc[cli[c].target] = "dead"

QuietAround == (\A c \in Cli : cli[c].at \notin {"waiting", "waitExit", "removePid"}) => Quiet

Smooth == OneCommand /\ QuietAround /\ \A c \in Cli : CommandAt(c)

DaemonInv ==
  /\ DaemonTypes
  /\ OneWriter /\ Daemon!OneIdentity
  /\ \A d \in Proc : RoundIsOfStage(d) /\ SignalsOfStage(d) /\ PipeTells(d)
  /\ \A c \in Cli : CommandKnows(c)
  /\ smooth => Smooth

-----------------------------------------------------------------------------
(* ServerDaemon: the invariant holds at first, and of the keys. *)

LEMMA DaemonInit == Daemon!Init => DaemonInv
<1> SUFFICES ASSUME Daemon!Init PROVE DaemonInv
  OBVIOUS
<1>1. DaemonTypes
  <2>1. CommandTypes
    BY DEF Daemon!Init, CommandTypes, Stands, Answers, Daemon!Idle, Daemon!Begun
  <2> QED
    BY <2>1 DEF Daemon!Init, DaemonTypes, MarkTypes, Labels
<1>2. OneWriter /\ Daemon!OneIdentity
  BY DEF Daemon!Init, OneWriter, Daemon!OneIdentity
<1>3. \A d \in Proc : RoundIsOfStage(d) /\ SignalsOfStage(d) /\ PipeTells(d)
  BY DEF Daemon!Init, RoundIsOfStage, SignalsOfStage, Catches, PipeTells
<1>4. \A c \in Cli : CommandKnows(c)
  BY DEF Daemon!Init, CommandKnows, Daemon!Idle, Daemon!Begun
<1>5. Smooth
  BY DEF Daemon!Init, Smooth, OneCommand, QuietAround, CommandAt, Quiet, OnlyServer,
       Daemon!Idle, Daemon!Begun
<1> QED
  BY <1>1, <1>2, <1>3, <1>4, <1>5 DEF DaemonInv

(* Most steps leave the file and the keys that were loaded alone, and start no write. *)
LEMMA OtherKeySteps ==
  ASSUME DaemonTypes, OneWriter, Daemon!OneIdentity, UNCHANGED <<hostkey, identity>>,
         \/ UNCHANGED pc
         \/ \E d \in Proc : \E label : label # "write" /\ Daemon!Goto(d, label)
  PROVE  OneWriter' /\ Daemon!OneIdentity'
BY DEF DaemonTypes, OneWriter, Daemon!OneIdentity, Daemon!Goto

LEMMA HostKeySteps ==
  ASSUME Daemon!NamesDiffer, DaemonTypes, OneWriter, Daemon!OneIdentity, NEW d \in Proc,
         Daemon!StatHostKey(d) \/ Daemon!CheckHostKey(d) \/ Daemon!CreateHostKey(d) \/
              Daemon!WriteHostKey(d)
  PROVE  OneWriter' /\ Daemon!OneIdentity'
<1>1. Daemon!FailTo(d) # "write" /\ Daemon!EnsuredTo(d) # "write"
  BY DEF Daemon!FailTo, Daemon!EnsuredTo
<1>2. CASE Daemon!StatHostKey(d) \/ Daemon!CheckHostKey(d)
  <2>1. UNCHANGED <<hostkey, identity>> /\ \E label : label # "write" /\ Daemon!Goto(d, label)
    BY <1>1, <1>2 DEF Daemon!StatHostKey, Daemon!CheckHostKey
  <2> QED
    BY <2>1, OtherKeySteps
<1>3. CASE Daemon!CreateHostKey(d)
  <2>1. CASE Daemon!MayCreate /\ hostkey' = "torn" /\ Daemon!Goto(d, "write")
    <3>1. hostkey = None /\ UNCHANGED identity
      BY <1>3, <2>1 DEF Daemon!CreateHostKey, Daemon!MayCreate
    <3>2. \A e \in Proc : identity[e] = None
      BY <3>1 DEF Daemon!OneIdentity
    <3>3. OneWriter'
      BY <2>1, <3>1 DEF DaemonTypes, OneWriter, Daemon!Goto, Daemon!NamesDiffer
    <3> QED
      BY <2>1, <3>1, <3>2, <3>3 DEF Daemon!OneIdentity, Daemon!Goto
  <2>2. CASE UNCHANGED hostkey /\ (Daemon!Goto(d, "check") \/ Daemon!Goto(d, Daemon!FailTo(d)))
    BY <1>1, <1>3, <2>2, OtherKeySteps DEF Daemon!CreateHostKey
  <2> QED
    BY <1>3, <2>1, <2>2 DEF Daemon!CreateHostKey
<1>4. CASE Daemon!WriteHostKey(d)
  <2>1. hostkey = "torn" /\ (\A e \in Proc : pc[e] = "write" => e = d) /\ UNCHANGED identity
    BY <1>4 DEF Daemon!WriteHostKey, OneWriter
  <2>2. \A e \in Proc : identity[e] = None
    BY <2>1 DEF DaemonTypes, Daemon!OneIdentity, Daemon!NamesDiffer
  <2>3. \E label : label # "write" /\ Daemon!Goto(d, label)
    BY <1>1, <1>4 DEF Daemon!WriteHostKey
  <2>4. OneWriter'
    BY <2>1, <2>3 DEF DaemonTypes, OneWriter, Daemon!Goto
  <2> QED
    BY <2>1, <2>2, <2>3, <2>4 DEF Daemon!OneIdentity, Daemon!Goto
<1> QED
  BY <1>2, <1>3, <1>4

(* A server loads only a whole key. *)
LEMMA LoadHostKeyStep ==
  ASSUME DaemonTypes, OneWriter, Daemon!OneIdentity, NEW d \in Proc, Daemon!LoadHostKey(d)
  PROVE  OneWriter' /\ Daemon!OneIdentity'
<1>1. CASE hostkey \in Proc
  BY <1>1 DEF Daemon!LoadHostKey, Daemon!Goto, DaemonTypes, OneWriter, Daemon!OneIdentity
<1>2. CASE hostkey \notin Proc
  BY <1>2, OtherKeySteps DEF Daemon!LoadHostKey
<1> QED
  BY <1>1, <1>2

LEMMA ServerKeySteps ==
  ASSUME Daemon!NamesDiffer, DaemonTypes, OneWriter, Daemon!OneIdentity, NEW d \in Proc,
         Daemon!ServerStep(d) \/ Daemon!SignalStep(d) \/ Daemon!Crash(d)
  PROVE  OneWriter' /\ Daemon!OneIdentity'
<1>1. CASE Daemon!StatHostKey(d) \/ Daemon!CheckHostKey(d) \/ Daemon!CreateHostKey(d) \/
     Daemon!WriteHostKey(d)
  BY <1>1, HostKeySteps
<1>2. CASE Daemon!LoadHostKey(d)
  BY <1>2, LoadHostKeyStep
<1>3. CASE Daemon!LoadConfig(d) \/ Daemon!CheckSettings(d) \/ Daemon!WritePid(d) \/
     Daemon!NotifySignals(d) \/ Daemon!RemovePid(d)
  BY <1>3, OtherKeySteps DEF Daemon!LoadConfig, Daemon!CheckSettings, Daemon!WritePid,
       Daemon!NotifySignals, Daemon!RemovePid
<1>4. CASE Daemon!Listen(d) \/ Daemon!Publish(d) \/ Daemon!Ready(d) \/ Daemon!Track(d)
  BY <1>4, OtherKeySteps DEF Daemon!Listen, Daemon!Publish, Daemon!Ready, Daemon!Track
<1>5. CASE Daemon!AcceptEnds(d) \/ Daemon!Drain(d)
  BY <1>5, OtherKeySteps DEF Daemon!AcceptEnds, Daemon!AfterAccept, Daemon!Drain
<1>6. CASE Daemon!ReportFailure(d) \/ Daemon!Exit(d) \/ Daemon!Crash(d)
  BY <1>6, OtherKeySteps DEF Daemon!ReportFailure, Daemon!Exit, Daemon!Crash, Daemon!DieNow
<1>7. CASE Daemon!SignalStep(d)
  BY <1>7, OtherKeySteps DEF Daemon!SignalStep, Daemon!MarkClosed, Daemon!CloseServing
<1> QED
  BY <1>1, <1>2, <1>3, <1>4, <1>5, <1>6, <1>7 DEF Daemon!ServerStep

(* A command touches a server only to start it, or to kill it. *)
LEMMA CommandKeySteps ==
  ASSUME DaemonTypes, OneWriter, Daemon!OneIdentity, NEW c \in Cli,
         Daemon!Call(c) \/ Daemon!CliStep(c) \/ Daemon!Return(c)
  PROVE  OneWriter' /\ Daemon!OneIdentity'
<1>1. CASE Daemon!Call(c) \/ Daemon!Return(c) \/ Daemon!ReadPid(c) \/ Daemon!DialPort(c) \/
     Daemon!Wait(c) \/ Daemon!StopReadPid(c)
           \/ Daemon!WaitExit(c) \/ Daemon!RemoveStopped(c)
  BY <1>1, OtherKeySteps DEF Daemon!Call, Daemon!Return, Daemon!ReadPid, Daemon!DialPort,
       Daemon!Wait, Daemon!StopReadPid, Daemon!WaitExit,
     Daemon!RemoveStopped
<1>2. CASE Daemon!Fork(c)
  BY <1>2, OtherKeySteps DEF Daemon!Fork
<1>3. CASE Daemon!SendTerm(c)
  <2>1. UNCHANGED <<hostkey, identity>>
    BY <1>3 DEF Daemon!SendTerm
  <2>2. UNCHANGED pc \/ pc' = [pc EXCEPT ![cli[c].target] = "dead"]
    BY <1>3 DEF Daemon!SendTerm, Daemon!DieNow, Daemon!Goto
  <2> QED
    BY <2>1, <2>2 DEF DaemonTypes, OneWriter, Daemon!OneIdentity
<1> QED
  BY <1>1, <1>2, <1>3 DEF Daemon!CliStep

-----------------------------------------------------------------------------
(* ServerDaemon: the steps of a server. *)

LEMMA MarkSteps ==
  ASSUME DaemonTypes, NEW d \in Proc,
         Daemon!Publish(d) \/ Daemon!Track(d) \/ Daemon!MarkClosed(d) \/ Daemon!CloseServing(d)
  PROVE  MarkTypes'
<1> USE DEF DaemonTypes, MarkTypes
<1>1. CASE Daemon!Publish(d)
  <2>1. CASE UNCHANGED mark
    BY <2>1
  <2>2. CASE mark' = [mark EXCEPT ![d].serving = TRUE]
    BY <2>2
  <2> QED
    BY <1>1, <2>1, <2>2 DEF Daemon!Publish
<1>2. CASE Daemon!Track(d)
  BY <1>2 DEF Daemon!Track
<1>3. CASE Daemon!MarkClosed(d)
  BY <1>3 DEF Daemon!MarkClosed
<1>4. CASE Daemon!CloseServing(d)
  BY <1>4 DEF Daemon!CloseServing
<1> QED
  BY <1>1, <1>2, <1>3, <1>4

LEMMA ServerTypeSteps ==
  ASSUME DaemonTypes, NEW d \in Proc, Daemon!ServerStep(d) \/ Daemon!SignalStep(d) \/
           Daemon!Crash(d)
  PROVE  DaemonTypes' /\ UNCHANGED cli
<1> USE DEF DaemonTypes, Labels, Daemon!Goto
<1>0. (UNCHANGED cli => CommandTypes') /\ (UNCHANGED mark => MarkTypes')
  BY DEF CommandTypes, MarkTypes
<1>1. CASE Daemon!StatHostKey(d) \/ Daemon!CheckHostKey(d) \/ Daemon!CreateHostKey(d) \/
     Daemon!WriteHostKey(d)
  BY <1>0, <1>1 DEF Daemon!StatHostKey, Daemon!FailTo, Daemon!CheckHostKey, Daemon!EnsuredTo,
       Daemon!CreateHostKey,
     Daemon!WriteHostKey
<1>2. CASE Daemon!LoadConfig(d) \/ Daemon!CheckSettings(d) \/ Daemon!WritePid(d) \/
     Daemon!NotifySignals(d) \/ Daemon!RemovePid(d)
  BY <1>0, <1>2 DEF Daemon!LoadConfig, Daemon!CheckSettings, Daemon!WritePid,
       Daemon!NotifySignals, Daemon!RemovePid
<1>3. CASE Daemon!LoadHostKey(d) \/ Daemon!Listen(d) \/ Daemon!Ready(d)
  BY <1>0, <1>3 DEF Daemon!LoadHostKey, Daemon!Listen, Daemon!Ready
<1>4. CASE Daemon!Publish(d) \/ Daemon!Track(d)
  BY <1>0, <1>4, MarkSteps DEF Daemon!Publish, Daemon!Track
<1>5. CASE Daemon!AcceptEnds(d) \/ Daemon!Drain(d)
  BY <1>0, <1>5 DEF Daemon!AcceptEnds, Daemon!AfterAccept, Daemon!Drain
<1>6. CASE Daemon!MarkClosed(d) \/ Daemon!CloseServing(d)
  BY <1>0, <1>6, MarkSteps DEF Daemon!MarkClosed, Daemon!CloseServing
<1>7. CASE Daemon!ReportFailure(d)
  BY <1>0, <1>7 DEF Daemon!ReportFailure, Daemon!FailPipe
<1>8. CASE Daemon!Exit(d) \/ Daemon!Crash(d)
  BY <1>0, <1>8 DEF Daemon!Exit, Daemon!DieNow, Daemon!Crash, Daemon!Alive
<1> QED
  BY <1>1, <1>2, <1>3, <1>4, <1>5, <1>6, <1>7, <1>8 DEF Daemon!ServerStep, Daemon!SignalStep

LEMMA ServerRoundSteps ==
  ASSUME DaemonTypes, NEW d \in Proc, Daemon!ServerStep(d) \/ Daemon!SignalStep(d) \/
           Daemon!Crash(d),
         NEW e \in Proc, RoundIsOfStage(e)
  PROVE  RoundIsOfStage(e)'
<1> USE DEF DaemonTypes, Daemon!Goto, RoundIsOfStage
<1>1. CASE Daemon!StatHostKey(d) \/ Daemon!CheckHostKey(d) \/ Daemon!CreateHostKey(d) \/
     Daemon!WriteHostKey(d)
  BY <1>1 DEF Daemon!StatHostKey, Daemon!FailTo, Daemon!CheckHostKey, Daemon!EnsuredTo,
       Daemon!CreateHostKey, Daemon!WriteHostKey
<1>2. CASE Daemon!LoadConfig(d) \/ Daemon!CheckSettings(d) \/ Daemon!WritePid(d) \/
     Daemon!NotifySignals(d) \/ Daemon!RemovePid(d)
  BY <1>2 DEF Daemon!LoadConfig, Daemon!CheckSettings, Daemon!WritePid, Daemon!NotifySignals,
       Daemon!RemovePid
<1>3. CASE Daemon!LoadHostKey(d) \/ Daemon!Listen(d) \/ Daemon!Ready(d)
  BY <1>3 DEF Daemon!LoadHostKey, Daemon!Listen, Daemon!Ready
<1>4. CASE Daemon!Publish(d) \/ Daemon!Track(d)
  BY <1>4 DEF Daemon!Publish, Daemon!Track
<1>5. CASE Daemon!AcceptEnds(d) \/ Daemon!Drain(d)
  BY <1>5 DEF Daemon!AcceptEnds, Daemon!AfterAccept, Daemon!Drain
<1>6. CASE Daemon!MarkClosed(d) \/ Daemon!CloseServing(d)
  BY <1>6 DEF Daemon!MarkClosed, Daemon!CloseServing
<1>7. CASE Daemon!ReportFailure(d)
  BY <1>7 DEF Daemon!ReportFailure
<1>8. CASE Daemon!Exit(d) \/ Daemon!Crash(d)
  BY <1>8 DEF Daemon!Exit, Daemon!DieNow, Daemon!Crash, Daemon!Alive
<1> QED
  BY <1>1, <1>2, <1>3, <1>4, <1>5, <1>6, <1>7, <1>8 DEF Daemon!ServerStep, Daemon!SignalStep

LEMMA ServerSignalSteps ==
  ASSUME DaemonTypes, NEW d \in Proc, Daemon!ServerStep(d) \/ Daemon!SignalStep(d) \/
           Daemon!Crash(d),
         NEW e \in Proc, RoundIsOfStage(e), SignalsOfStage(e)
  PROVE  SignalsOfStage(e)'
<1> USE DEF DaemonTypes, Daemon!Goto, RoundIsOfStage, SignalsOfStage, Catches
<1>1. CASE Daemon!StatHostKey(d) \/ Daemon!CheckHostKey(d) \/ Daemon!CreateHostKey(d) \/
     Daemon!WriteHostKey(d)
  BY <1>1 DEF Daemon!StatHostKey, Daemon!FailTo, Daemon!CheckHostKey, Daemon!EnsuredTo,
       Daemon!CreateHostKey, Daemon!WriteHostKey
<1>2. CASE Daemon!LoadConfig(d) \/ Daemon!CheckSettings(d) \/ Daemon!WritePid(d) \/
     Daemon!NotifySignals(d) \/ Daemon!RemovePid(d)
  BY <1>2 DEF Daemon!LoadConfig, Daemon!CheckSettings, Daemon!WritePid, Daemon!NotifySignals,
       Daemon!RemovePid
<1>3. CASE Daemon!LoadHostKey(d) \/ Daemon!Listen(d) \/ Daemon!Ready(d)
  BY <1>3 DEF Daemon!LoadHostKey, Daemon!Listen, Daemon!Ready
<1>4. CASE Daemon!Publish(d) \/ Daemon!Track(d)
  BY <1>4 DEF Daemon!Publish, Daemon!Track
<1>5. CASE Daemon!AcceptEnds(d) \/ Daemon!Drain(d)
  BY <1>5 DEF Daemon!AcceptEnds, Daemon!AfterAccept, Daemon!Drain
<1>6. CASE Daemon!MarkClosed(d) \/ Daemon!CloseServing(d)
  BY <1>6 DEF Daemon!MarkClosed, Daemon!CloseServing
<1>7. CASE Daemon!ReportFailure(d)
  BY <1>7 DEF Daemon!ReportFailure
<1>8. CASE Daemon!Exit(d) \/ Daemon!Crash(d)
  BY <1>8 DEF Daemon!Exit, Daemon!DieNow, Daemon!Crash, Daemon!Alive
<1> QED
  BY <1>1, <1>2, <1>3, <1>4, <1>5, <1>6, <1>7, <1>8 DEF Daemon!ServerStep, Daemon!SignalStep

LEMMA ServerPipeSteps ==
  ASSUME DaemonTypes, NEW d \in Proc, Daemon!ServerStep(d) \/ Daemon!SignalStep(d) \/
           Daemon!Crash(d),
         NEW e \in Proc, SignalsOfStage(e), PipeTells(e)
  PROVE  PipeTells(e)'
<1> USE DEF DaemonTypes, Daemon!Goto, SignalsOfStage, Catches, PipeTells
<1>1. CASE Daemon!StatHostKey(d) \/ Daemon!CheckHostKey(d) \/ Daemon!CreateHostKey(d) \/
     Daemon!WriteHostKey(d)
  BY <1>1 DEF Daemon!StatHostKey, Daemon!FailTo, Daemon!CheckHostKey, Daemon!EnsuredTo,
       Daemon!CreateHostKey, Daemon!WriteHostKey
<1>2. CASE Daemon!LoadConfig(d) \/ Daemon!CheckSettings(d) \/ Daemon!WritePid(d) \/
     Daemon!NotifySignals(d) \/ Daemon!RemovePid(d)
  BY <1>2 DEF Daemon!LoadConfig, Daemon!CheckSettings, Daemon!WritePid, Daemon!NotifySignals,
       Daemon!RemovePid
<1>3. CASE Daemon!LoadHostKey(d) \/ Daemon!Listen(d) \/ Daemon!Ready(d)
  BY <1>3 DEF Daemon!LoadHostKey, Daemon!Listen, Daemon!Ready
<1>4. CASE Daemon!Publish(d) \/ Daemon!Track(d)
  BY <1>4 DEF Daemon!Publish, Daemon!Track, MarkTypes
<1>5. CASE Daemon!AcceptEnds(d) \/ Daemon!Drain(d)
  BY <1>5 DEF Daemon!AcceptEnds, Daemon!AfterAccept, Daemon!Drain
<1>6. CASE Daemon!MarkClosed(d) \/ Daemon!CloseServing(d)
  BY <1>6 DEF Daemon!MarkClosed, Daemon!CloseServing, MarkTypes
<1>7. CASE Daemon!ReportFailure(d)
  BY <1>7 DEF Daemon!ReportFailure, Daemon!FailPipe
<1>8. CASE Daemon!Exit(d) \/ Daemon!Crash(d)
  BY <1>8 DEF Daemon!Exit, Daemon!DieNow, Daemon!Crash, Daemon!Alive
<1> QED
  BY <1>1, <1>2, <1>3, <1>4, <1>5, <1>6, <1>7, <1>8 DEF Daemon!ServerStep, Daemon!SignalStep

(* What a command knows of a server stays true of it. *)
Lasts(e) ==
  /\ pc[e] # "unborn" => pc'[e] # "unborn"
  /\ pc[e] = "dead" => pc'[e] = "dead"
  /\ mark[e].serving => mark'[e].serving
  /\ pc[e] \in {"exit", "dead"} => pc'[e] \in {"exit", "dead"} /\
       mark'[e].serving = mark[e].serving

LEMMA ServerLasts ==
  ASSUME DaemonTypes, NEW d \in Proc, Daemon!ServerStep(d) \/ Daemon!SignalStep(d) \/
           Daemon!Crash(d),
         NEW e \in Proc, SignalsOfStage(e)
  PROVE  Lasts(e)
<1> USE DEF DaemonTypes, Daemon!Goto, Lasts
<1>1. CASE Daemon!StatHostKey(d) \/ Daemon!CheckHostKey(d)
  BY <1>1 DEF Daemon!StatHostKey, Daemon!CheckHostKey, Daemon!FailTo, Daemon!EnsuredTo
<1>2. CASE Daemon!CreateHostKey(d) \/ Daemon!WriteHostKey(d)
  BY <1>2 DEF Daemon!CreateHostKey, Daemon!WriteHostKey, Daemon!FailTo, Daemon!EnsuredTo
<1>3. CASE Daemon!LoadConfig(d) \/ Daemon!CheckSettings(d) \/ Daemon!WritePid(d) \/
     Daemon!NotifySignals(d) \/ Daemon!RemovePid(d)
  BY <1>3 DEF Daemon!LoadConfig, Daemon!CheckSettings, Daemon!WritePid, Daemon!NotifySignals,
       Daemon!RemovePid
<1>4. CASE Daemon!LoadHostKey(d) \/ Daemon!Listen(d) \/ Daemon!Publish(d) \/ Daemon!Ready(d) \/
     Daemon!Track(d)
  BY <1>4 DEF Daemon!LoadHostKey, Daemon!Listen, Daemon!Publish, Daemon!Ready, Daemon!Track,
       MarkTypes
<1>5. CASE Daemon!AcceptEnds(d) \/ Daemon!Drain(d) \/ Daemon!ReportFailure(d)
  BY <1>5 DEF Daemon!AcceptEnds, Daemon!AfterAccept, Daemon!Drain, Daemon!ReportFailure
<1>6. CASE Daemon!SignalStep(d)
  BY <1>6 DEF Daemon!SignalStep, Daemon!MarkClosed, Daemon!CloseServing, MarkTypes
<1>7. CASE Daemon!Exit(d) \/ Daemon!Crash(d)
  BY <1>7 DEF Daemon!Exit, Daemon!Crash, Daemon!DieNow, Daemon!Alive
<1> QED
  BY <1>1, <1>2, <1>3, <1>4, <1>5, <1>6, <1>7 DEF Daemon!ServerStep

LEMMA KnowledgeLasts ==
  ASSUME NEW c \in Cli, CommandKnows(c), cli'[c] = cli[c], \A e \in Proc : Lasts(e)
  PROVE  CommandKnows(c)'
BY DEF CommandKnows, Lasts

(* A history stays clean only as long as no server fails on its own: what then can
   happen, the commands expect. *)
KeepsShape ==
  /\ Quiet => Quiet' /\ port' = port
  /\ \A e \in Proc : Starting(e) => Starting(e)'
  /\ \A e \in Proc : Stopping(e) => Stopping(e)'

(* The one server that is not at its end is the one that steps. *)
LEMMA OtherServersRest ==
  ASSUME DaemonTypes, \A e \in Proc : SignalsOfStage(e), NEW d \in Proc,
         Daemon!ServerStep(d) \/ Daemon!SignalStep(d), NEW x, OnlyServer(x), d # x
  PROVE  Daemon!Exit(d)
<1>1. pc[d] \in {"unborn", "exit", "dead"}
  BY DEF OnlyServer
<1>2. sig[d] = "default"
  BY <1>1 DEF SignalsOfStage, Catches
<1> QED
  BY <1>1, <1>2 DEF Daemon!ServerStep, Daemon!SignalStep, Daemon!MarkClosed,
       Daemon!CloseServing, Daemon!StatHostKey, Daemon!CheckHostKey,
     Daemon!CreateHostKey, Daemon!WriteHostKey, Daemon!LoadConfig, Daemon!CheckSettings,
          Daemon!WritePid, Daemon!NotifySignals, Daemon!LoadHostKey,
     Daemon!Listen, Daemon!Publish, Daemon!Ready, Daemon!Track, Daemon!AcceptEnds, Daemon!Drain,
          Daemon!RemovePid, Daemon!ReportFailure

LEMMA ExitKeepsShape ==
  ASSUME Daemon!NamesDiffer, DaemonTypes, NEW d \in Proc, Daemon!Exit(d)
  PROVE  KeepsShape
<1> USE DEF DaemonTypes, Daemon!Exit, Daemon!DieNow, Daemon!Goto
<1>1. Quiet => Quiet' /\ port' = port
  BY DEF Quiet, OnlyServer, Daemon!NamesDiffer
<1>2. ASSUME NEW e \in Proc, Starting(e) PROVE Starting(e)'
  BY <1>2 DEF Starting, OnlyServer, HasPid, HasPort, Daemon!NamesDiffer
<1>3. ASSUME NEW e \in Proc, Stopping(e) PROVE Stopping(e)'
  BY <1>3 DEF Stopping, OnlyServer, Daemon!NamesDiffer
<1> QED
  BY <1>1, <1>2, <1>3 DEF KeepsShape

(* A server that starts: the steps of RunServerOnly and ListenAndServe. *)
LEMMA StartingGoesOn ==
  ASSUME Daemon!NamesDiffer, DaemonTypes, NEW d \in Proc, Daemon!ServerStep(d) \/
           Daemon!SignalStep(d), smooth',
         RoundIsOfStage(d), SignalsOfStage(d), PipeTells(d), Starting(d)
  PROVE  Starting(d)'
<1> USE DEF DaemonTypes, Daemon!Goto, RoundIsOfStage, SignalsOfStage, Catches, PipeTells,
            Starting, OnlyServer, HasPid, HasPort, Daemon!NamesDiffer
<1>1. CASE Daemon!StatHostKey(d)
  BY <1>1 DEF Daemon!StatHostKey, Daemon!FailTo
<1>2. CASE Daemon!CheckHostKey(d)
  BY <1>2 DEF Daemon!CheckHostKey, Daemon!FailTo, Daemon!EnsuredTo
<1>3. CASE Daemon!CreateHostKey(d)
  BY <1>3 DEF Daemon!CreateHostKey, Daemon!FailTo
<1>4. CASE Daemon!WriteHostKey(d)
  BY <1>4 DEF Daemon!WriteHostKey, Daemon!FailTo, Daemon!EnsuredTo
<1>5. CASE Daemon!LoadConfig(d)
  BY <1>5 DEF Daemon!LoadConfig
<1>6. CASE Daemon!CheckSettings(d)
  BY <1>6 DEF Daemon!CheckSettings
<1>7. CASE Daemon!WritePid(d)
  BY <1>7 DEF Daemon!WritePid
<1>8. CASE Daemon!NotifySignals(d)
  BY <1>8 DEF Daemon!NotifySignals
<1>9. CASE Daemon!RemovePid(d)
  BY <1>9 DEF Daemon!RemovePid
<1>10. CASE Daemon!LoadHostKey(d)
  BY <1>10 DEF Daemon!LoadHostKey
<1>11. CASE Daemon!Listen(d)
  BY <1>11 DEF Daemon!Listen
<1>12. CASE Daemon!Publish(d)
  BY <1>12 DEF Daemon!Publish, MarkTypes
<1>13. CASE Daemon!Ready(d)
  BY <1>13 DEF Daemon!Ready
<1>14. CASE Daemon!Track(d)
  BY <1>14 DEF Daemon!Track, MarkTypes
<1>15. CASE Daemon!AcceptEnds(d)
  BY <1>15 DEF Daemon!AcceptEnds, Daemon!AfterAccept
<1>16. CASE Daemon!Drain(d)
  BY <1>16 DEF Daemon!Drain
<1>17. CASE Daemon!MarkClosed(d)
  BY <1>17 DEF Daemon!MarkClosed, MarkTypes
<1>18. CASE Daemon!CloseServing(d)
  BY <1>18 DEF Daemon!CloseServing, MarkTypes
<1>19. CASE Daemon!ReportFailure(d)
  BY <1>19 DEF Daemon!ReportFailure, Daemon!FailPipe
<1>20. CASE Daemon!Exit(d)
  BY <1>20 DEF Daemon!Exit, Daemon!DieNow
<1> QED
  BY <1>1, <1>2, <1>3, <1>4, <1>5, <1>6, <1>7, <1>8, <1>9, <1>10, <1>11, <1>12, <1>13, <1>14,
       <1>15, <1>16, <1>17, <1>18, <1>19, <1>20 DEF Daemon!ServerStep, Daemon!SignalStep

(* A server that was sent SIGTERM: the steps from Close on. *)
LEMMA StoppingGoesOn ==
  ASSUME Daemon!NamesDiffer, DaemonTypes, NEW d \in Proc, Daemon!ServerStep(d) \/
           Daemon!SignalStep(d), smooth',
         Stopping(d)
  PROVE  Stopping(d)'
<1> USE DEF DaemonTypes, Daemon!Goto, Stopping, OnlyServer, Daemon!NamesDiffer
<1>1. /\ ~Daemon!StatHostKey(d) /\ ~Daemon!CheckHostKey(d) /\ ~Daemon!CreateHostKey(d)
      /\ ~Daemon!WriteHostKey(d) /\ ~Daemon!LoadConfig(d) /\ ~Daemon!CheckSettings(d)
      /\ ~Daemon!WritePid(d) /\ ~Daemon!NotifySignals(d) /\ ~Daemon!LoadHostKey(d)
      /\ ~Daemon!Listen(d) /\ ~Daemon!Publish(d) /\ ~Daemon!Ready(d)
  BY DEF Daemon!StatHostKey, Daemon!CheckHostKey, Daemon!CreateHostKey, Daemon!WriteHostKey,
       Daemon!LoadConfig, Daemon!CheckSettings,
     Daemon!WritePid, Daemon!NotifySignals, Daemon!LoadHostKey, Daemon!Listen, Daemon!Publish,
          Daemon!Ready
<1>2. CASE Daemon!Track(d)
  BY <1>2 DEF Daemon!Track, MarkTypes
<1>3. CASE Daemon!AcceptEnds(d) \/ Daemon!Drain(d)
  BY <1>3 DEF Daemon!AcceptEnds, Daemon!AfterAccept, Daemon!Drain
<1>4. CASE Daemon!RemovePid(d) \/ Daemon!ReportFailure(d) \/ Daemon!Exit(d)
  BY <1>4 DEF Daemon!RemovePid, Daemon!ReportFailure, Daemon!Exit, Daemon!DieNow
<1>5. CASE Daemon!MarkClosed(d)
  BY <1>5 DEF Daemon!MarkClosed, MarkTypes
<1>6. CASE Daemon!CloseServing(d)
  BY <1>6 DEF Daemon!CloseServing, MarkTypes
<1> QED
  BY <1>1, <1>2, <1>3, <1>4, <1>5, <1>6 DEF Daemon!ServerStep, Daemon!SignalStep

LEMMA QuietGoesOn ==
  ASSUME Daemon!NamesDiffer, DaemonTypes, Daemon!ServerStep(port) \/ Daemon!SignalStep(port),
           smooth',
         port \in Proc, Quiet
  PROVE  Quiet' /\ port' = port
<1>1. pc[port] \in {"track", "accept"} /\ sig[port] = "idle" /\ ~mark[port].done /\ port # None
  BY DEF Quiet, Daemon!NamesDiffer
<1>2. ~Daemon!SignalStep(port)
  BY <1>1 DEF Daemon!SignalStep, Daemon!MarkClosed, Daemon!CloseServing
<1>3. ~Daemon!AcceptEnds(port)
  BY <1>1 DEF Daemon!AcceptEnds
<1>4. Daemon!Track(port)
  BY <1>1, <1>2, <1>3 DEF Daemon!ServerStep, Daemon!StatHostKey, Daemon!CheckHostKey,
     Daemon!CreateHostKey, Daemon!WriteHostKey, Daemon!LoadConfig, Daemon!CheckSettings,
          Daemon!WritePid, Daemon!NotifySignals, Daemon!LoadHostKey,
     Daemon!Listen, Daemon!Publish, Daemon!Ready, Daemon!Drain, Daemon!RemovePid,
          Daemon!ReportFailure, Daemon!Exit
<1>5. PICK d \in Proc : d = port
  OBVIOUS
<1> QED
  BY <1>1, <1>4, <1>5 DEF Daemon!Track, Daemon!Goto, DaemonTypes, MarkTypes, Quiet, OnlyServer

LEMMA ServerShapeSteps ==
  ASSUME Daemon!NamesDiffer, DaemonTypes, NEW d \in Proc, Daemon!ServerStep(d) \/
           Daemon!SignalStep(d), smooth',
         \A e \in Proc : RoundIsOfStage(e) /\ SignalsOfStage(e) /\ PipeTells(e)
  PROVE  KeepsShape
<1>1. CASE Daemon!Exit(d)
  BY <1>1, ExitKeepsShape
<1>2. CASE ~Daemon!Exit(d)
  <2>1. Quiet => Quiet' /\ port' = port
    <3> SUFFICES ASSUME Quiet PROVE Quiet' /\ port' = port
      OBVIOUS
    <3>1. port = d
      BY <1>2, OtherServersRest DEF Quiet
    <3> QED
      BY <3>1, QuietGoesOn
  <2>2. ASSUME NEW e \in Proc, Starting(e) PROVE Starting(e)'
    <3>1. e = d
      BY <1>2, <2>2, OtherServersRest DEF Starting
    <3> QED
      BY <2>2, <3>1, StartingGoesOn
  <2>3. ASSUME NEW e \in Proc, Stopping(e) PROVE Stopping(e)'
    <3>1. e = d
      BY <1>2, <2>3, OtherServersRest DEF Stopping
    <3> QED
      BY <2>3, <3>1, StoppingGoesOn
  <2> QED
    BY <2>1, <2>2, <2>3 DEF KeepsShape
<1> QED
  BY <1>1, <1>2

(* Once clean no more, never clean again; a crash ends it. *)
LEMMA SmoothIsPast ==
  ASSUME NEW d \in Proc, Daemon!ServerStep(d) \/ Daemon!SignalStep(d) \/ Daemon!Crash(d), smooth'
  PROVE  smooth /\ ~Daemon!Crash(d)
<1>1. ~Daemon!Crash(d)
  BY DEF Daemon!Crash
<1>2. smooth
  BY <1>1 DEF Daemon!ServerStep, Daemon!SignalStep, Daemon!MarkClosed, Daemon!CloseServing,
       Daemon!StatHostKey, Daemon!CheckHostKey,
     Daemon!CreateHostKey, Daemon!WriteHostKey, Daemon!LoadConfig, Daemon!CheckSettings,
          Daemon!WritePid, Daemon!NotifySignals, Daemon!LoadHostKey,
     Daemon!Listen, Daemon!Publish, Daemon!Ready, Daemon!Track, Daemon!AcceptEnds, Daemon!Drain,
          Daemon!RemovePid, Daemon!ReportFailure, Daemon!Exit
<1> QED
  BY <1>1, <1>2

LEMMA ServerSmoothSteps ==
  ASSUME DaemonTypes, \A c \in Cli : CommandKnows(c), Smooth, UNCHANGED cli, KeepsShape,
         \A e \in Proc : Lasts(e)
  PROVE  Smooth'
<1>1. OneCommand'
  BY DEF Smooth, OneCommand
<1>2. QuietAround'
  BY DEF Smooth, QuietAround, KeepsShape
<1>3. ASSUME NEW c \in Cli
      PROVE  CommandAt(c)'
  <2>1. CommandAt(c) /\ CommandKnows(c) /\ cli'[c] = cli[c]
    BY DEF Smooth
  <2>2. cli[c].at \in {"dial", "fork", "signal"} => port' = port
    BY DEF Smooth, OneCommand, QuietAround, KeepsShape
  <2>3. cli[c].at = "waiting" => cli[c].child \in Proc
    BY <2>1 DEF CommandKnows
  <2>4. cli[c].at \in {"waitExit", "removePid"} => cli[c].target \in Proc
    BY <2>1 DEF CommandKnows
  <2> QED
    BY <2>1, <2>2, <2>3, <2>4 DEF CommandAt, KeepsShape, Lasts
<1> QED
  BY <1>1, <1>2, <1>3 DEF Smooth

LEMMA ServerSteps ==
  ASSUME Daemon!NamesDiffer, DaemonInv, NEW d \in Proc, Daemon!ServerStep(d) \/
           Daemon!SignalStep(d) \/ Daemon!Crash(d)
  PROVE  DaemonInv'
<1> USE DEF DaemonInv
<1>1. DaemonTypes' /\ UNCHANGED cli
  BY ServerTypeSteps
<1>2. OneWriter' /\ Daemon!OneIdentity'
  BY ServerKeySteps
<1>3. \A e \in Proc : RoundIsOfStage(e)' /\ SignalsOfStage(e)' /\ PipeTells(e)'
  BY ServerRoundSteps, ServerSignalSteps, ServerPipeSteps
<1>4. \A e \in Proc : Lasts(e)
  BY ServerLasts
<1>5. \A c \in Cli : CommandKnows(c)'
  BY <1>1, <1>4, KnowledgeLasts
<1>6. smooth' => Smooth'
  <2> SUFFICES ASSUME smooth' PROVE Smooth'
    OBVIOUS
  <2>1. smooth /\ ~Daemon!Crash(d)
    BY SmoothIsPast
  <2>2. KeepsShape
    BY <2>1, ServerShapeSteps
  <2> QED
    BY <1>1, <1>4, <2>1, <2>2, ServerSmoothSteps
<1> QED
  BY <1>1, <1>2, <1>3, <1>5, <1>6

-----------------------------------------------------------------------------
(* ServerDaemon: the steps of a command. *)

(* What a step makes of a command. *)
Becomes(c, label, target, child, answer) ==
  /\ CommandTypes'
  /\ cli'[c].at = label /\ cli'[c].target = target
  /\ cli'[c].child = child /\ cli'[c].answer = answer
  /\ \A o \in Cli : o # c => cli'[o] = cli[o]

LEMMA Begins ==
  ASSUME CommandTypes, NEW c \in Cli, NEW op \in {"none", "start", "stop"}, NEW label \in Stands,
         cli' = [cli EXCEPT ![c] = Daemon!Begun(op, label)]
  PROVE  Becomes(c, label, None, None, "none")
<1>1. Daemon!Begun(op, label) \in [op : {"none", "start", "stop"}, at : Stands,
     target : Proc \cup {None},
                            child : Proc \cup {None}, answer : Answers]
  BY DEF Daemon!Begun, Answers
<1>2. /\ Daemon!Begun(op, label).at = label /\ Daemon!Begun(op, label).target = None
      /\ Daemon!Begun(op, label).child = None /\ Daemon!Begun(op, label).answer = "none"
  BY DEF Daemon!Begun
<1> QED
  BY <1>1, <1>2 DEF Becomes, CommandTypes

LEMMA Goes ==
  ASSUME CommandTypes, NEW c \in Cli, NEW label \in Stands, Daemon!CliGoto(c, label)
  PROVE  Becomes(c, label, cli[c].target, cli[c].child, cli[c].answer)
BY DEF Daemon!CliGoto, Becomes, CommandTypes

LEMMA AnswersWith ==
  ASSUME CommandTypes, NEW c \in Cli, NEW what \in Answers, Daemon!Answer(c, what)
  PROVE  Becomes(c, "answered", cli[c].target, cli[c].child, what)
BY DEF Daemon!Answer, Becomes, CommandTypes, Stands

LEMMA Forks ==
  ASSUME CommandTypes, NEW c \in Cli, NEW d \in Proc,
         cli' = [cli EXCEPT ![c].at = "waiting", ![c].child = d]
  PROVE  Becomes(c, "waiting", cli[c].target, d, cli[c].answer)
BY DEF Becomes, CommandTypes, Stands

LEMMA Targets ==
  ASSUME CommandTypes, NEW c \in Cli, NEW d \in Proc,
         cli' = [cli EXCEPT ![c].at = "signal", ![c].target = d]
  PROVE  Becomes(c, "signal", d, cli[c].child, cli[c].answer)
BY DEF Becomes, CommandTypes, Stands

LEMMA CommandTypeSteps ==
  ASSUME DaemonTypes, NEW c \in Cli, Daemon!Call(c) \/ Daemon!CliStep(c) \/ Daemon!Return(c),
           CommandTypes'
  PROVE  DaemonTypes'
<1> USE DEF DaemonTypes, Labels
<1>0. UNCHANGED mark => MarkTypes'
  BY DEF MarkTypes
<1>1. CASE Daemon!Call(c) \/ Daemon!Return(c) \/ Daemon!ReadPid(c) \/ Daemon!DialPort(c) \/
     Daemon!StopReadPid(c) \/ Daemon!Wait(c)
           \/ Daemon!WaitExit(c) \/ Daemon!RemoveStopped(c)
  BY <1>0, <1>1 DEF Daemon!Call, Daemon!Return, Daemon!ReadPid, Daemon!DialPort,
       Daemon!StopReadPid, Daemon!Wait, Daemon!WaitExit, Daemon!RemoveStopped
<1>2. CASE Daemon!Fork(c)
  BY <1>0, <1>2 DEF Daemon!Fork, Daemon!Goto
<1>3. CASE Daemon!SendTerm(c)
  <2>1. CASE UNCHANGED <<port, pc, sig, pipe>>
    BY <1>0, <1>3, <2>1 DEF Daemon!SendTerm
  <2>2. CASE UNCHANGED <<port, pc, pipe>> /\
       sig' = [sig EXCEPT ![cli[c].target] = IF @ = "idle" THEN "pending" ELSE @]
    BY <1>0, <1>3, <2>2 DEF Daemon!SendTerm
  <2>3. CASE Daemon!DieNow(cli[c].target)
    BY <1>0, <1>3, <2>3 DEF Daemon!SendTerm, Daemon!DieNow, Daemon!Goto
  <2> QED
    BY <1>3, <2>1, <2>2, <2>3 DEF Daemon!SendTerm
<1> QED
  BY <1>1, <1>2, <1>3 DEF Daemon!CliStep

(* A command forks a server, signals one or kills one; nothing else happens to it. *)
LEMMA CommandStageSteps ==
  ASSUME DaemonTypes, NEW c \in Cli, CommandKnows(c), Daemon!Call(c) \/ Daemon!CliStep(c) \/
           Daemon!Return(c),
         NEW e \in Proc, RoundIsOfStage(e), SignalsOfStage(e), PipeTells(e)
  PROVE  RoundIsOfStage(e)' /\ SignalsOfStage(e)' /\ PipeTells(e)' /\ Lasts(e)
<1> USE DEF DaemonTypes, RoundIsOfStage, SignalsOfStage, Catches, PipeTells, Lasts
<1>1. CASE Daemon!Call(c) \/ Daemon!Return(c) \/ Daemon!ReadPid(c) \/ Daemon!DialPort(c) \/
     Daemon!StopReadPid(c) \/ Daemon!Wait(c)
           \/ Daemon!WaitExit(c) \/ Daemon!RemoveStopped(c)
  <2>1. UNCHANGED <<pc, round, mark, sig, pipe>>
    BY <1>1 DEF Daemon!Call, Daemon!Return, Daemon!ReadPid, Daemon!DialPort, Daemon!StopReadPid,
         Daemon!Wait, Daemon!WaitExit, Daemon!RemoveStopped
  <2> QED
    BY <2>1
<1>2. CASE Daemon!Fork(c)
  BY <1>2 DEF Daemon!Fork, Daemon!Goto
<1>3. CASE Daemon!SendTerm(c)
  <2>1. PICK d \in Proc : d = cli[c].target
    BY <1>3 DEF Daemon!SendTerm, CommandKnows
  <2>2. UNCHANGED <<round, mark>>
    BY <1>3 DEF Daemon!SendTerm
  <2>3. CASE UNCHANGED <<pc, sig, pipe>>
    BY <2>2, <2>3
  <2>4. CASE sig[d] # "default" /\ sig' = [sig EXCEPT ![d] = IF @ = "idle" THEN "pending" ELSE @]
             /\ UNCHANGED <<pc, pipe>>
    BY <2>2, <2>4
  <2>5. CASE Daemon!Alive(d) /\ Daemon!DieNow(d)
    BY <2>2, <2>5 DEF Daemon!Alive, Daemon!DieNow, Daemon!Goto
  <2> QED
    BY <1>3, <2>1, <2>3, <2>4, <2>5 DEF Daemon!SendTerm
<1> QED
  BY <1>1, <1>2, <1>3 DEF Daemon!CliStep

(* In a clean history a command that is under way is the only one: what it finds. *)
Finds(c) ==
  /\ CommandAt(c)
  /\ cli[c].at \notin {"waiting", "waitExit", "removePid"} => Quiet

LEMMA Alone ==
  ASSUME DaemonInv, NEW c \in Cli, cli[c].at # "idle",
         \A o \in Cli : o # c => cli'[o] = cli[o],
         smooth' => smooth, smooth /\ smooth' /\ Finds(c) => Finds(c)'
  PROVE  smooth' => Smooth'
<1> SUFFICES ASSUME smooth' PROVE Smooth'
  OBVIOUS
<1>1. Smooth
  BY DEF DaemonInv
<1>2. \A o \in Cli : o # c => cli[o].at = "idle"
  BY <1>1 DEF Smooth, OneCommand
<1>3. Finds(c)
  BY <1>1, <1>2 DEF Finds, Smooth, QuietAround
<1>4. \A o \in Cli : o # c => cli'[o].at = "idle"
  BY <1>2
<1>5. Finds(c)'
  BY <1>1, <1>3 DEF DaemonInv
<1> QED
  BY <1>4, <1>5 DEF Smooth, OneCommand, QuietAround, CommandAt, Finds

(* What is left to show of a step of a command. *)
StepHolds(c) ==
  /\ CommandTypes'
  /\ CommandKnows(c)'
  /\ \A o \in Cli : o # c => cli'[o] = cli[o]
  /\ smooth' => Smooth'

(* A command begins only where all is quiet, or the history is clean no more. *)
LEMMA CallStep ==
  ASSUME DaemonInv, NEW c \in Cli, Daemon!Call(c)
  PROVE  StepHolds(c)
<1>1. PICK label \in {"readPid", "stopPid"} : Becomes(c, label, None, None, "none")
  <2>1. PICK op \in {"start", "stop"} :
          cli' = [cli EXCEPT ![c] = Daemon!Begun(op,
               IF op = "start" THEN "readPid" ELSE "stopPid")]
    BY DEF Daemon!Call
  <2>2. PICK label \in {"readPid", "stopPid"} : cli' = [cli EXCEPT ![c] = Daemon!Begun(op, label)]
    BY <2>1
  <2> QED
    BY <2>2, Begins DEF DaemonInv, DaemonTypes, Stands
<1>2. CommandKnows(c)'
  BY <1>1 DEF Becomes, CommandKnows
<1>3. ASSUME smooth' PROVE Smooth'
  <2>1. smooth /\ cli[c].at = "idle" /\ \A o \in Cli : o # c => cli[o].at = "idle"
    BY <1>3 DEF Daemon!Call
  <2>2. Quiet
    BY <2>1 DEF DaemonInv, Smooth, QuietAround
  <2>3. Quiet'
    BY <2>2 DEF Daemon!Call, Quiet, OnlyServer
  <2> QED
    BY <1>1, <2>1, <2>3 DEF Becomes, Smooth, OneCommand, QuietAround, CommandAt
<1> QED
  BY <1>1, <1>2, <1>3 DEF Becomes, StepHolds

(* Steps that touch no server. *)
LEMMA LookSteps ==
  ASSUME Daemon!NamesDiffer, DaemonInv, NEW c \in Cli,
         Daemon!ReadPid(c) \/ Daemon!DialPort(c) \/ Daemon!StopReadPid(c) \/ Daemon!Return(c)
  PROVE  StepHolds(c)
<1> USE DEF DaemonInv, DaemonTypes
<1>1. /\ cli[c].at \in {"readPid", "dial", "stopPid", "answered"} /\ smooth' = smooth
      /\ UNCHANGED <<pidfile, port, pc, round, mark, sig, pipe>>
  BY DEF Daemon!ReadPid, Daemon!DialPort, Daemon!StopReadPid, Daemon!Return
<1>2. Quiet => Quiet'
  BY <1>1 DEF Quiet, OnlyServer
<1>3. \/ Becomes(c, "dial", cli[c].target, cli[c].child, cli[c].answer)
           /\ cli[c].at = "readPid" /\ (pidfile = None \/ pc[pidfile] \in {"unborn", "dead"})
      \/ Becomes(c, "fork", cli[c].target, cli[c].child, cli[c].answer)
           /\ cli[c].at = "dial" /\ port = None
      \/ \E what \in {"running", "no pidfile"} :
           Becomes(c, "answered", cli[c].target, cli[c].child, what)
      \/ Becomes(c, "signal", pidfile, cli[c].child, cli[c].answer)
           /\ cli[c].at = "stopPid" /\ pidfile # None
      \/ Becomes(c, "idle", None, None, "none")
  <2>1. CASE Daemon!ReadPid(c)
    BY <2>1, Goes, AnswersWith DEF Daemon!ReadPid, Daemon!Alive, Stands, Answers
  <2>2. CASE Daemon!DialPort(c)
    BY <2>2, Goes, AnswersWith DEF Daemon!DialPort, Stands, Answers
  <2>3. CASE Daemon!StopReadPid(c)
    BY <2>3, Targets, AnswersWith DEF Daemon!StopReadPid, Answers
  <2>4. CASE Daemon!Return(c)
    BY <2>4, Begins DEF Daemon!Return, Daemon!Idle, Stands
  <2> QED
    BY <2>1, <2>2, <2>3, <2>4
<1>4. CommandKnows(c)'
  BY <1>1, <1>3 DEF Becomes, CommandKnows
<1>5. ASSUME smooth, Finds(c) PROVE Finds(c)'
  <2>1. Quiet /\ pidfile = port /\ (port # None => pc[port] \in {"track", "accept"})
    BY <1>1, <1>5 DEF Finds, Quiet
  <2> QED
    BY <1>1, <1>2, <1>3, <2>1 DEF Becomes, Finds, CommandAt
<1>6. smooth' => Smooth'
  BY <1>1, <1>3, <1>5, Alone DEF Becomes
<1> QED
  BY <1>3, <1>4, <1>6 DEF Becomes, StepHolds

LEMMA ForkStep ==
  ASSUME Daemon!NamesDiffer, DaemonInv, NEW c \in Cli, Daemon!Fork(c)
  PROVE  StepHolds(c)
<1> USE DEF DaemonInv, DaemonTypes
<1>1. CASE Daemon!Answer(c, "cannot fork") /\ UNCHANGED <<pipe, pc>>
  <2>1. Becomes(c, "answered", cli[c].target, cli[c].child, "cannot fork")
    BY <1>1, AnswersWith DEF Answers
  <2>2. CommandKnows(c)'
    BY <1>1, <2>1 DEF Daemon!Fork, Becomes, CommandKnows
  <2>3. Finds(c) => Finds(c)'
    BY <1>1, <2>1 DEF Daemon!Fork, Becomes, Finds, CommandAt, Quiet, OnlyServer
  <2> QED
    BY <2>1, <2>2, <2>3, Alone DEF Daemon!Fork, Becomes, StepHolds
<1>2. ASSUME NEW d \in Proc, pc[d] = "unborn", Daemon!Goto(d, "config"),
             pipe' = [pipe EXCEPT ![d] = "open"],
             cli' = [cli EXCEPT ![c].at = "waiting", ![c].child = d]
      PROVE  StepHolds(c)
  <2>1. Becomes(c, "waiting", cli[c].target, d, cli[c].answer)
    BY <1>2, Forks
  <2>2. pc'[d] = "config" /\ pipe'[d] = "open" /\ \A e \in Proc : e # d => pc'[e] = pc[e]
    BY <1>2 DEF Daemon!Goto
  <2>3. CommandKnows(c)'
    <3>1. cli'[c].answer = "none"
      BY <2>1 DEF Becomes, Daemon!Fork, CommandKnows
    <3> QED
      BY <2>1, <2>2, <3>1 DEF Becomes, CommandKnows
  <2>4. ASSUME Finds(c) PROVE Finds(c)'
    <3>1. Quiet /\ port = None
      BY <2>4 DEF Finds, Daemon!Fork, CommandAt
    <3>2. Starting(d)'
      <4>1. pidfile' = None /\ port' = None /\ sig'[d] = "default" /\ ~mark'[d].closed /\
           ~mark'[d].done
        BY <1>2, <3>1 DEF Daemon!Fork, Quiet, SignalsOfStage, Catches, PipeTells
      <4> QED
        BY <2>2, <3>1, <4>1 DEF Starting, Quiet, OnlyServer, HasPid, HasPort, Daemon!NamesDiffer
    <3> QED
      BY <2>1, <3>2 DEF Becomes, Finds, CommandAt
  <2> QED
    BY <2>1, <2>3, <2>4, Alone DEF Daemon!Fork, Becomes, StepHolds
<1> QED
  BY <1>1, <1>2 DEF Daemon!Fork

LEMMA WaitStep ==
  ASSUME Daemon!NamesDiffer, DaemonInv, NEW c \in Cli, Daemon!Wait(c)
  PROVE  StepHolds(c)
<1> USE DEF DaemonInv, DaemonTypes
<1>1. PICK d \in Proc : d = cli[c].child
  BY DEF Daemon!Wait, CommandKnows
<1>2. UNCHANGED <<pidfile, port, pc, round, mark, sig, pipe>> /\ cli[c].at = "waiting"
  BY DEF Daemon!Wait
<1>3. PICK what \in Answers :
        /\ Becomes(c, "answered", cli[c].target, d, what)
        /\ what = "failed" => pipe[d] = "failed"
        /\ what = "started" => pipe[d] \notin {"open", "failed"}
        /\ smooth' => smooth /\ pipe[d] # "open"
  <2>1. CASE pipe[d] = "failed" /\ Daemon!Answer(c, "failed") /\ UNCHANGED smooth
    BY <1>1, <2>1, AnswersWith DEF Answers
  <2>2. CASE pipe[d] \notin {"open", "failed"} /\ Daemon!Answer(c, "started") /\ UNCHANGED smooth
    BY <1>1, <2>2, AnswersWith DEF Answers
  <2>3. CASE pipe[d] = "open" /\ Daemon!Answer(c, "not ready") /\ ~smooth'
    BY <1>1, <2>3, AnswersWith DEF Answers
  <2> QED
    BY <1>1, <2>1, <2>2, <2>3 DEF Daemon!Wait
<1>4. CommandKnows(c)'
  <2>1. PipeTells(d) /\ pc[d] # "unborn"
    BY <1>1, <1>2 DEF CommandKnows
  <2> QED
    BY <1>2, <1>3, <2>1 DEF Becomes, CommandKnows, PipeTells
<1>5. ASSUME smooth', Finds(c) PROVE Finds(c)'
  <2>1. Starting(d) /\ pc[d] \in {"track", "accept", "exit", "dead"}
    BY <1>1, <1>2, <1>3, <1>5 DEF Finds, CommandAt, Starting
  <2>2. Quiet
    BY <2>1 DEF Starting, Quiet, OnlyServer, HasPid, HasPort, SignalsOfStage, Catches,
         Daemon!NamesDiffer
  <2>3. Quiet'
    BY <1>2, <2>2 DEF Quiet, OnlyServer
  <2> QED
    BY <1>3, <2>3 DEF Becomes, Finds, CommandAt
<1>6. smooth' => Smooth'
  BY <1>2, <1>3, <1>5, Alone DEF Becomes
<1> QED
  BY <1>3, <1>4, <1>6 DEF Becomes, StepHolds

(* SIGTERM, to a server that catches it or to one that does not. *)
LEMMA SendTermStep ==
  ASSUME Daemon!NamesDiffer, DaemonInv, NEW c \in Cli, Daemon!SendTerm(c)
  PROVE  StepHolds(c)
<1> USE DEF DaemonInv, DaemonTypes
<1>1. PICK d \in Proc : d = cli[c].target
  BY DEF Daemon!SendTerm, CommandKnows
<1>2. cli[c].at = "signal" /\ UNCHANGED <<pidfile, round, mark>> /\ (smooth' => smooth)
  <2>1. cli[c].at = "signal" /\ UNCHANGED <<pidfile, round, mark>>
    BY DEF Daemon!SendTerm
  <2>2. smooth' => smooth
    BY ZenonT(30) DEF Daemon!SendTerm
  <2> QED
    BY <2>1, <2>2
<1>3. PICK label \in {"answered", "waitExit"}, what \in {"cannot signal", "none"} :
        Becomes(c, label, d, cli[c].child, what) /\ (label = "waitExit" => what = "none")
  <2>1. CASE Daemon!Answer(c, "cannot signal")
    BY <1>1, <2>1, AnswersWith DEF Answers
  <2>2. CASE Daemon!CliGoto(c, "waitExit")
    <3>1. cli[c].answer = "none"
      BY <1>2 DEF CommandKnows
    <3> QED
      BY <1>1, <2>2, <3>1, Goes DEF Stands
  <2> QED
    BY <2>1, <2>2 DEF Daemon!SendTerm
<1>4. CommandKnows(c)'
  BY <1>1, <1>3 DEF Becomes, CommandKnows
<1>5. ASSUME smooth', Finds(c) PROVE Finds(c)'
  <2>1. Quiet /\ port = d /\ pc[d] \in {"track", "accept"} /\ sig[d] = "idle"
    BY <1>1, <1>2, <1>5 DEF Finds, CommandAt, Quiet, Daemon!NamesDiffer
  <2>2. Daemon!CliGoto(c, "waitExit") /\ UNCHANGED <<port, pc>>
    BY <1>1, <1>5, <2>1 DEF Daemon!SendTerm
  <2>3. Becomes(c, "waitExit", d, cli[c].child, cli[c].answer)
    BY <1>1, <2>2, Goes DEF Stands
  <2>4. Stopping(d)'
    BY <1>2, <2>1, <2>2 DEF Stopping, Quiet, OnlyServer, Daemon!NamesDiffer
  <2> QED
    BY <2>3, <2>4 DEF Becomes, Finds, CommandAt
<1>6. smooth' => Smooth'
  BY <1>2, <1>3, <1>5, Alone DEF Becomes
<1> QED
  BY <1>3, <1>4, <1>6 DEF Becomes, StepHolds

LEMMA WaitExitStep ==
  ASSUME Daemon!NamesDiffer, DaemonInv, NEW c \in Cli, Daemon!WaitExit(c)
  PROVE  StepHolds(c)
<1> USE DEF DaemonInv, DaemonTypes
<1>1. PICK d \in Proc : d = cli[c].target
  BY DEF Daemon!WaitExit, CommandKnows
<1>2. /\ cli[c].at = "waitExit" /\ UNCHANGED <<pidfile, port, pc, round, mark, sig, pipe>>
      /\ smooth' => smooth /\ pc[d] = "dead"
  BY <1>1 DEF Daemon!WaitExit
<1>3. Becomes(c, "removePid", d, cli[c].child, cli[c].answer)
  BY <1>1, Goes DEF Daemon!WaitExit, Stands
<1>4. CommandKnows(c)'
  BY <1>1, <1>2, <1>3 DEF Becomes, CommandKnows
<1>5. ASSUME smooth', Finds(c) PROVE Finds(c)'
  BY <1>1, <1>2, <1>3, <1>5 DEF Becomes, Finds, CommandAt, Stopping, OnlyServer
<1>6. smooth' => Smooth'
  BY <1>2, <1>3, <1>5, Alone DEF Becomes
<1> QED
  BY <1>3, <1>4, <1>6 DEF Becomes, StepHolds

LEMMA RemoveStoppedStep ==
  ASSUME Daemon!NamesDiffer, DaemonInv, NEW c \in Cli, Daemon!RemoveStopped(c)
  PROVE  StepHolds(c)
<1> USE DEF DaemonInv, DaemonTypes
<1>1. PICK d \in Proc : d = cli[c].target
  BY DEF Daemon!RemoveStopped, CommandKnows
<1>2. /\ cli[c].at = "removePid" /\ UNCHANGED <<port, pc, round, mark, sig, pipe, smooth>>
      /\ pidfile' = None
  BY <1>1 DEF Daemon!RemoveStopped
<1>3. Becomes(c, "answered", d, cli[c].child, "stopped")
  BY <1>1, AnswersWith DEF Daemon!RemoveStopped, Answers
<1>4. CommandKnows(c)'
  BY <1>1, <1>2, <1>3 DEF Becomes, CommandKnows
<1>5. ASSUME Finds(c) PROVE Finds(c)'
  <2>1. Stopping(d) /\ pc[d] = "dead"
    BY <1>1, <1>2, <1>5 DEF Finds, CommandAt
  <2>2. Quiet'
    BY <1>2, <2>1 DEF Stopping, Quiet, OnlyServer
  <2> QED
    BY <1>3, <2>2 DEF Becomes, Finds, CommandAt
<1>6. smooth' => Smooth'
  BY <1>2, <1>3, <1>5, Alone DEF Becomes
<1> QED
  BY <1>3, <1>4, <1>6 DEF Becomes, StepHolds

LEMMA CommandSteps ==
  ASSUME Daemon!NamesDiffer, DaemonInv, NEW c \in Cli, Daemon!Call(c) \/ Daemon!CliStep(c) \/
           Daemon!Return(c)
  PROVE  DaemonInv'
<1>1. StepHolds(c)
  BY CallStep, LookSteps, ForkStep, WaitStep, SendTermStep, WaitExitStep, RemoveStoppedStep
     DEF Daemon!CliStep
<1> USE DEF DaemonInv
<1>2. DaemonTypes'
  BY <1>1, CommandTypeSteps DEF StepHolds
<1>3. OneWriter' /\ Daemon!OneIdentity'
  BY CommandKeySteps
<1>4. \A e \in Proc : RoundIsOfStage(e)' /\ SignalsOfStage(e)' /\ PipeTells(e)' /\ Lasts(e)
  BY CommandStageSteps
<1>5. \A o \in Cli : CommandKnows(o)'
  BY <1>1, <1>4, KnowledgeLasts DEF StepHolds
<1> QED
  BY <1>1, <1>2, <1>3, <1>4, <1>5 DEF StepHolds

LEMMA DaemonNext == DaemonInv /\ [Daemon!Next]_daemonVars => DaemonInv'
<1> SUFFICES ASSUME DaemonInv, [Daemon!Next]_daemonVars PROVE DaemonInv'
  OBVIOUS
<1>1. CASE UNCHANGED daemonVars
  <2> USE <1>1 DEF daemonVars, DaemonInv
  <2>1. DaemonTypes' /\ OneWriter' /\ Daemon!OneIdentity'
    BY DEF DaemonTypes, CommandTypes, MarkTypes, OneWriter, Daemon!OneIdentity
  <2>2. \A d \in Proc : RoundIsOfStage(d)' /\ SignalsOfStage(d)' /\ PipeTells(d)'
    BY DEF RoundIsOfStage, SignalsOfStage, Catches, PipeTells
  <2>3. \A c \in Cli : CommandKnows(c)'
    BY DEF CommandKnows
  <2>4. ASSUME Smooth PROVE Smooth'
    <3>1. OneCommand' /\ QuietAround'
      BY <2>4 DEF Smooth, OneCommand, QuietAround, Quiet, OnlyServer
    <3>2. ASSUME NEW c \in Cli PROVE CommandAt(c)'
      BY <2>4 DEF Smooth, CommandAt, Starting, Stopping, OnlyServer, HasPid, HasPort
    <3> QED
      BY <3>1, <3>2 DEF Smooth
  <2> QED
    BY <2>1, <2>2, <2>3, <2>4
<1>2. Daemon!NamesDiffer
  BY ServersAreNoFiles
<1>3. ASSUME NEW d \in Proc, Daemon!ServerStep(d) \/ Daemon!SignalStep(d) \/ Daemon!Crash(d)
      PROVE  DaemonInv'
  BY <1>2, <1>3, ServerSteps
<1>4. ASSUME NEW c \in Cli, Daemon!Call(c) \/ Daemon!CliStep(c) \/ Daemon!Return(c)
      PROVE  DaemonInv'
  BY <1>2, <1>4, CommandSteps
<1> QED
  BY <1>1, <1>3, <1>4 DEF Daemon!Next

(* The inductive invariant of the daemon: where each server stands, what its pipe and the
   commands have heard, and what a clean history leaves behind (sshushd/daemon.go,
   control.go). *)
THEOREM DaemonInvariance == ServerSpec => []DaemonInv
<1>1. ServerInit => DaemonInv
  BY DaemonInit DEF ServerInit
<1>2. [ServerNext]_allVars => [Daemon!Next]_daemonVars
  BY DEF ServerNext, allVars, OnlyDaemon, OnlySessions, OnlyLog
<1> QED
  BY <1>1, <1>2, DaemonNext, SafetyOfSpec, PTL

(* The host key file and every server agree on the key clients see, whichever servers
   race, fail or crash (server/hostkey.go:15-22, :40-48). *)
THEOREM ClientsSeeOneIdentity == ServerSpec => []OneIdentity
<1>1. DaemonInv => OneIdentity
  BY DEF DaemonInv, OneIdentity
<1> QED
  BY <1>1, DaemonInvariance, PTL

(* After any clean history the pidfile names the one server there is, and whatever the
   history, a start that failed or succeeded says what became of its server
   (sshushd/daemon.go:182-187, control.go:105-110). *)
THEOREM CommandsAndServersAgree == ServerSpec => []CommandsAgreeWithServers
<1>1. DaemonInv => Daemon!QuietServerFound
  <2> SUFFICES ASSUME DaemonInv, smooth, \A c \in Cli : cli[c].at = "idle"
               PROVE  pidfile = port /\ \A d \in Proc : Daemon!Alive(d) => port = d \/
                        pc[d] = "exit"
    BY DEF Daemon!QuietServerFound
  <2>1. Quiet
    BY DEF DaemonInv, Smooth, QuietAround
  <2> QED
    BY <2>1 DEF Quiet, OnlyServer, Daemon!Alive
<1>2. DaemonInv => Daemon!StartServerReports
  BY DEF DaemonInv, CommandKnows, Daemon!StartServerReports
<1>3. DaemonInv => CommandsAgreeWithServers
  BY <1>1, <1>2 DEF CommandsAgreeWithServers, Daemon!CommandsAgreeWithServers
<1> QED
  BY <1>3, DaemonInvariance, PTL

-----------------------------------------------------------------------------
(* ConnectionLog: the notes and the log. *)

Texts == {"none", "ok", "algorithm", "locked out", "client left", "too many", "protocol"}

Tries ==
  [method : {"nothing", "none", "publickey", "password"}, key : Key \cup {NoKey},
   outcome : Texts, lockout : BOOLEAN]

LogRecords ==
  [what : {"opened", "offered", "lockout"}]
    \cup [what : {"accepted", "failed"}, method : {"nothing", "none", "publickey", "password"},
          key : Key \cup {NoKey}, reason : Texts]
    \cup [what : {"closed"}, authenticated : BOOLEAN, reason : Texts]

StateType ==
  state \in [offered : Key \cup {NoKey}, refusal : Texts, lockedOut : BOOLEAN,
             authenticated : BOOLEAN, failure : Texts, closed : BOOLEAN]

LogTypes ==
  /\ phase \in {"none", "handshake", "checked", "open", "failed"}
  /\ StateType
  /\ cache \in [key : Key \cup {NoKey}, good : BOOLEAN]
  /\ attempt \in Tries
  /\ log \in Seq(LogRecords)
  /\ truth \in Seq([tried : Tries, at : Nat])

(* What the checks noted is about the attempt that is to be logged: the key is that of
   the last check, or forgotten; what the guard said is forgotten with its password. *)
NotesFitAttempt ==
  /\ state.offered \in {cache.key, NoKey}
  /\ attempt.method = "publickey" /\ attempt.outcome # "algorithm" => attempt.key = cache.key
  /\ attempt.method = "password" =>
       /\ state.refusal =
            IF attempt.outcome \in {"ok", "none"} THEN "none" ELSE attempt.outcome
       /\ state.lockedOut <=> attempt.lockout
       /\ attempt.outcome \in {"ok", "none", "locked out", "client left"}
  /\ attempt.outcome = "client left" => state.closed
  /\ attempt.method # "password" => state.refusal = "none" /\ ~state.lockedOut /\ ~attempt.lockout
  /\ attempt.method = "none" => attempt.outcome = "none"
  /\ attempt.lockout => attempt.outcome # "ok"
  /\ phase # "checked" => attempt.method = "nothing"

(* How far the connection is shows in its log: until the sign-in is over, its end is the
   last thing recorded. *)
LogOfPhase ==
  /\ phase = "none" => log = <<>> /\ truth = <<>> /\ ~state.closed
  /\ ~state.closed => \A p \in 1..Len(log) : log[p].what # "closed"
  /\ state.closed /\ phase \in {"handshake", "checked"} =>
       Len(log) > 0 /\ log[Len(log)].what = "closed"
  /\ state.authenticated <=> \E p \in 1..Len(log) : log[p].what = "accepted"

Story ==
  LogOfPhase /\ Log!LogTellsTruth /\ Log!LockoutsFollowFailures /\ Log!EndAgreesWithSignIn
    /\ Log!LeftMeansEnded

LogInv == LogTypes /\ NotesFitAttempt /\ Story

LEMMA LogInit == Log!Init => LogInv
<1> SUFFICES ASSUME Log!Init PROVE LogInv
  OBVIOUS
<1>1. LogTypes
  BY DEF Log!Init, LogTypes, StateType, Tries, Texts, Log!Nothing, Log!Attempt
<1>2. NotesFitAttempt
  BY DEF Log!Init, NotesFitAttempt, Log!Nothing, Log!Attempt
<1>3. Story
  BY DEF Log!Init, Story, LogOfPhase, Log!LogTellsTruth, Log!LockoutsFollowFailures,
       Log!EndAgreesWithSignIn, Log!LeftMeansEnded, Log!Tried
<1> QED
  BY <1>1, <1>2, <1>3 DEF LogInv

(* The checks note something, and write nothing. *)
Checks ==
  \/ Log!AgentChanges \/ Log!OfferUnsupported \/ Log!TryPassword \/ Log!AskMethods \/
       Log!HandshakeFails
  \/ \E k \in Key, signed \in BOOLEAN : Log!OfferKey(k, signed)

LEMMA ChecksKeepStory ==
  ASSUME LogTypes, Story, Checks
  PROVE  Story'
<1>1. /\ UNCHANGED <<log, truth>>
      /\ UNCHANGED phase \/ (phase = "handshake" /\ phase' # "none")
  BY DEF Checks, Log!AgentChanges, Log!OfferUnsupported, Log!TryPassword, Log!AskMethods,
       Log!HandshakeFails, Log!OfferKey, Log!AfterAnswer
<1>2. state'.authenticated = state.authenticated /\ state'.closed = state.closed
  BY DEF Checks, Log!AgentChanges, Log!OfferUnsupported, Log!TryPassword, Log!AskMethods,
       Log!HandshakeFails, Log!OfferKey, LogTypes, StateType
<1>3. LogOfPhase'
  BY <1>1, <1>2 DEF Story, LogOfPhase
<1>4. log' = log /\ truth' = truth
  BY <1>1
<1>5. Log!LogTellsTruth'
  <2>1. Log!LogTellsTruth
    BY DEF Story
  <2> QED
    BY ONLY <2>1, <1>4 DEF Log!LogTellsTruth, Log!Tried
<1>6. Log!LockoutsFollowFailures'
  <2>1. Log!LockoutsFollowFailures
    BY DEF Story
  <2> QED
    BY ONLY <2>1, <1>4 DEF Log!LockoutsFollowFailures, Log!Tried
<1>7. Log!EndAgreesWithSignIn' /\ Log!LeftMeansEnded'
  <2>1. Log!EndAgreesWithSignIn /\ Log!LeftMeansEnded
    BY DEF Story
  <2> QED
    BY ONLY <2>1, <1>4 DEF Log!EndAgreesWithSignIn, Log!LeftMeansEnded, Log!SaysLeft
<1> QED
  BY <1>3, <1>5, <1>6, <1>7 DEF Story

(* What the checks make of the attempt and the notes. *)
LEMMA UncheckedAttempt ==
  ASSUME LogTypes, Log!OfferUnsupported \/ Log!AskMethods
  PROVE  /\ attempt' \in Tries /\ attempt'.method \in {"none", "publickey"}
         /\ attempt'.method = "publickey" => attempt'.outcome = "algorithm"
         /\ attempt'.method = "none" => attempt'.outcome = "none"
         /\ ~attempt'.lockout /\ attempt'.outcome # "client left"
         /\ UNCHANGED <<state, cache, log, truth>> /\ phase' = "checked"
<1>1. CASE Log!OfferUnsupported
  BY <1>1 DEF Log!OfferUnsupported, Log!Attempt, Tries, Texts
<1>2. CASE Log!AskMethods
  BY <1>2 DEF Log!AskMethods, Log!Attempt, Tries, Texts
<1> QED
  BY <1>1, <1>2

LEMMA PasswordAttempt ==
  ASSUME LogTypes, Log!TryPassword
  PROVE  /\ attempt' \in Tries /\ attempt'.method = "password"
         /\ attempt'.lockout => attempt'.outcome = "none"
         /\ attempt'.outcome \in {"ok", "none", "locked out", "client left"}
         /\ attempt'.outcome = "client left" => state.closed
         /\ StateType' /\ state'.offered = state.offered
         /\ state'.authenticated = state.authenticated /\ state'.closed = state.closed
         /\ state'.refusal =
              IF attempt'.outcome \in {"ok", "none"} THEN "none" ELSE attempt'.outcome
         /\ state'.lockedOut <=> attempt'.lockout
         /\ UNCHANGED <<cache, log, truth>> /\ phase' = "checked"
<1>1. PICK said \in Log!Verdicts, locks \in BOOLEAN :
        /\ locks => said = "none"
        /\ attempt' = Log!Attempt("password", NoKey, said, locks)
        /\ state' = [state EXCEPT !.refusal = IF said \in {"ok", "none"} THEN "none" ELSE said,
                                  !.lockedOut = locks]
  BY DEF Log!TryPassword
<1>0. said \in {"ok", "none", "locked out", "client left"} /\ (said = "client left" => state.closed)
  BY <1>1 DEF Log!Verdicts
<1>2. /\ attempt' \in Tries /\ attempt'.method = "password"
      /\ attempt'.outcome = said /\ attempt'.lockout = locks
  BY <1>0, <1>1 DEF Log!Attempt, Tries, Texts
<1>3. /\ StateType' /\ state'.offered = state.offered
      /\ state'.authenticated = state.authenticated /\ state'.closed = state.closed
      /\ state'.refusal = IF said \in {"ok", "none"} THEN "none" ELSE said
      /\ state'.lockedOut = locks
  BY <1>0, <1>1 DEF LogTypes, StateType, Texts
<1>4. UNCHANGED <<cache, log, truth>> /\ phase' = "checked"
  BY DEF Log!TryPassword
<1> QED
  BY <1>0, <1>1, <1>2, <1>3, <1>4

LEMMA KeyTried ==
  ASSUME NEW k \in Key, NEW what \in {"ok", "none"}, NEW lockout \in BOOLEAN, ~lockout,
         attempt' = Log!Attempt("publickey", k, what, lockout)
  PROVE  /\ attempt' \in Tries /\ attempt'.method = "publickey" /\ attempt'.key = k
         /\ ~attempt'.lockout /\ attempt'.outcome # "client left"
BY DEF Log!Attempt, Tries, Texts

(* A key is noted when it is checked; one whose answer is remembered is not, and then it
   is that of the last check. *)
LEMMA KeyAttempt ==
  ASSUME LogTypes, NEW k \in Key, NEW signed \in BOOLEAN, Log!OfferKey(k, signed)
  PROVE  /\ cache' \in [key : Key \cup {NoKey}, good : BOOLEAN] /\ cache'.key = k
         /\ StateType' /\ (state'.offered = k \/ (UNCHANGED state /\ cache.key = k))
         /\ /\ state'.authenticated = state.authenticated /\ state'.refusal = state.refusal
            /\ state'.lockedOut = state.lockedOut /\ state'.closed = state.closed
         /\ \/ phase' \in {"handshake", "failed"} /\ UNCHANGED attempt
            \/ /\ phase' = "checked" /\ attempt' \in Tries
               /\ attempt'.method = "publickey" /\ attempt'.key = k /\ ~attempt'.lockout
               /\ attempt'.outcome # "client left"
         /\ UNCHANGED <<log, truth>> /\ phase = "handshake"
<1>1. CASE cache.key # k
  <2>1. Log!Authorized(k) \in BOOLEAN
    BY DEF Log!Authorized
  <2>2. /\ state' = [state EXCEPT !.offered = k]
        /\ cache' = [key |-> k, good |-> Log!Authorized(k)]
    BY <1>1 DEF Log!OfferKey, Log!NoteOffered
  <2>3. \/ phase' \in {"handshake", "failed"} /\ UNCHANGED attempt
        \/ \E what \in {"ok", "none"}, lockout \in BOOLEAN :
             /\ ~lockout /\ phase' = "checked"
             /\ attempt' = Log!Attempt("publickey", k, what, lockout)
    BY <1>1 DEF Log!OfferKey, Log!AfterAnswer
  <2>4. \/ phase' \in {"handshake", "failed"} /\ UNCHANGED attempt
        \/ /\ phase' = "checked" /\ attempt' \in Tries
           /\ attempt'.method = "publickey" /\ attempt'.key = k /\ ~attempt'.lockout
           /\ attempt'.outcome # "client left"
    BY <2>3, KeyTried
  <2>5. StateType' /\ state'.offered = k /\ state'.authenticated = state.authenticated
        /\ state'.refusal = state.refusal /\ state'.lockedOut = state.lockedOut
        /\ state'.closed = state.closed
    BY <2>2 DEF LogTypes, StateType
  <2>6. UNCHANGED <<log, truth>> /\ phase = "handshake"
    BY DEF Log!OfferKey
  <2>7. cache' \in [key : Key \cup {NoKey}, good : BOOLEAN] /\ cache'.key = k
    BY <2>1, <2>2
  <2> QED
    BY <2>4, <2>5, <2>6, <2>7
<1>2. CASE cache.key = k
  <2>1. UNCHANGED state /\ cache' = [key |-> k, good |-> cache.good]
    BY <1>2 DEF Log!OfferKey
  <2>2. \/ phase' \in {"handshake", "failed"} /\ UNCHANGED attempt
        \/ \E what \in {"ok", "none"}, lockout \in BOOLEAN :
             /\ ~lockout /\ phase' = "checked"
             /\ attempt' = Log!Attempt("publickey", k, what, lockout)
    BY <1>2 DEF Log!OfferKey, Log!AfterAnswer
  <2>3. \/ phase' \in {"handshake", "failed"} /\ UNCHANGED attempt
        \/ /\ phase' = "checked" /\ attempt' \in Tries
           /\ attempt'.method = "publickey" /\ attempt'.key = k /\ ~attempt'.lockout
           /\ attempt'.outcome # "client left"
    BY <2>2, KeyTried
  <2>4. StateType' /\ cache.good \in BOOLEAN
    BY <2>1 DEF LogTypes, StateType
  <2>5. UNCHANGED <<log, truth>> /\ phase = "handshake"
    BY DEF Log!OfferKey
  <2> QED
    BY <1>2, <2>1, <2>3, <2>4, <2>5
<1> QED
  BY <1>1, <1>2

LEMMA ChecksKeepNotes ==
  ASSUME LogTypes, NotesFitAttempt, Checks
  PROVE  LogTypes' /\ NotesFitAttempt'
<1> USE DEF LogTypes, NotesFitAttempt
<1>0. UNCHANGED state => StateType'
  BY DEF StateType
<1>1. CASE Log!AgentChanges
  BY <1>0, <1>1 DEF Log!AgentChanges
<1>2. CASE Log!OfferUnsupported \/ Log!AskMethods
  <2>1. phase = "handshake"
    BY <1>2 DEF Log!OfferUnsupported, Log!AskMethods
  <2> QED
    BY <1>0, <1>2, <2>1, UncheckedAttempt
<1>3. CASE Log!TryPassword
  BY <1>3, PasswordAttempt
<1>4. CASE Log!HandshakeFails
  <2>1. StateType' /\ state'.offered = state.offered /\ state'.refusal = state.refusal
        /\ state'.lockedOut = state.lockedOut /\ state'.closed = state.closed
    BY <1>4 DEF Log!HandshakeFails, StateType, Texts
  <2> QED
    BY <1>4, <2>1 DEF Log!HandshakeFails
<1>5. ASSUME NEW k \in Key, NEW signed \in BOOLEAN, Log!OfferKey(k, signed)
      PROVE  LogTypes' /\ NotesFitAttempt'
  BY <1>5, KeyAttempt
<1> QED
  BY <1>1, <1>2, <1>3, <1>4, <1>5 DEF Checks

-----------------------------------------------------------------------------
(* ConnectionLog: what is written. *)

LEMMA AppendIs ==
  ASSUME NEW S, NEW s \in Seq(S), NEW e \in S
  PROVE  /\ Append(s, e) \in Seq(S) /\ Len(Append(s, e)) = Len(s) + 1 /\ Len(s) \in Nat
         /\ \A p \in 1..Len(s) : Append(s, e)[p] = s[p]
         /\ Append(s, e)[Len(s) + 1] = e
OBVIOUS

LEMMA ConcatIs ==
  ASSUME NEW S, NEW s \in Seq(S), NEW e \in S, NEW f \in S
  PROVE  /\ s \o (<<e>> \o <<>>) = Append(s, e)
         /\ s \o (<<e>> \o <<f>>) = Append(Append(s, e), f)
         /\ s \o <<e>> = Append(s, e)
OBVIOUS

(* The records of an attempt: its own, and that of the lockout it caused. *)
RecordOf ==
  IF attempt.method = "none" THEN [what |-> "offered"] ELSE Log!Record(attempt.outcome = "ok")

LEMMA RecordTells ==
  ASSUME LogTypes, NotesFitAttempt
  PROVE  /\ RecordOf \in LogRecords /\ Log!Tells(RecordOf, attempt)
         /\ RecordOf.what \in {"offered", "accepted", "failed"}
         /\ RecordOf.what = "accepted" <=> attempt.method # "none" /\ attempt.outcome = "ok"
<1> USE DEF LogTypes, NotesFitAttempt, StateType, Tries, Texts
<1>1. CASE attempt.method = "none"
  <2>1. RecordOf = [what |-> "offered"]
    BY <1>1 DEF RecordOf
  <2> QED
    BY <1>1, <2>1 DEF LogRecords, Log!Tells
<1>2. CASE attempt.method # "none" /\ attempt.outcome = "ok"
  <2>1. PICK k \in Key \cup {NoKey} :
          k = IF attempt.method = "publickey" THEN state.offered ELSE NoKey
    OBVIOUS
  <2>2. RecordOf = [what |-> "accepted", method |-> attempt.method, key |-> k, reason |-> "none"]
    BY <1>2, <2>1 DEF RecordOf, Log!Record
  <2> QED
    BY <1>2, <2>1, <2>2 DEF LogRecords, Log!Tells
<1>3. CASE attempt.method # "none" /\ attempt.outcome # "ok"
  <2>1. PICK k \in Key \cup {NoKey} :
          k = IF attempt.method = "publickey" THEN state.offered ELSE NoKey
    OBVIOUS
  <2>2. Log!Reason = attempt.outcome
    BY <1>3 DEF Log!Reason
  <2>3. RecordOf = [what |-> "failed", method |-> attempt.method, key |-> k,
       reason |-> attempt.outcome]
    BY <1>3, <2>1, <2>2 DEF RecordOf, Log!Record
  <2> QED
    BY <1>3, <2>1, <2>3 DEF LogRecords, Log!Tells
<1> QED
  BY <1>1, <1>2, <1>3

(* What logAuth makes of the log. *)
LEMMA LogAuthWrites ==
  ASSUME LogTypes, NotesFitAttempt, Log!LogAuth
  PROVE  /\ log' \in Seq(LogRecords) /\ Len(log) \in Nat
         /\ Len(log') = IF attempt.lockout THEN Len(log) + 2 ELSE Len(log) + 1
         /\ \A p \in 1..Len(log) : log'[p] = log[p]
         /\ log'[Len(log) + 1] = RecordOf
         /\ attempt.lockout => log'[Len(log) + 2].what = "lockout"
<1>1. RecordOf \in LogRecords
  BY RecordTells
<1>2. PICK f \in LogRecords : f = [what |-> "lockout"]
  BY DEF LogRecords
<1>3. log \in Seq(LogRecords)
  BY DEF LogTypes
<1>4. CASE attempt.lockout
  <2>1. attempt.method = "password" /\ attempt.outcome # "ok" /\ state.lockedOut
    BY <1>4 DEF NotesFitAttempt
  <2>2. log' = log \o (<<RecordOf>> \o <<f>>)
    BY <1>2, <2>1 DEF Log!LogAuth, Log!Records, RecordOf
  <2>3. log' = Append(Append(log, RecordOf), f)
    BY <1>1, <1>2, <1>3, <2>2, ConcatIs
  <2>4. f.what = "lockout"
    BY <1>2
  <2> QED
    BY <1>1, <1>3, <1>4, <2>3, <2>4, AppendIs
<1>5. CASE ~attempt.lockout
  <2>1. ~(attempt.outcome # "ok" /\ attempt.method = "password" /\ state.lockedOut)
    BY <1>5 DEF NotesFitAttempt
  <2>2. log' = log \o (<<RecordOf>> \o <<>>) \/ log' = log \o <<RecordOf>>
    BY <2>1 DEF Log!LogAuth, Log!Records, RecordOf
  <2>3. log' = Append(log, RecordOf)
    BY <1>1, <1>2, <1>3, <2>2, ConcatIs
  <2> QED
    BY <1>1, <1>3, <1>5, <2>3, AppendIs
<1> QED
  BY <1>4, <1>5

LEMMA TruthGrows ==
  ASSUME LogTypes, Log!LogAuth
  PROVE  /\ truth' \in Seq([tried : Tries, at : Nat]) /\ Len(truth) \in Nat
         /\ Len(truth') = Len(truth) + 1
         /\ \A i \in 1..Len(truth) : truth'[i] = truth[i]
         /\ truth'[Len(truth) + 1].at = Len(log) + 1
         /\ truth'[Len(truth) + 1].tried = attempt
<1>0. Len(log) + 1 \in Nat /\ attempt \in Tries
  BY DEF LogTypes
<1>1. PICK e \in [tried : Tries, at : Nat] : e = [tried |-> attempt, at |-> Len(log) + 1]
  BY <1>0
<1>2. truth' = Append(truth, e)
  BY <1>1 DEF Log!LogAuth
<1> QED
  BY <1>1, <1>2, AppendIs DEF LogTypes

LEMMA LogAuthTypes ==
  ASSUME LogTypes, NotesFitAttempt, Log!LogAuth
  PROVE  LogTypes' /\ NotesFitAttempt' /\ (state'.authenticated <=> state.authenticated \/
           attempt.outcome = "ok") /\ state'.closed = state.closed
<1>1. /\ StateType' /\ state'.offered \in {state.offered, NoKey}
      /\ state'.authenticated <=> state.authenticated \/ attempt.outcome = "ok"
      /\ state'.refusal = "none" /\ ~state'.lockedOut /\ state'.closed = state.closed
  <2>1. Log!Forget(attempt.method) \in [offered : Key \cup {NoKey}, refusal : Texts,
       lockedOut : BOOLEAN,
                                    authenticated : BOOLEAN, failure : Texts, closed : BOOLEAN]
        /\ Log!Forget(attempt.method).closed = state.closed
        /\ Log!Forget(attempt.method).offered \in {state.offered, NoKey}
        /\ Log!Forget(attempt.method).authenticated = state.authenticated
        /\ Log!Forget(attempt.method).refusal = "none" /\ ~Log!Forget(attempt.method).lockedOut
    BY DEF Log!Forget, LogTypes, StateType, NotesFitAttempt, Texts
  <2>2. PICK ok \in BOOLEAN : ok <=> attempt.outcome = "ok"
    OBVIOUS
  <2>3. state' = [Log!Forget(attempt.method) EXCEPT !.authenticated = @ \/ attempt.outcome = "ok"]
    BY DEF Log!LogAuth
  <2> QED
    BY <2>1, <2>2, <2>3 DEF StateType
<1>2. attempt' \in Tries /\ attempt'.method = "nothing" /\ ~attempt'.lockout /\ UNCHANGED cache
      /\ attempt'.outcome = "none"
  BY DEF Log!LogAuth, Log!Nothing, Log!Attempt, Tries, Texts
<1>3. phase' \in {"open", "handshake", "failed"}
  BY DEF Log!LogAuth, Log!AfterAnswer
<1> QED
  BY <1>1, <1>2, <1>3, LogAuthWrites, TruthGrows DEF LogTypes, NotesFitAttempt

LEMMA LogAuthStory ==
  ASSUME LogTypes, NotesFitAttempt, Story, Log!LogAuth
  PROVE  Story'
<1> DEFINE n == Len(log)
           m == Len(truth)
<1>1. /\ n \in Nat /\ Len(log') = IF attempt.lockout THEN n + 2 ELSE n + 1
      /\ \A p \in 1..n : log'[p] = log[p]
      /\ log'[n + 1] = RecordOf
      /\ attempt.lockout => log'[n + 2].what = "lockout"
  BY LogAuthWrites
<1>2. /\ m \in Nat /\ Len(truth') = m + 1
      /\ \A i \in 1..m : truth'[i] = truth[i]
      /\ truth'[m + 1].at = n + 1 /\ truth'[m + 1].tried = attempt
  BY TruthGrows
<1>3. \A i \in 1..m : truth[i].at \in 1..n /\ Log!Tells(log[truth[i].at], truth[i].tried)
  BY DEF Story, Log!LogTellsTruth, Log!Tried
<1>4. /\ Log!Tells(RecordOf, attempt) /\ RecordOf.what \in {"offered", "accepted", "failed"}
      /\ RecordOf.what = "accepted" <=> attempt.method # "none" /\ attempt.outcome = "ok"
  BY RecordTells
<1>5. Log!LogTellsTruth'
  <2>1. ASSUME NEW i \in 1..(m + 1)
        PROVE  truth'[i].at \in 1..Len(log') /\ Log!Tells(log'[truth'[i].at], truth'[i].tried)
    <3>1. CASE i \in 1..m
      BY <1>1, <1>2, <1>3, <3>1
    <3>2. CASE i = m + 1
      BY <1>1, <1>2, <1>4, <3>2
    <3> QED
      BY <1>2, <3>1, <3>2
  <2>2. ASSUME NEW i \in 1..(m + 1), NEW j \in 1..(m + 1), i < j
        PROVE  truth'[i].at < truth'[j].at
    <3>1. i \in 1..m /\ (j \in 1..m \/ j = m + 1)
      BY <1>2, <2>2
    <3> QED
      BY <1>1, <1>2, <1>3, <2>2, <3>1 DEF Story, Log!LogTellsTruth, Log!Tried
  <2>3. ASSUME NEW p \in 1..Len(log'), log'[p].what \in {"accepted", "failed", "offered"}
        PROVE  \E i \in 1..(m + 1) : truth'[i].at = p
    <3>1. p \in 1..n \/ p = n + 1
      BY <1>1, <2>3
    <3>2. CASE p \in 1..n
      <4>1. PICK i \in 1..m : truth[i].at = p
        BY <1>1, <2>3, <3>2 DEF Story, Log!LogTellsTruth, Log!Tried
      <4> QED
        BY <1>2, <4>1
    <3> QED
      BY <1>2, <3>1, <3>2
  <2> QED
    BY <1>2, <2>1, <2>2, <2>3 DEF Log!LogTellsTruth, Log!Tried
<1>6. Log!LockoutsFollowFailures'
  <2>1. ASSUME NEW i \in 1..(m + 1), truth'[i].tried.lockout
        PROVE  truth'[i].at < Len(log') /\ log'[truth'[i].at + 1].what = "lockout"
    <3>1. CASE i \in 1..m
      <4>1. truth[i].at < n /\ log[truth[i].at + 1].what = "lockout"
        BY <1>2, <2>1, <3>1 DEF Story, Log!LockoutsFollowFailures, Log!Tried
      <4>2. PICK q \in 1..n : q = truth[i].at + 1
        BY <1>1, <1>3, <3>1, <4>1
      <4>3. log'[q].what = "lockout" /\ q =< n /\ truth'[i].at = truth[i].at
        BY <1>1, <1>2, <3>1, <4>1, <4>2
      <4>4. truth[i].at < Len(log')
        BY <1>1, <1>3, <3>1, <4>1
      <4> QED
        BY <4>2, <4>3, <4>4
    <3>2. CASE i = m + 1
      BY <1>1, <1>2, <2>1, <3>2
    <3> QED
      BY <1>2, <3>1, <3>2
  <2>2. ASSUME NEW p \in 1..Len(log'), log'[p].what = "lockout"
        PROVE  \E i \in 1..(m + 1) :
                 /\ truth'[i].at + 1 = p /\ truth'[i].tried.lockout
                 /\ truth'[i].tried.method = "password" /\ truth'[i].tried.outcome # "ok"
    <3>1. p \in 1..n \/ (p = n + 2 /\ attempt.lockout)
      BY <1>1, <1>4, <2>2
    <3>2. CASE p \in 1..n
      <4>1. PICK i \in 1..m :
               /\ truth[i].at + 1 = p /\ truth[i].tried.lockout
               /\ truth[i].tried.method = "password" /\ truth[i].tried.outcome # "ok"
        BY <1>1, <2>2, <3>2 DEF Story, Log!LockoutsFollowFailures, Log!Tried
      <4> QED
        BY <1>2, <4>1
    <3>3. CASE p = n + 2 /\ attempt.lockout
      <4>1. attempt.method = "password" /\ attempt.outcome # "ok"
        BY <3>3 DEF NotesFitAttempt
      <4> QED
        BY <1>1, <1>2, <3>3, <4>1
    <3> QED
      BY <3>1, <3>2, <3>3
  <2> QED
    BY <1>2, <2>1, <2>2 DEF Log!LockoutsFollowFailures, Log!Tried
<1>7. /\ ~state.closed => \A p \in 1..n : log[p].what # "closed"
      /\ state.closed => n > 0 /\ log[n].what = "closed"
  BY DEF Log!LogAuth, Story, LogOfPhase
<1>8. Log!EndAgreesWithSignIn'
  <2> SUFFICES ASSUME NEW i \in 1..Len(log'), log'[i].what = "closed"
               PROVE  /\ log'[i].authenticated <=> \E j \in 1..(i - 1) : log'[j].what = "accepted"
                      /\ \A p \in (i + 1)..Len(log') :
                           \/ p = i + 1 /\ log'[p].what \in {"accepted", "failed", "offered"}
                           \/ p = i + 2 /\ log'[p].what = "lockout"
    BY DEF Log!EndAgreesWithSignIn
  <2>1. i \in 1..n
    BY <1>1, <1>4
  <2>2. log[i].what = "closed" /\ state.closed
    BY <1>1, <1>7, <2>1
  <2>3. i = n
    <3>1. \A p \in (i + 1)..n : log[p].what # "closed"
      BY <2>1, <2>2 DEF Story, Log!EndAgreesWithSignIn
    <3> QED
      BY <1>1, <1>7, <2>1, <2>2, <3>1
  <2>4. log'[i].authenticated <=> \E j \in 1..(i - 1) : log'[j].what = "accepted"
    <3>1. log[i].authenticated <=> \E j \in 1..(i - 1) : log[j].what = "accepted"
      BY <2>1, <2>2 DEF Story, Log!EndAgreesWithSignIn
    <3> QED
      BY <1>1, <2>1, <3>1
  <2> QED
    BY <1>1, <1>4, <2>3, <2>4
<1>9. LogOfPhase'
  <2>1. state'.authenticated <=> \E p \in 1..Len(log') : log'[p].what = "accepted"
    <3>1. state'.authenticated <=> state.authenticated \/ attempt.outcome = "ok"
      BY LogAuthTypes
    <3>2. state.authenticated <=> \E p \in 1..n : log[p].what = "accepted"
      BY DEF Story, LogOfPhase
    <3>3. attempt.outcome = "ok" => attempt.method # "none"
      BY DEF NotesFitAttempt
    <3> QED
      BY <1>1, <1>4, <3>1, <3>2, <3>3
  <2>2. /\ phase' \in {"open", "handshake", "failed"}
        /\ state.closed => phase' = "failed"
    BY DEF Log!LogAuth, Log!AfterAnswer
  <2>3. state'.closed = state.closed
    BY LogAuthTypes
  <2>4. ~state.closed => \A p \in 1..Len(log') : log'[p].what # "closed"
    BY <1>1, <1>4, <1>7
  <2> QED
    BY <2>1, <2>2, <2>3, <2>4 DEF LogOfPhase
<1>10. Log!LeftMeansEnded'
  <2> SUFFICES ASSUME NEW p \in 1..Len(log'), Log!SaysLeft(log'[p])
               PROVE  \E i \in 1..Len(log') : p = i + 1 /\ log'[i].what = "closed"
    BY DEF Log!LeftMeansEnded
  <2>1. CASE p \in 1..n
    <3>1. PICK i \in 1..n : p = i + 1 /\ log[i].what = "closed"
      BY <1>1, <2>1 DEF Story, Log!LeftMeansEnded
    <3> QED
      BY <1>1, <3>1
  <2>2. CASE p = n + 1
    <3>1. RecordOf.what = "failed" /\ RecordOf.reason = "client left"
      BY <1>1, <2>2 DEF Log!SaysLeft
    <3>2. attempt.outcome = "client left"
      BY <1>4, <3>1 DEF Log!Tells
    <3>3. state.closed
      BY <3>2 DEF NotesFitAttempt
    <3>4. n \in 1..n /\ log'[n].what = "closed"
      BY <1>1, <1>7, <3>3
    <3> QED
      BY <1>1, <2>2, <3>4
  <2>3. p # n + 2
    <3>1. p = n + 2 => attempt.lockout
      BY <1>1
    <3> QED
      BY <1>1, <3>1 DEF Log!SaysLeft
  <2> QED
    BY <1>1, <2>1, <2>2, <2>3
<1> QED
  BY <1>5, <1>6, <1>8, <1>9, <1>10 DEF Story

(* onConnect and loggedConn.Close write a record of no attempt. *)
LEMMA OpenStep ==
  ASSUME LogInv, Log!Open
  PROVE  LogInv'
<1>1. log = <<>> /\ truth = <<>> /\ UNCHANGED <<state, cache, attempt, truth>> /\ phase = "none"
      /\ phase' = "handshake"
  BY DEF Log!Open, LogInv, Story, LogOfPhase
<1>2. PICK e \in LogRecords : e = [what |-> "opened"] /\ log' = <<e>>
  BY DEF Log!Open, LogRecords
<1>3. Len(log') = 1 /\ log'[1].what = "opened" /\ log' \in Seq(LogRecords)
  BY <1>2
<1>4. LogTypes' /\ NotesFitAttempt'
  BY <1>1, <1>3 DEF LogInv, LogTypes, StateType, NotesFitAttempt
<1>5. Len(truth) = 0 /\ Len(log) = 0
  BY <1>1
<1>6. /\ LogOfPhase' /\ Log!LogTellsTruth' /\ Log!LockoutsFollowFailures'
      /\ Log!EndAgreesWithSignIn'
  BY <1>1, <1>3, <1>5 DEF LogInv, Story, LogOfPhase, Log!LogTellsTruth,
       Log!LockoutsFollowFailures, Log!EndAgreesWithSignIn, Log!Tried
<1>7. Log!LeftMeansEnded'
  <2>1. ~Log!SaysLeft(log'[1])
    BY <1>3 DEF Log!SaysLeft
  <2> QED
    BY <1>3, <2>1 DEF Log!LeftMeansEnded
<1> QED
  BY <1>4, <1>6, <1>7 DEF LogInv, Story

LEMMA EndRecordIs ==
  ASSUME LogTypes
  PROVE  /\ Log!EndRecord \in LogRecords /\ Log!EndRecord.what = "closed"
         /\ Log!EndRecord.authenticated = state.authenticated
<1>1. PICK why \in Texts : why = IF state.authenticated THEN "none" ELSE state.failure
  BY DEF LogTypes, StateType, Texts
<1>2. Log!EndRecord = [what |-> "closed", authenticated |-> state.authenticated, reason |-> why]
  BY <1>1 DEF Log!EndRecord
<1> QED
  BY <1>1, <1>2 DEF LogTypes, StateType, LogRecords

LEMMA CloseStep ==
  ASSUME LogInv, Log!Close
  PROVE  LogInv'
<1> DEFINE n == Len(log)
<1>1. /\ UNCHANGED <<phase, cache, attempt, truth>> /\ phase # "none" /\ ~state.closed
      /\ state' = [state EXCEPT !.closed = TRUE]
      /\ log' = Append(log, Log!EndRecord)
  BY DEF Log!Close
<1>2. /\ log' \in Seq(LogRecords) /\ Len(log') = n + 1 /\ n \in Nat
      /\ \A p \in 1..n : log'[p] = log[p]
      /\ log'[n + 1] = Log!EndRecord
  BY <1>1, AppendIs, EndRecordIs DEF LogInv, LogTypes
<1>3. /\ StateType' /\ state'.closed /\ state'.offered = state.offered
      /\ state'.refusal = state.refusal /\ state'.lockedOut = state.lockedOut
      /\ state'.authenticated = state.authenticated
  BY <1>1 DEF LogInv, LogTypes, StateType
<1>4. LogTypes' /\ NotesFitAttempt'
  BY <1>1, <1>2, <1>3 DEF LogInv, LogTypes, NotesFitAttempt
<1>5. Log!LogTellsTruth'
  BY <1>1, <1>2, EndRecordIs DEF LogInv, Story, Log!LogTellsTruth, Log!Tried
<1>6. Log!LockoutsFollowFailures'
  BY <1>1, <1>2, EndRecordIs DEF LogInv, Story, Log!LogTellsTruth, Log!LockoutsFollowFailures,
       Log!Tried
<1>7. /\ \A p \in 1..n : log[p].what # "closed"
      /\ state.authenticated <=> \E p \in 1..n : log[p].what = "accepted"
  BY <1>1 DEF LogInv, Story, LogOfPhase
<1>8. Log!EndAgreesWithSignIn'
  BY <1>2, <1>7, EndRecordIs DEF LogInv, Log!EndAgreesWithSignIn
<1>9. LogOfPhase'
  BY <1>1, <1>2, <1>3, <1>7, EndRecordIs DEF LogInv, LogOfPhase
<1>10. Log!LeftMeansEnded'
  <2>1. ~Log!SaysLeft(log'[n + 1])
    BY <1>2, EndRecordIs DEF LogInv, Log!SaysLeft
  <2>2. \A p \in 1..n : Log!SaysLeft(log[p]) => \E i \in 1..n : p = i + 1 /\ log[i].what = "closed"
    BY DEF LogInv, Story, Log!LeftMeansEnded
  <2>3. ASSUME NEW p \in 1..(n + 1), Log!SaysLeft(log'[p])
        PROVE  \E i \in 1..(n + 1) : p = i + 1 /\ log'[i].what = "closed"
    <3>1. p \in 1..n
      BY <1>2, <2>1, <2>3
    <3>2. PICK i \in 1..n : p = i + 1 /\ log[i].what = "closed"
      BY <1>2, <2>2, <2>3, <3>1
    <3> QED
      BY <1>2, <3>2
  <2> QED
    BY <1>2, <2>3 DEF Log!LeftMeansEnded
<1> QED
  BY <1>4, <1>5, <1>6, <1>8, <1>9, <1>10 DEF LogInv, Story

LEMMA LogNext == LogInv /\ [Log!Next]_logVars => LogInv'
<1> SUFFICES ASSUME LogInv, [Log!Next]_logVars PROVE LogInv'
  OBVIOUS
<1>1. CASE UNCHANGED logVars
  <2>1. LogTypes' /\ NotesFitAttempt'
    BY <1>1 DEF logVars, LogInv, LogTypes, StateType, NotesFitAttempt
  <2>2. LogOfPhase' /\ Log!LockoutsFollowFailures' /\ Log!EndAgreesWithSignIn'
    BY <1>1 DEF logVars, LogInv, Story, LogOfPhase, Log!LockoutsFollowFailures,
         Log!EndAgreesWithSignIn, Log!Tried
  <2>4. Log!LeftMeansEnded'
    BY <1>1 DEF logVars, LogInv, Story, Log!LeftMeansEnded
  <2>3. Log!LogTellsTruth'
    BY <1>1 DEF logVars, LogInv, Story, Log!LogTellsTruth, Log!Tried
  <2> QED
    BY <2>1, <2>2, <2>3, <2>4 DEF LogInv, Story
<1>2. CASE Checks
  BY <1>2, ChecksKeepNotes, ChecksKeepStory DEF LogInv
<1>3. CASE Log!LogAuth
  BY <1>3, LogAuthTypes, LogAuthStory DEF LogInv
<1> QED
  BY <1>1, <1>2, <1>3, OpenStep, CloseStep DEF Log!Next, Checks

(* The inductive invariant of the log: what the checks have noted is about the attempt
   that will be logged next, and how far the log has come (connlog.go:102-145). *)
THEOREM LogInvariance == ServerSpec => []LogInv
<1>1. ServerInit => LogInv
  BY LogInit DEF ServerInit
<1>2. [ServerNext]_allVars => [Log!Next]_logVars
  BY DEF ServerNext, allVars, OnlyDaemon, OnlySessions, OnlyLog
<1> QED
  BY <1>1, <1>2, LogNext, SafetyOfSpec, PTL

(* The log of a connection is the story of its sign-in, for any number of keys and
   attempts: one true record for each attempt, in order, each lockout after the failure
   it is due to, and an end, recorded once, that says whether anybody had signed in, and
   after which comes at most the answer to one attempt - only there that of a client that
   left (connlog.go:102-145, :192-238; password_guard.go:87-91). *)
THEOREM LogTellsTheStory == ServerSpec => []LogIsTrue
<1>1. LogInv => LogIsTrue
  BY DEF LogInv, Story, LogIsTrue, Log!LogIsTrue
<1> QED
  BY <1>1, LogInvariance, PTL
=============================================================================

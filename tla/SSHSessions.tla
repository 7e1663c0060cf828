------------------------------ MODULE SSHSessions ------------------------------
(***************************************************************************)
(* The connections and sessions of one SSH server that is listening, from  *)
(* the sign-in to the end of the shell, and what Close and the wait for    *)
(* sessions do to them (server/server.go, shell.go, channels.go).          *)
(*                                                                         *)
(* A session is several goroutines: the handler, which starts the shell    *)
(* and then follows its output; hangUpOnDisconnect, which signals the      *)
(* shell's process group once the client is gone; and, on a pty, one that  *)
(* sets a read deadline then.  They meet at reaped, which is closed when   *)
(* the shell has been waited for.  What the shell leaves in the background *)
(* can keep the terminal or the pipes open after it.                       *)
(*                                                                         *)
(* A connection carries at most one session (a bound).  Time counts in     *)
(* units of which the grace is Grace and the wait for sessions Limit; the  *)
(* clock moves only when no goroutine of the server could.                 *)
(***************************************************************************)
EXTENDS Integers, FiniteSets

CONSTANTS Conn,   \* client connections
          Grace,  \* shellKillGrace
          Over    \* what waitForSessions allows beyond it

ASSUME TimeAssumption == Grace \in Nat /\ Over \in Nat \ {0}

VARIABLES
  conn,    \* per connection: none, handshake, open, closed
  at,      \* where the handler of its session stands
  pty,     \* whether the session is on a pty
  shell,   \* the shell's process: none, running, zombie, reaped
  deaf,    \* whether it ignores SIGHUP
  holder,  \* what else holds its output open: none, its group, another group
  reaped,  \* whether the channel reaped is closed
  hangup,  \* hangUpOnDisconnect: none, watch, grace, over
  cutter,  \* the goroutine that sets the read deadline: none, watch, cut, over
  timer,   \* what is left of the grace
  server,  \* accept, closed, drain, returned
  limit,   \* what is left of the wait for sessions
  hung     \* auxiliary: the sessions that were running when Close came

sesVars == <<at, pty, shell, deaf, holder, reaped, hangup, cutter, timer>>
vars == <<conn, at, pty, shell, deaf, holder, reaped, hangup, cutter, timer, server, limit, hung>>

Init ==
  /\ conn = [c \in Conn |-> "none"]
  /\ at = [c \in Conn |-> "none"]
  /\ pty = [c \in Conn |-> FALSE]
  /\ shell = [c \in Conn |-> "none"]
  /\ deaf = [c \in Conn |-> FALSE]
  /\ holder = [c \in Conn |-> "none"]
  /\ reaped = [c \in Conn |-> FALSE]
  /\ hangup = [c \in Conn |-> "none"]
  /\ cutter = [c \in Conn |-> "none"]
  /\ timer = [c \in Conn |-> 0]
  /\ server = "accept"
  /\ limit = 0
  /\ hung = {}

(* The session's context ends with its connection. *)
Gone(c) == conn[c] = "closed"

(* activeSessions. *)
Active == {c \in Conn : at[c] \in {"counted", "relay", "wait", "waited", "join"}}

-----------------------------------------------------------------------------
(* Connections. *)

Connect(c) ==
  /\ server = "accept"
  /\ conn[c] = "none"
  /\ conn' = [conn EXCEPT ![c] = "handshake"]
  /\ UNCHANGED <<sesVars, server, limit, hung>>

(* A handshake that is under way when the server is closed goes on. *)
SignIn(c) ==
  /\ server # "returned"
  /\ conn[c] = "handshake"
  /\ conn' = [conn EXCEPT ![c] = "open"]
  /\ UNCHANGED <<sesVars, server, limit, hung>>

(* The client leaves, or its handshake fails. *)
Leave(c) ==
  /\ server # "returned"
  /\ conn[c] \in {"handshake", "open"}
  /\ conn' = [conn EXCEPT ![c] = "closed"]
  /\ UNCHANGED <<sesVars, server, limit, hung>>

(* serveOnlySessions and onSessionRequest let sessions with a shell or a command
   through, and nothing else. *)
RequestSession(c) ==
  /\ server # "returned"
  /\ conn[c] = "open"
  /\ at[c] = "none"
  /\ at' = [at EXCEPT ![c] = "asked"]
  /\ \E onPty \in BOOLEAN : pty' = [pty EXCEPT ![c] = onPty]
  /\ UNCHANGED <<conn, shell, deaf, holder, reaped, hangup, cutter, timer, server, limit, hung>>

-----------------------------------------------------------------------------
(* The handler: handleSession, runOnPty and runOnPipes. *)

Count(c) ==
  /\ at[c] = "asked"
  /\ at' = [at EXCEPT ![c] = "counted"]
  /\ UNCHANGED <<conn, pty, shell, deaf, holder, reaped, hangup, cutter, timer, server, limit, hung>>

(* The shell starts with the goroutines that watch over it, or does not start. *)
StartShell(c) ==
  /\ at[c] = "counted"
  /\ \/ /\ at' = [at EXCEPT ![c] = "relay"]
        /\ shell' = [shell EXCEPT ![c] = "running"]
        /\ \E ignores \in BOOLEAN : deaf' = [deaf EXCEPT ![c] = ignores]
        /\ hangup' = [hangup EXCEPT ![c] = "watch"]
        /\ cutter' = [cutter EXCEPT ![c] = IF pty[c] THEN "watch" ELSE "over"]
     \/ /\ at' = [at EXCEPT ![c] = "ended"]
        /\ UNCHANGED <<shell, deaf, hangup, cutter>>
  /\ UNCHANGED <<conn, pty, holder, reaped, timer, server, limit, hung>>

(* Mutation of OutputReleased: nothing ends the read on a disconnect. *)
BugOutputReleased(c) == FALSE

(* What ends the wait for output early: the read deadline, or the context itself. *)
OutputReleased(c) == IF pty[c] THEN cutter[c] = "cut" ELSE Gone(c)

(* The output ends when nothing holds it open any more. *)
OutputEnds(c) == (shell[c] = "zombie" /\ holder[c] = "none") \/ OutputReleased(c)

Follow(c) ==
  /\ at[c] = "relay"
  /\ OutputEnds(c)
  /\ at' = [at EXCEPT ![c] = "wait"]
  /\ UNCHANGED <<conn, pty, shell, deaf, holder, reaped, hangup, cutter, timer, server, limit, hung>>

(* cmd.Wait. *)
WaitShell(c) ==
  /\ at[c] = "wait"
  /\ shell[c] = "zombie"
  /\ shell' = [shell EXCEPT ![c] = "reaped"]
  /\ at' = [at EXCEPT ![c] = "waited"]
  /\ UNCHANGED <<conn, pty, deaf, holder, reaped, hangup, cutter, timer, server, limit, hung>>

CloseReaped(c) ==
  /\ at[c] = "waited"
  /\ reaped' = [reaped EXCEPT ![c] = TRUE]
  /\ at' = [at EXCEPT ![c] = "join"]
  /\ UNCHANGED <<conn, pty, shell, deaf, holder, hangup, cutter, timer, server, limit, hung>>

(* Mutation of Joined: the watchers are not waited for. *)
BugJoined(c) == TRUE

Joined(c) == hangup[c] = "over" /\ cutter[c] \in {"cut", "over"}

(* watchers.Wait; the exit status is sent and the session no longer counted. *)
EndSession(c) ==
  /\ at[c] = "join"
  /\ Joined(c)
  /\ at' = [at EXCEPT ![c] = "ended"]
  /\ UNCHANGED <<conn, pty, shell, deaf, holder, reaped, hangup, cutter, timer, server, limit, hung>>

-----------------------------------------------------------------------------
(* The goroutines that watch for the client to go. *)

(* A signal to the process group; a group that is gone takes none. *)
Signal(c, kills) ==
  /\ shell' = [shell EXCEPT ![c] = IF @ = "running" /\ kills THEN "zombie" ELSE @]
  /\ holder' = [holder EXCEPT ![c] = IF @ = "group" THEN "none" ELSE @]

SendHup(c) ==
  /\ hangup[c] = "watch" /\ Gone(c)
  /\ Signal(c, ~deaf[c])
  /\ hangup' = [hangup EXCEPT ![c] = "grace"]
  /\ timer' = [timer EXCEPT ![c] = Grace]
  /\ UNCHANGED <<conn, at, pty, deaf, reaped, cutter, server, limit, hung>>

SendKill(c) ==
  /\ hangup[c] = "grace" /\ timer[c] = 0
  /\ Signal(c, TRUE)
  /\ hangup' = [hangup EXCEPT ![c] = "over"]
  /\ UNCHANGED <<conn, at, pty, deaf, reaped, cutter, timer, server, limit, hung>>

StopWatching(c) ==
  /\ hangup[c] \in {"watch", "grace"} /\ reaped[c]
  /\ hangup' = [hangup EXCEPT ![c] = "over"]
  /\ UNCHANGED <<conn, at, pty, shell, deaf, holder, reaped, cutter, timer, server, limit, hung>>

CutRead(c) ==
  /\ cutter[c] = "watch"
  /\ \/ Gone(c) /\ cutter' = [cutter EXCEPT ![c] = "cut"]
     \/ reaped[c] /\ cutter' = [cutter EXCEPT ![c] = "over"]
  /\ UNCHANGED <<conn, at, pty, shell, deaf, holder, reaped, hangup, timer, server, limit, hung>>

-----------------------------------------------------------------------------
(* What runs in the session, at its own pace. *)

ShellExits(c) ==
  /\ shell[c] = "running"
  /\ shell' = [shell EXCEPT ![c] = "zombie"]
  /\ UNCHANGED <<conn, at, pty, deaf, holder, reaped, hangup, cutter, timer, server, limit, hung>>

JobStarts(c) ==
  /\ shell[c] = "running" /\ holder[c] = "none" /\ server # "returned"
  /\ \E where \in {"group", "other"} : holder' = [holder EXCEPT ![c] = where]
  /\ UNCHANGED <<conn, at, pty, shell, deaf, reaped, hangup, cutter, timer, server, limit, hung>>

JobEnds(c) ==
  /\ holder[c] # "none"
  /\ holder' = [holder EXCEPT ![c] = "none"]
  /\ UNCHANGED <<conn, at, pty, shell, deaf, reaped, hangup, cutter, timer, server, limit, hung>>

-----------------------------------------------------------------------------
(* Close, and ListenAndServe's way out. *)

(* gliderlabs closes the listener and the connections that have signed in. *)
Close ==
  /\ server = "accept"
  /\ server' = "closed"
  /\ conn' = [c \in Conn |-> IF conn[c] = "open" THEN "closed" ELSE conn[c]]
  /\ hung' = {c \in Active : shell[c] = "running"}
  /\ UNCHANGED <<sesVars, limit>>

(* Mutation of DrainLimit: no longer than the grace itself. *)
BugDrainLimit == Grace

DrainLimit == Grace + Over

BeginDrain ==
  /\ server = "closed"
  /\ server' = "drain"
  /\ limit' = DrainLimit
  /\ UNCHANGED <<conn, sesVars, hung>>

(* Mutation of DrainOver: sessions are waited for without a limit. *)
BugDrainOver == Active = {}

DrainOver == Active = {} \/ limit = 0

(* Until no session is counted, or the time is up. *)
EndDrain ==
  /\ server = "drain"
  /\ DrainOver
  /\ server' = "returned"
  /\ UNCHANGED <<conn, sesVars, limit, hung>>

-----------------------------------------------------------------------------
(* What a goroutine of session c could do now. *)
Prompt(c) ==
  \/ at[c] \in {"asked", "counted", "waited"}
  \/ at[c] = "relay" /\ OutputEnds(c)
  \/ at[c] = "wait" /\ shell[c] = "zombie"
  \/ at[c] = "join" /\ Joined(c)
  \/ hangup[c] = "watch" /\ Gone(c)
  \/ hangup[c] = "grace" /\ timer[c] = 0
  \/ hangup[c] \in {"watch", "grace"} /\ reaped[c]
  \/ cutter[c] = "watch" /\ (Gone(c) \/ reaped[c])

Tick ==
  /\ server # "returned"
  /\ \A c \in Conn : ~Prompt(c)
  /\ server # "closed" /\ ~(server = "drain" /\ DrainOver)
  /\ limit > 0 \/ \E c \in Conn : timer[c] > 0
  /\ limit' = IF limit > 0 THEN limit - 1 ELSE limit
  /\ timer' = [c \in Conn |-> IF timer[c] > 0 THEN timer[c] - 1 ELSE 0]
  /\ UNCHANGED <<conn, at, pty, shell, deaf, holder, reaped, hangup, cutter, server, hung>>

Handler(c) ==
  \/ Count(c) \/ StartShell(c) \/ Follow(c) \/ WaitShell(c) \/ CloseReaped(c) \/ EndSession(c)

Watcher(c) == SendHup(c) \/ SendKill(c) \/ StopWatching(c) \/ CutRead(c)

Client(c) == Connect(c) \/ SignIn(c) \/ Leave(c) \/ RequestSession(c)

Programs(c) == ShellExits(c) \/ JobStarts(c) \/ JobEnds(c)

Next ==
  \/ \E c \in Conn :
       Client(c) \/ Programs(c) \/ (server # "returned" /\ (Handler(c) \/ Watcher(c)))
  \/ Close \/ BeginDrain \/ EndDrain \/ Tick

Spec == Init /\ [][Next]_vars

(* The server's goroutines run and time passes; shells need not end, and clients need
   not leave. *)
FairSpec ==
  /\ Spec
  /\ \A c \in Conn : WF_vars(server # "returned" /\ Handler(c))
  /\ \A c \in Conn : WF_vars(server # "returned" /\ Watcher(c))
  /\ WF_vars(BeginDrain) /\ WF_vars(EndDrain) /\ WF_vars(Tick)

-----------------------------------------------------------------------------
(* Properties. *)

TypeOK ==
  /\ conn \in [Conn -> {"none", "handshake", "open", "closed"}]
  /\ at \in [Conn -> {"none", "asked", "counted", "relay", "wait", "waited", "join", "ended"}]
  /\ pty \in [Conn -> BOOLEAN] /\ deaf \in [Conn -> BOOLEAN] /\ reaped \in [Conn -> BOOLEAN]
  /\ shell \in [Conn -> {"none", "running", "zombie", "reaped"}]
  /\ holder \in [Conn -> {"none", "group", "other"}]
  /\ hangup \in [Conn -> {"none", "watch", "grace", "over"}]
  /\ cutter \in [Conn -> {"none", "watch", "cut", "over"}]
  /\ timer \in [Conn -> 0..Grace]
  /\ server \in {"accept", "closed", "drain", "returned"}
  /\ limit \in 0..(Grace + Over)
  /\ hung \subseteq Conn

(* "A session still tearing down then would leave its shell without the SIGKILL that
   follows an ignored SIGHUP" (server.go:150-153): when ListenAndServe returns, no
   shell that Close hung up on is running. *)
NoShellLeft == server = "returned" => \A c \in hung : shell[c] # "running"

(* A session that has ended has reaped its shell, and none of its goroutines can signal
   or cut anything any more (shell.go:187-189). *)
EndedSessionsAreOver ==
  \A c \in Conn : at[c] = "ended" /\ shell[c] # "none" =>
    shell[c] = "reaped" /\ hangup[c] = "over" /\ cutter[c] \in {"cut", "over"}

(* Every shell ends with its session or with its server, and nothing outlives it
   (shell.go, server.go:129-159). *)
ShellsEnd == NoShellLeft /\ EndedSessionsAreOver

(* A client that goes ends its session, whatever the shell ignores and whatever still
   holds the terminal or the pipes open (shell.go:157-177, :245-252, :262-286). *)
DisconnectEndsSession ==
  \A c \in Conn : Gone(c) /\ at[c] = "relay" ~> at[c] = "ended" \/ server = "returned"

(* Close ends ListenAndServe, whatever its sessions do (server.go:127-130, :154-159). *)
CloseReturns == server = "closed" ~> server = "returned"
=============================================================================

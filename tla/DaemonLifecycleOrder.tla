-------------------------- MODULE DaemonLifecycleOrder --------------------------
(***************************************************************************)
(* DaemonLifecycle with a history variable that remembers whether anything *)
(* out of the ordinary has happened: a crash, a daemon launched by hand, a *)
(* command begun while another was under way, a wait that ran out.  As     *)
(* long as nothing has, the two paths and the processes agree.             *)
(***************************************************************************)
EXTENDS DaemonLifecycle

VARIABLE orderly

ovars == <<vars, orderly>>

Resting(c) == cli[c].at \in {"idle", "answered"}

Alone(c) == \A b \in Cli \ {c} : Resting(b)

RanOut(c) ==
  \/ cli[c].at = "waitExit" /\ Alive(cli[c].target)
  \/ cli[c].at = "waiting" /\ pipe[cli[c].child] = "open"

OInit == Init /\ orderly = TRUE

ONext ==
  \/ \E d \in Proc :
       \/ DaemonStep(d) /\ UNCHANGED orderly
       \/ (Crash(d) \/ LaunchByHand(d)) /\ orderly' = FALSE
  \/ \E c \in Cli :
       \/ Call(c) /\ orderly' = (orderly /\ Alone(c))
       \/ CliStep(c) /\ orderly' = (orderly /\ ~RanOut(c))
       \/ Return(c) /\ UNCHANGED orderly
  \/ \E d \in Proc, c \in Cli : ServeSession(d, c) /\ UNCHANGED orderly

OSpec == OInit /\ [][ONext]_ovars

-----------------------------------------------------------------------------
(* In an orderly behaviour, whenever no command is under way there is either
   nothing left of any daemon, or one daemon, listening behind the socket and
   named by the pidfile, so that the next command finds it (daemon.go:77-117,
   helpers.go:33-62). *)
QuietMeansConsistent ==
  orderly /\ (\A c \in Cli : Resting(c)) =>
    LET running == {d \in Proc : Alive(d) /\ pc[d] # "exit"} IN
      \/ running = {} /\ pidfile = None /\ socket = None /\ listening = {}
      \/ \E d \in Proc : /\ running = {d} /\ pc[d] = "serving" /\ d \notin terminated
                         /\ pidfile = d /\ socket = d /\ listening = {d}

-----------------------------------------------------------------------------
(* The inductive invariant behind QuietMeansConsistent: in an orderly behaviour
   at most one command is under way, and how far it has come says what there is
   of daemons, files and listeners. *)

(* A daemon that will not touch anything any more. *)
Gone(d) == pc[d] \in {"unborn", "exit", "dead"}

OthersGone(d) == \A e \in Proc \ {d} : Gone(e)

NoTrace == pidfile = None /\ socket = None /\ listening = {}

InPlace(d) == pidfile = d /\ socket = d /\ listening = {d}

OnlyPidfile(d) == pidfile = d /\ socket = None /\ listening = {}

NothingRuns == NoTrace /\ \A d \in Proc : Gone(d)

OneRuns(d) == OthersGone(d) /\ pc[d] = "serving" /\ d \notin terminated /\ InPlace(d)

Settled == NothingRuns \/ \E d \in Proc : OneRuns(d)

(* The daemon a command has signalled, until it is gone. *)
Stopping(d) ==
  /\ OthersGone(d)
  /\ \/ pc[d] = "serving" /\ InPlace(d)
     \/ pc[d] \in {"removeSocket", "removePid"} /\ OnlyPidfile(d)
     \/ pc[d] \in {"exiting", "exit", "dead"} /\ NoTrace

(* The daemon a command has forked, until its pipe says what became of it. *)
Starting(d) ==
  /\ OthersGone(d)
  /\ d \notin terminated
  /\ \/ pc[d] \in {"config", "check", "writePid", "exiting"} /\ NoTrace /\ pipe[d] = "open"
     \/ /\ pc[d] \in {"openVault", "dial", "removeStale", "bind", "removeSocket", "removePid"}
        /\ OnlyPidfile(d)
        /\ pipe[d] = "open"
     \/ pc[d] = "ready" /\ InPlace(d) /\ pipe[d] = "open"
     \/ pc[d] = "serving" /\ InPlace(d)
     \/ pc[d] \in {"exit", "dead"} /\ NoTrace

Progress(c) ==
  /\ cli[c].at \in {"connect", "readPid", "dial", "startDaemon", "open", "asking"} => Settled
  /\ cli[c].at \in {"statPid", "removePid"} => NothingRuns
  /\ cli[c].at = "signal" => OneRuns(cli[c].target)
  /\ cli[c].at = "waitExit" => Stopping(cli[c].target)
  /\ cli[c].at = "waiting" => Starting(cli[c].child)

OrderInv ==
  /\ orderly \in BOOLEAN
  /\ \A d \in Proc : pc[d] = "unborn" => d \notin terminated
  /\ orderly =>
       /\ \A b, c \in Cli : b # c => Resting(b) \/ Resting(c)
       /\ (\A c \in Cli : Resting(c)) => Settled
       /\ \A c \in Cli : Progress(c)
=============================================================================

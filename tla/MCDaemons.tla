-------------------------------- MODULE MCDaemons -------------------------------
(***************************************************************************)
(* Two safety models for TLC: the password guard of an SSH server, with    *)
(* the history of every address, and the commands that start and stop the  *)
(* agent daemon.  They share no variable, so they are checked side by      *)
(* side: a behaviour is one of one part, while the other stays as it began. *)
(***************************************************************************)
EXTENDS DaemonLifecycleOrder, PasswordGuardLog, TLC

VARIABLE part

ASSUME MaxLogIsNumber == LogAssumption

guardLogVars == <<guardVars, log>>

DaemonsInit == part \in {"guard", "lifecycle"} /\ LInit /\ OInit

DaemonsNext ==
  \/ part = "guard" /\ part' = part /\ LNext /\ UNCHANGED ovars
  \/ part = "lifecycle" /\ part' = part /\ ONext /\ UNCHANGED guardLogVars

DaemonsSpec == DaemonsInit /\ [][DaemonsNext]_<<part, guardLogVars, ovars>>

(* The bounds of the parts: the attempts begun, and one command at a time once a daemon
   was launched by hand, which has no pipe. *)
LaunchedByHand(d) == pc[d] # "unborn" /\ pipe[d] = "none"

PartBound ==
  /\ part = "guard" => LogBound
  /\ (\E d \in Proc : LaunchedByHand(d)) => Cardinality({c \in Cli : cli[c].at # "idle"}) <= 1

(* Attempts, addresses, pids and commands are only compared, and a behaviour is of one
   part: the run gives both parts the same values, attempts those of commands and
   addresses those of pids. *)
Symmetry == Permutations(Cli) \cup Permutations(Proc)

(* The properties are those of the modules: ChecksCapped and OvershootBounded of
   PasswordGuard, LockoutFollowsHistory of PasswordGuardLog, StartReports of
   DaemonLifecycle and QuietMeansConsistent of DaemonLifecycleOrder. *)
=============================================================================

------------------------------- MODULE MCProgress -------------------------------
(***************************************************************************)
(* What must happen in the end, for TLC: the calls of the vault agent, the *)
(* commands on the daemon and the sign-in attempts with a password, each   *)
(* under the fairness its own module states.  They share no variable, so   *)
(* they are checked side by side: a behaviour is one of one part, while    *)
(* the other two stay as they began.  The bounds are smaller than in the   *)
(* runs for safety, and nothing is identified by symmetry.                 *)
(***************************************************************************)
EXTENDS PasswordGuard

CONSTANTS
  Client, Fingerprint, Comment, Lifetime, Ops, HasRecovery, VaultMaxTime, NoIdentity, NoClient,
  Cli, Proc, Mortal, Steady, Timeouts, ByHand, None

VARIABLES
  part,
  store, disk, masterKey, sessionAutoload0, sessionUnloaded, mu, vNow, vPc, call, reply, snap,
  acked,
  pidfile, socket, listening, terminated, pipe, dPc, cli, served

Vault == INSTANCE VaultAgent WITH now <- vNow, pc <- vPc, MaxTime <- VaultMaxTime
Daemon == INSTANCE DaemonLifecycle WITH pc <- dPc

vaultVars == <<store, disk, masterKey, sessionAutoload0, sessionUnloaded, mu, vNow, vPc, call,
               reply, snap, acked>>
daemonVars == <<pidfile, socket, listening, terminated, pipe, dPc, cli, served>>
progressVars == <<part, vaultVars, daemonVars, guardVars>>

(* Where a part that is not looked at stays. *)
ProgressInit ==
  /\ part \in {"vault", "daemon", "guard"}
  /\ Vault!Init /\ (part # "vault" => \A fp \in Fingerprint : disk[fp] = NoIdentity)
  /\ Daemon!Init
  /\ GuardInit

ProgressNext ==
  /\ part' = part
  /\ \/ part = "vault" /\ Vault!Next /\ UNCHANGED <<daemonVars, guardVars>>
     \/ part = "daemon" /\ Daemon!Next /\ UNCHANGED <<vaultVars, guardVars>>
     \/ part = "guard" /\ GuardNext /\ UNCHANGED <<vaultVars, daemonVars>>

(* The fairness of the FairSpec of each module. *)
VaultFairness ==
  \A c \in Client :
    /\ SF_vaultVars(part = "vault" /\ Vault!Serve(c))
    /\ WF_vaultVars(part = "vault" /\ Vault!Return(c))

DaemonFairness ==
  /\ \A c \in Cli : WF_daemonVars(part = "daemon" /\ Daemon!CliStep(c))
  /\ \A d \in Steady : WF_daemonVars(part = "daemon" /\ Daemon!DaemonStep(d))
  /\ \A d \in Steady, c \in Cli : WF_daemonVars(part = "daemon" /\ Daemon!ServeSession(d, c))

GuardFairness ==
  \A a \in Attempt :
    /\ WF_guardVars(part = "guard" /\ (\/ CheckLockout(a) \/ Checked(a) \/ Accept(a)
                                  \/ RecordFailure(a) \/ PauseEnds(a) \/ ReturnAnswer(a)))
    /\ SF_guardVars(part = "guard" /\ TakeSlot(a))
    /\ WF_guardVars(part = "guard" /\ GiveUpWaiting(a))

ProgressSpec ==
  /\ ProgressInit /\ [][ProgressNext]_progressVars
  /\ VaultFairness /\ DaemonFairness /\ GuardFairness

-----------------------------------------------------------------------------
(* AttemptsAnswered, that every sign-in attempt gets its answer, is PasswordGuard's. *)

(* VaultAgent: every call of a client is answered, whoever else waits for a.mu
   (agent.go). *)
CallsAnswered == Vault!CallsAnswered

(* DaemonLifecycle: every command returns, even when the daemon it starts or stops
   hangs, unless it is in a session with one that does (control.go:17-21,
   helpers.go:54-59). *)
CommandsReturn == Daemon!CommandsReturn

(* DaemonLifecycle: a daemon that has caught SIGTERM ends (server.go:72-75,
   daemon.go:107). *)
TerminatedEnds == Daemon!TerminatedEnds

=============================================================================

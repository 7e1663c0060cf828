--------------------------- MODULE PasswordGuardLog ---------------------------
(***************************************************************************)
(* The guard of PasswordGuard with the history of every address beside it: *)
(* each password checked for it, in the order the outcomes were counted.   *)
(* The constants of server/password_guard.go promise a lockout in terms of *)
(* that history; the code keeps only a count and a time.                   *)
(***************************************************************************)
EXTENDS PasswordGuard, Sequences

CONSTANT MaxLog  \* bound: attempts begun in one behaviour

(* What an instance has to give: the module that runs it assumes it. *)
LogAssumption == MaxLog \in Nat

VARIABLE log     \* per address, the outcomes counted: ok, at and locked

LInit == GuardInit /\ log = [h \in Host |-> <<>>]

Logged(a, at) ==
  log' = [log EXCEPT ![client[a].host] =
            Append(@, [ok |-> verdict[a].ok, at |-> at, locked |-> verdict'[a].lockedOutNow])]

LNext ==
  \/ \E a \in Attempt :
       \/ (Begin(a) \/ Leave(a) \/ CheckLockout(a) \/ TakeSlot(a) \/ GiveUpWaiting(a)) /\ UNCHANGED log
       \/ (Checked(a) \/ PauseEnds(a) \/ ReturnAnswer(a)) /\ UNCHANGED log
       \/ (Accept(a) \/ RecordFailure(a)) /\ Logged(a, now)
  \/ Tick /\ UNCHANGED log

(* Bound of the runs: the attempts begun in one behaviour. *)
AttemptsBegun ==
  Cardinality({a \in Attempt : stage[a] # "idle"})
    + Cardinality({p \in Host \X (1..MaxLog) : p[2] <= Len(log[p[1]])})

LogBound == AttemptsBegun <= MaxLog

LSpec == LInit /\ [][LNext]_<<guardVars, log>>

-----------------------------------------------------------------------------
(* Failures j to i of h follow each other within a lockout's length. *)
IsRun(h, j, i) ==
  /\ \A k \in j..i : ~log[h][k].ok
  /\ \A k \in j..(i - 1) : log[h][k + 1].at - log[h][k].at < Lockout

(* The length of the run of failures that ends at entry i of h's log. *)
RunLength(h, i) ==
  Cardinality({j \in 1..i : IsRun(h, j, i)})

(* An address is shut out exactly while its last passwordLockoutFailures failures
   came each within passwordLockout of the one before, none of them followed by a
   success, and passwordLockout has not passed since the last of them
   (password_guard.go:21-23): nothing that other addresses do, and no failure
   forgotten in between, locks an address out or frees it. *)
LockoutExact ==
  \A h \in Host :
    LockedOut(h) <=>
      LET n == Len(log[h]) IN
        /\ n > 0
        /\ RunLength(h, n) >= LockoutFailures
        /\ now - log[h][n].at < Lockout

(* Of a run of failures exactly the one that reaches the limit is reported as the
   lockout, though attempts under way go on failing after it
   (password_guard.go:113-114, server.go:171-174). *)
LockoutReportedOnce ==
  \A h \in Host : \A i \in 1..Len(log[h]) :
    log[h][i].locked <=> RunLength(h, i) = LockoutFailures

(* The count kept for an address decides what its whole history would, both when it is
   locked out and when that is reported (password_guard.go:113-138). *)
LockoutFollowsHistory == LockoutExact /\ LockoutReportedOnce

-----------------------------------------------------------------------------
(* The inductive invariant behind LockoutFollowsHistory: what the guard keeps
   of an address's history, next to the types. *)

Entry == [ok : BOOLEAN, at : Nat, locked : BOOLEAN]

LogTypeOK == log \in [Host -> Seq(Entry)]

(* A count stands for the run that ends the history; no count, for a history
   that ends in a success or went quiet. *)
CountFitsLog ==
  \A h \in Host :
    LET n == Len(log[h]) IN
      IF failures[h].count > 0
      THEN /\ n > 0
           /\ failures[h].last = log[h][n].at
           /\ failures[h].count = RunLength(h, n)
      ELSE n > 0 => log[h][n].ok \/ now - log[h][n].at >= Lockout

(* Only a counted failure is reported as the lockout. *)
ReportIsCounted ==
  \A a \in Attempt : stage[a] \notin {"pausing", "answered"} => ~verdict[a].lockedOutNow

LogInv == LogTypeOK /\ CountFitsLog /\ ReportIsCounted /\ LockoutReportedOnce
=============================================================================

----------------------------- MODULE PasswordGuard -----------------------------
(***************************************************************************)
(* The guard in front of sshush server's password authentication           *)
(* (server/password_guard.go, called by passwordAuth in server/server.go): *)
(* a cap on the checks running at once, a pause after every refusal and a  *)
(* lockout per address.  Each sign-in attempt runs in the goroutine of its *)
(* connection; the lockout check, the wait for a slot, the check itself    *)
(* and the counting of its outcome are separate steps, and only the first  *)
(* and the last hold the guard's mutex.                                    *)
(*                                                                         *)
(* The clock counts in units the lockout is a multiple of.  Verifying a    *)
(* password (server/auth_vault.go) reads the vault file each time, so a    *)
(* right password can also fail, when the file cannot be read.             *)
(***************************************************************************)
EXTENDS Integers, FiniteSets

CONSTANTS Attempt,          \* sign-in attempts that can be under way at once
          Host,             \* client addresses
          NoHost,           \* not an address
          MaxChecks,        \* maxConcurrentPasswordChecks
          LockoutFailures,  \* passwordLockoutFailures
          Lockout,          \* passwordLockout, in clock units
          MaxTime           \* bound: the clock stops here

ASSUME GuardAssumption ==
  /\ IsFiniteSet(Attempt)
  /\ NoHost \notin Host
  /\ MaxChecks \in Nat \ {0}
  /\ LockoutFailures \in Nat \ {0}
  /\ Lockout \in Nat \ {0}
  /\ MaxTime \in Nat

VARIABLES
  failures,  \* per address, the run of failed passwords: count and last
  slots,     \* the attempts holding a slot
  now,       \* the clock
  stage,     \* where each attempt stands
  client,    \* whose it is: host, whether the password is right, whether it left
  verdict    \* what verify found: ok, refusal and lockedOutNow

guardVars == <<failures, slots, now, stage, client, verdict>>

NoFailures == [count |-> 0, last |-> 0]
Nobody == [host |-> NoHost, right |-> FALSE, left |-> FALSE]
NoVerdict == [ok |-> FALSE, refusal |-> "none", lockedOutNow |-> FALSE]

GuardInit ==
  /\ failures = [h \in Host |-> NoFailures]
  /\ slots = {}
  /\ now = 0
  /\ stage = [a \in Attempt |-> "idle"]
  /\ client = [a \in Attempt |-> Nobody]
  /\ verdict = [a \in Attempt |-> NoVerdict]

MoveTo(a, label) == stage' = [stage EXCEPT ![a] = label]

(* No entry in the map is a count of zero. *)
Stale(h) == failures[h].count > 0 /\ now - failures[h].last >= Lockout

(* Mutation of LockedOut: one failure too late. *)
BugLockedOut(h) ==
  /\ failures[h].count > LockoutFailures
  /\ now - failures[h].last < Lockout

LockedOut(h) ==
  /\ failures[h].count >= LockoutFailures
  /\ now - failures[h].last < Lockout

-----------------------------------------------------------------------------
(* An attempt. *)

Begin(a) ==
  /\ stage[a] = "idle"
  /\ \E h \in Host, right \in BOOLEAN :
       client' = [client EXCEPT ![a] = [host |-> h, right |-> right, left |-> FALSE]]
  /\ MoveTo(a, "called")
  /\ UNCHANGED <<failures, slots, now, verdict>>

(* Mutation of Leave: what the attempt is about goes with the connection. *)
BugLeave(a) ==
  /\ stage[a] \notin {"idle", "answered"}
  /\ client' = [client EXCEPT ![a] = Nobody]
  /\ UNCHANGED <<failures, slots, now, stage, verdict>>

(* The client's context ends: it hung up. *)
Leave(a) ==
  /\ stage[a] \notin {"idle", "answered"}
  /\ ~client[a].left
  /\ client' = [client EXCEPT ![a].left = TRUE]
  /\ UNCHANGED <<failures, slots, now, stage, verdict>>

CheckLockout(a) ==
  /\ stage[a] = "called"
  /\ IF LockedOut(client[a].host)
     THEN /\ verdict' = [verdict EXCEPT ![a].refusal = "address locked out"]
          /\ MoveTo(a, "pausing")
     ELSE MoveTo(a, "waiting") /\ UNCHANGED verdict
  /\ UNCHANGED <<failures, slots, now, client>>

(* Mutation of SlotFree: the channel's capacity is off by one. *)
BugSlotFree == Cardinality(slots) <= MaxChecks

SlotFree == Cardinality(slots) < MaxChecks

(* select takes either branch when both a slot and the end of the client's
   context are there. *)
TakeSlot(a) ==
  /\ stage[a] = "waiting"
  /\ SlotFree
  /\ slots' = slots \cup {a}
  /\ MoveTo(a, "checking")
  /\ UNCHANGED <<failures, now, client, verdict>>

GiveUpWaiting(a) ==
  /\ stage[a] = "waiting"
  /\ client[a].left
  /\ verdict' = [verdict EXCEPT ![a].refusal = "client left while waiting its turn"]
  /\ MoveTo(a, "answered")
  /\ UNCHANGED <<failures, slots, now, client>>

(* Mutation of ReleaseSlot: a failed check keeps its slot. *)
BugReleaseSlot(a, ok) == slots' = IF ok THEN slots \ {a} ELSE slots

ReleaseSlot(a, ok) == slots' = slots \ {a}

(* Verify returns, and the slot is given back before the outcome counts. *)
Checked(a) ==
  /\ stage[a] = "checking"
  /\ \E readable \in BOOLEAN :
       LET ok == client[a].right /\ readable IN
         /\ verdict' = [verdict EXCEPT ![a].ok = ok]
         /\ ReleaseSlot(a, ok)
  /\ MoveTo(a, "checked")
  /\ UNCHANGED <<failures, now, client>>

(* forget, for a password that was right. *)
Accept(a) ==
  /\ stage[a] = "checked"
  /\ verdict[a].ok
  /\ failures' = [failures EXCEPT ![client[a].host] = NoFailures]
  /\ MoveTo(a, "answered")
  /\ UNCHANGED <<slots, now, client, verdict>>

(* Mutation of Pruned: runs that have gone quiet are never forgotten. *)
BugPruned == failures

(* recordFailure forgets every run that has gone quiet, the address's own too,
   then counts this failure. *)
Pruned == [h \in Host |-> IF Stale(h) THEN NoFailures ELSE failures[h]]

(* Mutation of LocksOut: every failure past the limit is reported. *)
BugLocksOut(count) == count >= LockoutFailures

LocksOut(count) == count = LockoutFailures

RecordFailure(a) ==
  /\ stage[a] = "checked"
  /\ ~verdict[a].ok
  /\ LET h == client[a].host
         count == Pruned[h].count + 1
     IN /\ failures' = [Pruned EXCEPT ![h] = [count |-> count, last |-> now]]
        /\ verdict' = [verdict EXCEPT ![a].lockedOutNow = LocksOut(count)]
  /\ MoveTo(a, "pausing")
  /\ UNCHANGED <<slots, now, client>>

(* The timer fires, or the client has left. *)
PauseEnds(a) ==
  /\ stage[a] = "pausing"
  /\ MoveTo(a, "answered")
  /\ UNCHANGED <<failures, slots, now, client, verdict>>

(* The server has its answer; the attempt slot can serve another client. *)
ReturnAnswer(a) ==
  /\ stage[a] = "answered"
  /\ MoveTo(a, "idle")
  /\ client' = [client EXCEPT ![a] = Nobody]
  /\ verdict' = [verdict EXCEPT ![a] = NoVerdict]
  /\ UNCHANGED <<failures, slots, now>>

Tick ==
  /\ now < MaxTime
  /\ now' = now + 1
  /\ UNCHANGED <<failures, slots, stage, client, verdict>>

Verify(a) ==
  \/ CheckLockout(a) \/ TakeSlot(a) \/ GiveUpWaiting(a) \/ Checked(a)
  \/ Accept(a) \/ RecordFailure(a) \/ PauseEnds(a)

GuardNext ==
  \/ \E a \in Attempt : Begin(a) \/ Leave(a) \/ Verify(a) \/ ReturnAnswer(a)
  \/ Tick

GuardSpec == GuardInit /\ [][GuardNext]_guardVars

(* Every goroutine runs, Verify and the timer of the pause return, and a       *)
(* channel hands a slot to the goroutines waiting for it in turn.  Nobody has  *)
(* to sign in, and no client has to leave.                                     *)
GuardFairSpec ==
  /\ GuardSpec
  /\ \A a \in Attempt :
       /\ WF_guardVars(CheckLockout(a) \/ Checked(a) \/ Accept(a) \/ RecordFailure(a)
                  \/ PauseEnds(a) \/ ReturnAnswer(a))
       /\ SF_guardVars(TakeSlot(a))
       /\ WF_guardVars(GiveUpWaiting(a))

-----------------------------------------------------------------------------
(* Properties. *)

GuardTypeOK ==
  /\ failures \in [Host -> [count : Nat, last : Nat]]
  /\ slots \subseteq Attempt
  /\ now \in 0..MaxTime
  /\ stage \in [Attempt -> {"idle", "called", "waiting", "checking", "checked", "pausing", "answered"}]
  /\ client \in [Attempt -> [host : Host \cup {NoHost}, right : BOOLEAN, left : BOOLEAN]]
  /\ verdict \in [Attempt -> [ok : BOOLEAN, lockedOutNow : BOOLEAN,
        refusal : {"none", "address locked out", "client left while waiting its turn"}]]
  /\ \A a \in Attempt : stage[a] # "idle" => client[a].host \in Host
  /\ \A h \in Host : failures[h].last <= now

(* At most MaxChecks passwords are being checked at any time, however many
   connections wait: each check holds the memory of an Argon2id derivation
   (password_guard.go:11-15). *)
ChecksCapped ==
  /\ slots = {a \in Attempt : stage[a] = "checking"}
  /\ Cardinality(slots) <= MaxChecks

(* The attempts from h that are past the lockout check and not counted yet. *)
InFlight(h) == {a \in Attempt : client[a].host = h /\ stage[a] \in {"waiting", "checking", "checked"}}

(* The failures of h that still count. *)
Counted(h) == IF Stale(h) THEN 0 ELSE failures[h].count

(* The lockout check and the counting of a failure are apart, so an address can
   fail more often than the limit before it is shut out; but never by more than
   the attempts it had under way when it reached the limit, for a locked-out
   address starts no further check (password_guard.go:82, 99). *)
OvershootBounded ==
  \A h \in Host : Counted(h) + Cardinality(InFlight(h)) <= LockoutFailures - 1 + Cardinality(Attempt)

(* password_guard.go:62-64: "A locked-out address is refused without its password
   being checked at all, even a correct one, or the lockout would still confirm a
   right guess." *)
LockedOutUnchecked ==
  [][\A a \in Attempt : stage[a] # "checking" /\ stage'[a] = "checking" => ~LockedOut(client[a].host)]_guardVars

(* Every sign-in attempt gets its answer: slots always come back, and a pause
   ends (password_guard.go:87-100). *)
AttemptsAnswered == \A a \in Attempt : stage[a] = "called" ~> stage[a] = "answered"
=============================================================================

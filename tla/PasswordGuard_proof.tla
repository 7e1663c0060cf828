-------------------------- MODULE PasswordGuard_proof --------------------------
(***************************************************************************)
(* Proofs about PasswordGuard, for any number of attempts under way, any   *)
(* set of addresses, any limits and any bound on the clock.                *)
(***************************************************************************)
EXTENDS PasswordGuardLog, FiniteSetTheorems, TLAPS

(* The invariant is inductive as it stands: the bound on the overshoot counts
   the attempts under way beside the failures, and an attempt turns from the
   one into the other when its failure is recorded. *)
IInv == GuardTypeOK /\ ChecksCapped /\ OvershootBounded

LEMMA InFlightFinite ==
  ASSUME NEW h
  PROVE  /\ IsFiniteSet(InFlight(h))
         /\ Cardinality(InFlight(h)) \in Nat
         /\ Cardinality(Attempt) \in Nat
         /\ Cardinality(InFlight(h)) <= Cardinality(Attempt)
<1>1. InFlight(h) \in SUBSET Attempt
  BY DEF InFlight
<1> QED
  BY <1>1, FS_Subset, FS_CardinalityType, GuardAssumption

LEMMA InFlightFinitePrimed ==
  ASSUME NEW h
  PROVE  /\ IsFiniteSet(InFlight(h)')
         /\ Cardinality(InFlight(h)') \in Nat
         /\ Cardinality(InFlight(h)') <= Cardinality(Attempt)
<1>1. InFlight(h)' \in SUBSET Attempt
  BY DEF InFlight
<1> QED
  BY <1>1, FS_Subset, FS_CardinalityType, GuardAssumption

LEMMA ClockType ==
  ASSUME GuardTypeOK
  PROVE  now \in 0..MaxTime /\ now \in Nat
<1>1. now \in 0..MaxTime
  BY Zenon DEF GuardTypeOK
<1>2. MaxTime \in Nat
  BY GuardAssumption
<1> QED
  BY <1>1, <1>2

(* What the provers need of GuardTypeOK about one address. *)
LEMMA HostTypes ==
  ASSUME GuardTypeOK, NEW h \in Host
  PROVE  /\ failures[h].count \in Nat /\ failures[h].last \in Nat
         /\ now \in Nat /\ failures[h].last <= now
<1>1. failures[h] \in [count : Nat, last : Nat]
  BY DEF GuardTypeOK
<1>2. now \in Nat
  BY ClockType
<1>3. \A x \in Host : failures[x].last <= now
  BY DEF GuardTypeOK
<1> QED
  BY <1>1, <1>2, <1>3

LEMMA CountedType ==
  ASSUME GuardTypeOK, NEW h \in Host
  PROVE  Counted(h) \in Nat
BY DEF GuardTypeOK, Counted

LEMMA InitInvariant == GuardInit => IInv
<1> SUFFICES ASSUME GuardInit PROVE IInv
  OBVIOUS
<1>1. GuardTypeOK
  BY GuardAssumption DEF GuardInit, GuardTypeOK, NoFailures, Nobody, NoVerdict
<1>2. ChecksCapped
  <2>1. slots = {} /\ {a \in Attempt : stage[a] = "checking"} = {}
    BY DEF GuardInit
  <2> QED
    BY <2>1, FS_EmptySet, GuardAssumption DEF ChecksCapped
<1>3. OvershootBounded
  <2> SUFFICES ASSUME NEW h \in Host
               PROVE  Counted(h) + Cardinality(InFlight(h)) <= LockoutFailures - 1 + Cardinality(Attempt)
    BY DEF OvershootBounded
  <2>1. Counted(h) = 0
    BY DEF GuardInit, Counted, Stale, NoFailures
  <2> QED
    BY <2>1, InFlightFinite, GuardAssumption
<1> QED
  BY <1>1, <1>2, <1>3 DEF IInv

-----------------------------------------------------------------------------
(* Types. *)

LEMMA TypePreserved == GuardTypeOK /\ [GuardNext]_guardVars => GuardTypeOK'
<1> SUFFICES ASSUME GuardTypeOK, [GuardNext]_guardVars PROVE GuardTypeOK'
  OBVIOUS
<1> USE GuardAssumption
<1>1. ASSUME NEW a \in Attempt, Begin(a) PROVE GuardTypeOK'
  <2>1. PICK h \in Host, right \in BOOLEAN :
          client' = [client EXCEPT ![a] = [host |-> h, right |-> right, left |-> FALSE]]
    BY <1>1 DEF Begin
  <2>2. /\ stage' = [stage EXCEPT ![a] = "called"]
        /\ UNCHANGED <<failures, slots, now, verdict>>
    BY <1>1 DEF Begin, MoveTo
  <2>3. client' \in [Attempt -> [host : Host \cup {NoHost}, right : BOOLEAN, left : BOOLEAN]]
    BY <2>1 DEF GuardTypeOK
  <2>4. \A x \in Attempt : stage'[x] # "idle" => client'[x].host \in Host
    BY <2>1, <2>2 DEF GuardTypeOK
  <2> QED
    BY <2>2, <2>3, <2>4 DEF GuardTypeOK
<1>2. ASSUME NEW a \in Attempt, Leave(a) PROVE GuardTypeOK'
  BY <1>2 DEF GuardTypeOK, Leave
<1>3. ASSUME NEW a \in Attempt, CheckLockout(a) PROVE GuardTypeOK'
  <2>1. verdict' = verdict \/ verdict' = [verdict EXCEPT ![a].refusal = "address locked out"]
    BY <1>3 DEF CheckLockout
  <2>2. verdict' \in [Attempt -> [ok : BOOLEAN, lockedOutNow : BOOLEAN,
          refusal : {"none", "address locked out", "client left while waiting its turn"}]]
    <3>1. CASE verdict' = verdict
      BY <3>1 DEF GuardTypeOK
    <3>2. CASE verdict' = [verdict EXCEPT ![a].refusal = "address locked out"]
      BY <3>2 DEF GuardTypeOK
    <3> QED
      BY <2>1, <3>1, <3>2
  <2>3. /\ stage' = [stage EXCEPT ![a] = "pausing"] \/ stage' = [stage EXCEPT ![a] = "waiting"]
        /\ stage[a] = "called"
        /\ UNCHANGED <<failures, slots, now, client>>
    BY <1>3 DEF CheckLockout, MoveTo
  <2> QED
    BY <2>2, <2>3 DEF GuardTypeOK
<1>4. ASSUME NEW a \in Attempt, TakeSlot(a) PROVE GuardTypeOK'
  BY <1>4 DEF GuardTypeOK, TakeSlot, MoveTo
<1>5. ASSUME NEW a \in Attempt, GiveUpWaiting(a) PROVE GuardTypeOK'
  BY <1>5 DEF GuardTypeOK, GiveUpWaiting, MoveTo
<1>6. ASSUME NEW a \in Attempt, Checked(a) PROVE GuardTypeOK'
  <2>1. PICK ok \in BOOLEAN : verdict' = [verdict EXCEPT ![a].ok = ok]
    <3>1. PICK readable \in BOOLEAN :
            verdict' = [verdict EXCEPT ![a].ok = (client[a].right /\ readable)]
      BY <1>6 DEF Checked
    <3>2. (client[a].right /\ readable) \in BOOLEAN
      OBVIOUS
    <3> QED
      BY <3>1, <3>2
  <2>2. verdict' \in [Attempt -> [ok : BOOLEAN, lockedOutNow : BOOLEAN,
          refusal : {"none", "address locked out", "client left while waiting its turn"}]]
    BY <2>1 DEF GuardTypeOK
  <2>3. /\ stage' = [stage EXCEPT ![a] = "checked"]
        /\ stage[a] = "checking"
        /\ slots' = slots \ {a}
        /\ UNCHANGED <<failures, now, client>>
    BY <1>6 DEF Checked, ReleaseSlot, MoveTo
  <2> QED
    BY <2>2, <2>3 DEF GuardTypeOK
<1>7. ASSUME NEW a \in Attempt, Accept(a) PROVE GuardTypeOK'
  <2>1. /\ failures' = [failures EXCEPT ![client[a].host] = [count |-> 0, last |-> 0]]
        /\ stage' = [stage EXCEPT ![a] = "answered"]
        /\ stage[a] = "checked"
        /\ UNCHANGED <<slots, now, client, verdict>>
    BY <1>7 DEF Accept, MoveTo, NoFailures
  <2>2. failures' \in [Host -> [count : Nat, last : Nat]]
    BY <2>1 DEF GuardTypeOK
  <2>3. \A x \in Host : failures'[x].last <= now'
    <3>1. \A x \in Host : failures'[x] = IF x = client[a].host THEN [count |-> 0, last |-> 0] ELSE failures[x]
      BY <2>1 DEF GuardTypeOK
    <3>2. now' = now /\ now \in Nat
      BY <2>1, ClockType
    <3> QED
      BY <3>1, <3>2, HostTypes
  <2> QED
    BY <2>1, <2>2, <2>3 DEF GuardTypeOK
<1>8. ASSUME NEW a \in Attempt, RecordFailure(a) PROVE GuardTypeOK'
  <2> DEFINE h == client[a].host
             count == Pruned[h].count + 1
  <2>1. h \in Host
    BY <1>8 DEF GuardTypeOK, RecordFailure
  <2>2. Pruned \in [Host -> [count : Nat, last : Nat]]
    BY DEF GuardTypeOK, Pruned, NoFailures
  <2>3. \A x \in Host : Pruned[x].last <= now
    <3>1. \A x \in Host : Pruned[x] = failures[x] \/ Pruned[x] = [count |-> 0, last |-> 0]
      BY DEF Pruned, NoFailures
    <3>2. now \in Nat
      BY ClockType
    <3> QED
      BY <3>1, <3>2, HostTypes
  <2>4. count \in Nat
    BY <2>1, <2>2
  <2>5. /\ failures' = [Pruned EXCEPT ![h] = [count |-> count, last |-> now]]
        /\ verdict' = [verdict EXCEPT ![a].lockedOutNow = (count = LockoutFailures)]
        /\ stage' = [stage EXCEPT ![a] = "pausing"]
        /\ UNCHANGED <<slots, now, client>>
    BY <1>8 DEF RecordFailure, MoveTo, LocksOut
  <2> HIDE DEF h, count
  <2>6. /\ failures' \in [Host -> [count : Nat, last : Nat]]
        /\ \A x \in Host : failures'[x].last <= now'
    <3>1. now \in Nat
      BY ClockType
    <3>2. \A x \in Host : failures'[x] = IF x = h THEN [count |-> count, last |-> now] ELSE Pruned[x]
      BY <2>1, <2>2, <2>5
    <3>3. failures' \in [Host -> [count : Nat, last : Nat]]
      BY <2>1, <2>2, <2>4, <2>5, <3>1
    <3>4. \A x \in Host : failures'[x].last <= now
      BY <3>1, <3>2, <2>3
    <3> QED
      BY <3>3, <3>4, <2>5
  <2>7. stage[a] = "checked"
    BY <1>8 DEF RecordFailure
  <2>8. verdict' \in [Attempt -> [ok : BOOLEAN, lockedOutNow : BOOLEAN,
          refusal : {"none", "address locked out", "client left while waiting its turn"}]]
    <3> DEFINE now_locked == (count = LockoutFailures)
    <3>1. now_locked \in BOOLEAN
      OBVIOUS
    <3> HIDE DEF now_locked
    <3>2. verdict' = [verdict EXCEPT ![a].lockedOutNow = now_locked]
      BY <2>5 DEF now_locked
    <3> QED
      BY <3>1, <3>2 DEF GuardTypeOK
  <2> QED
    BY <2>5, <2>6, <2>7, <2>8 DEF GuardTypeOK
<1>9. ASSUME NEW a \in Attempt, PauseEnds(a) PROVE GuardTypeOK'
  BY <1>9 DEF GuardTypeOK, PauseEnds, MoveTo
<1>10. ASSUME NEW a \in Attempt, ReturnAnswer(a) PROVE GuardTypeOK'
  BY <1>10 DEF GuardTypeOK, ReturnAnswer, MoveTo, Nobody, NoVerdict
<1>11. CASE Tick
  <2>1. now < MaxTime /\ now' = now + 1 /\ UNCHANGED <<failures, slots, stage, client, verdict>>
    BY <1>11 DEF Tick
  <2>2. now' \in 0..MaxTime
    BY <2>1, ClockType
  <2>3. \A h \in Host : failures'[h].last <= now'
    BY <2>1, HostTypes
  <2> QED
    BY <2>1, <2>2, <2>3 DEF GuardTypeOK
<1>12. CASE UNCHANGED guardVars
  BY <1>12 DEF GuardTypeOK, guardVars
<1> QED
  BY <1>1, <1>2, <1>3, <1>4, <1>5, <1>6, <1>7, <1>8, <1>9, <1>10, <1>11, <1>12
     DEF GuardNext, Verify

-----------------------------------------------------------------------------
(* Slots. *)

LEMMA SlotsPreserved == GuardTypeOK /\ ChecksCapped /\ [GuardNext]_guardVars => ChecksCapped'
<1> SUFFICES ASSUME GuardTypeOK, ChecksCapped, [GuardNext]_guardVars PROVE ChecksCapped'
  OBVIOUS
<1>0. IsFiniteSet(slots) /\ Cardinality(slots) \in Nat
  BY FS_Subset, FS_CardinalityType, GuardAssumption DEF GuardTypeOK
<1>1. ASSUME NEW a \in Attempt, TakeSlot(a) PROVE ChecksCapped'
  <2>1. slots' = slots \cup {a} /\ Cardinality(slots) < MaxChecks
    BY <1>1 DEF TakeSlot, SlotFree
  <2>2. Cardinality(slots') <= MaxChecks
    <3>1. Cardinality(slots') \in {Cardinality(slots), Cardinality(slots) + 1}
      BY <1>0, <2>1, FS_AddElement
    <3> QED
      BY <1>0, <2>1, <3>1, GuardAssumption
  <2>3. slots' = {x \in Attempt : stage'[x] = "checking"}
    BY <1>1, <2>1 DEF TakeSlot, MoveTo, ChecksCapped, GuardTypeOK
  <2> QED
    BY <2>2, <2>3 DEF ChecksCapped
<1>2. ASSUME NEW a \in Attempt, Checked(a) PROVE ChecksCapped'
  <2>1. slots' = slots \ {a}
    BY <1>2 DEF Checked, ReleaseSlot
  <2>2. Cardinality(slots') <= MaxChecks
    <3>1. Cardinality(slots') \in {Cardinality(slots), Cardinality(slots) - 1}
      BY <1>0, <2>1, FS_RemoveElement
    <3> QED
      BY <1>0, <3>1, GuardAssumption DEF ChecksCapped
  <2>3. slots' = {x \in Attempt : stage'[x] = "checking"}
    BY <1>2, <2>1 DEF Checked, MoveTo, ChecksCapped, GuardTypeOK
  <2> QED
    BY <2>2, <2>3 DEF ChecksCapped
<1>3. ASSUME slots' = slots, \A x \in Attempt : stage'[x] = "checking" <=> stage[x] = "checking"
      PROVE  ChecksCapped'
  BY <1>3 DEF ChecksCapped
<1>4. ASSUME NEW a \in Attempt,
             Begin(a) \/ Leave(a) \/ CheckLockout(a) \/ GiveUpWaiting(a) \/ Accept(a)
               \/ RecordFailure(a) \/ PauseEnds(a) \/ ReturnAnswer(a)
      PROVE  slots' = slots /\ \A x \in Attempt : stage'[x] = "checking" <=> stage[x] = "checking"
  BY <1>4 DEF Begin, Leave, CheckLockout, GiveUpWaiting, Accept, RecordFailure, PauseEnds,
     ReturnAnswer, MoveTo, GuardTypeOK
<1>5. CASE Tick \/ UNCHANGED guardVars
  BY <1>5 DEF Tick, guardVars, ChecksCapped
<1> QED
  BY <1>1, <1>2, <1>3, <1>4, <1>5 DEF GuardNext, Verify

-----------------------------------------------------------------------------
(* The overshoot. *)

LEMMA OvershootPreserved ==
  GuardTypeOK /\ OvershootBounded /\ [GuardNext]_guardVars => OvershootBounded'
<1> SUFFICES ASSUME GuardTypeOK, OvershootBounded, [GuardNext]_guardVars, NEW h \in Host
             PROVE  (Counted(h) + Cardinality(InFlight(h)) <= LockoutFailures - 1 + Cardinality(Attempt))'
  BY DEF OvershootBounded
<1> DEFINE Bounded == Counted(h)' + Cardinality(InFlight(h)')
                        <= LockoutFailures - 1 + Cardinality(Attempt)
<1>0. /\ Counted(h) \in Nat /\ Counted(h)' \in Nat
      /\ Cardinality(InFlight(h)) \in Nat /\ Cardinality(InFlight(h)') \in Nat
      /\ Cardinality(Attempt) \in Nat /\ LockoutFailures \in Nat \ {0}
      /\ Cardinality(InFlight(h)') <= Cardinality(Attempt)
      /\ Counted(h) + Cardinality(InFlight(h)) <= LockoutFailures - 1 + Cardinality(Attempt)
  <2>1. GuardTypeOK'
    BY TypePreserved
  <2>2. Counted(h)' \in Nat
    BY <2>1 DEF GuardTypeOK, Counted
  <2> QED
    BY <2>2, CountedType, InFlightFinite, InFlightFinitePrimed, GuardAssumption DEF OvershootBounded
(* Fewer attempts in flight and no failure more. *)
<1>1. ASSUME InFlight(h)' \subseteq InFlight(h), Counted(h)' <= Counted(h) PROVE Bounded
  <2>1. Cardinality(InFlight(h)') <= Cardinality(InFlight(h))
    BY <1>1, FS_Subset, InFlightFinite
  <2> QED
    BY <2>1, <1>1, <1>0
(* Below the limit, any number of attempts may be in flight. *)
<1>2. ASSUME Counted(h)' < LockoutFailures PROVE Bounded
  BY <1>2, <1>0
<1>3. ASSUME NEW a \in Attempt, CheckLockout(a) PROVE Bounded
  <2>1. Counted(h)' = Counted(h)
    BY <1>3 DEF CheckLockout, Counted, Stale
  <2>2. CASE client[a].host = h /\ ~LockedOut(h)
    <3>1. Counted(h) < LockoutFailures
      BY <2>2, HostTypes, GuardAssumption DEF LockedOut, Counted, Stale
    <3> QED
      BY <3>1, <2>1, <1>2
  <2>3. CASE client[a].host # h \/ LockedOut(h)
    <3>1. InFlight(h)' \subseteq InFlight(h)
      BY <2>3, <1>3 DEF CheckLockout, InFlight, MoveTo, GuardTypeOK
    <3> QED
      BY <3>1, <2>1, <1>1, <1>0
  <2> QED
    BY <2>2, <2>3
<1>4. ASSUME NEW a \in Attempt, Accept(a) PROVE Bounded
  <2>1. Counted(h)' <= Counted(h)
    <3>1. failures'[h] = [count |-> 0, last |-> 0] \/ failures'[h] = failures[h]
      BY <1>4 DEF Accept, NoFailures, GuardTypeOK
    <3>2. now' = now
      BY <1>4 DEF Accept
    <3> QED
      BY <3>1, <3>2, <1>0 DEF Counted, Stale
  <2>2. InFlight(h)' \subseteq InFlight(h)
    BY <1>4 DEF Accept, InFlight, MoveTo, GuardTypeOK
  <2> QED
    BY <2>1, <2>2, <1>1
<1>5. ASSUME NEW a \in Attempt, RecordFailure(a) PROVE Bounded
  <2> DEFINE g == client[a].host
  <2>1. /\ stage[a] = "checked" /\ g \in Host
        /\ failures' = [Pruned EXCEPT ![g] = [count |-> Pruned[g].count + 1, last |-> now]]
        /\ stage' = [stage EXCEPT ![a] = "pausing"]
        /\ UNCHANGED <<now, client>>
    BY <1>5 DEF RecordFailure, MoveTo, GuardTypeOK
  <2>2. Pruned \in [Host -> [count : Nat, last : Nat]]
    BY DEF GuardTypeOK, Pruned, NoFailures
  <2>3. Pruned[h].count = Counted(h)
    BY DEF Pruned, Counted, NoFailures
  <2> HIDE DEF g
  <2>4. InFlight(h)' = IF g = h THEN InFlight(h) \ {a} ELSE InFlight(h)
    <3> USE DEF g
    <3> QED
      BY <2>1 DEF InFlight, GuardTypeOK
  <2>5. CASE g = h
    <3>1. failures'[h] = [count |-> Counted(h) + 1, last |-> now]
      BY <2>1, <2>2, <2>3, <2>5
    <3>2. Counted(h)' = Counted(h) + 1
      <4>1. failures'[h].last = now /\ failures'[h].count = Counted(h) + 1 /\ now' = now
        BY <3>1, <2>1
      <4>2. ~Stale(h)'
        BY <4>1, HostTypes, GuardAssumption DEF Stale
      <4> QED
        BY <4>1, <4>2 DEF Counted
    <3>3. a \in InFlight(h)
      BY <2>1, <2>5 DEF InFlight, g
    <3>4. Cardinality(InFlight(h)') = Cardinality(InFlight(h)) - 1
      BY <2>4, <2>5, <3>3, FS_RemoveElement, InFlightFinite
    <3> QED
      BY <3>2, <3>4, <1>0
  <2>6. CASE g # h
    <3>1. failures'[h] = Pruned[h] /\ now' = now
      BY <2>1, <2>2, <2>6
    <3>2. Counted(h)' = 0 \/ Counted(h)' = failures'[h].count
      BY DEF Counted
    <3>3. Counted(h)' <= Counted(h)
      BY <3>1, <3>2, <2>3, <1>0
    <3> QED
      BY <3>3, <2>4, <2>6, <1>1
  <2> QED
    BY <2>5, <2>6
<1>6. ASSUME NEW a \in Attempt,
             Begin(a) \/ Leave(a) \/ TakeSlot(a) \/ GiveUpWaiting(a) \/ Checked(a)
               \/ PauseEnds(a) \/ ReturnAnswer(a)
      PROVE  Bounded
  <2>1. InFlight(h)' \subseteq InFlight(h)
    <3>1. \A x \in Attempt : x # a => stage'[x] = stage[x] /\ client'[x] = client[x]
      BY <1>6 DEF Begin, Leave, TakeSlot, GiveUpWaiting, Checked, PauseEnds, ReturnAnswer, MoveTo, GuardTypeOK
    <3>2. CASE Leave(a)
      <4>1. stage' = stage /\ client' = [client EXCEPT ![a].left = TRUE]
        BY <3>2 DEF Leave
      <4>2. client \in [Attempt -> [host : Host \cup {NoHost}, right : BOOLEAN, left : BOOLEAN]]
        BY DEF GuardTypeOK
      <4>3. client'[a].host = client[a].host
        BY <4>1, <4>2
      <4> QED
        BY <4>1, <4>3, <3>1 DEF InFlight
    <3>3. CASE Begin(a) \/ GiveUpWaiting(a) \/ PauseEnds(a) \/ ReturnAnswer(a)
      <4>1. stage'[a] \notin {"waiting", "checking", "checked"}
        BY <3>3 DEF Begin, GiveUpWaiting, PauseEnds, ReturnAnswer, MoveTo, GuardTypeOK
      <4> QED
        BY <4>1, <3>1 DEF InFlight
    <3>4. CASE TakeSlot(a) \/ Checked(a)
      <4>1. stage[a] \in {"waiting", "checking"} /\ client'[a] = client[a]
        BY <3>4 DEF TakeSlot, Checked
      <4> QED
        BY <4>1, <3>1 DEF InFlight
    <3> QED
      BY <1>6, <3>2, <3>3, <3>4
  <2>2. Counted(h)' = Counted(h)
    BY <1>6 DEF Begin, Leave, TakeSlot, GiveUpWaiting, Checked, PauseEnds, ReturnAnswer, Counted, Stale
  <2> QED
    BY <2>1, <2>2, <1>1, <1>0
<1>7. CASE Tick
  <2>1. InFlight(h)' = InFlight(h)
    BY <1>7 DEF Tick, InFlight
  <2>2. Counted(h)' <= Counted(h)
    BY <1>7, <1>0, HostTypes, GuardAssumption DEF Tick, Counted, Stale
  <2> QED
    BY <2>1, <2>2, <1>1
<1>8. CASE UNCHANGED guardVars
  BY <1>8, <1>0 DEF guardVars, InFlight, Counted, Stale
<1> QED
  BY <1>3, <1>4, <1>5, <1>6, <1>7, <1>8 DEF GuardNext, Verify

-----------------------------------------------------------------------------
(* Whatever the attempts do, in whatever order, the guard's state keeps its
   types, no more than MaxChecks passwords are being checked, and no address
   fails more often than the limit and its attempts under way allow. *)
THEOREM Invariance == GuardSpec => []IInv
<1>1. IInv /\ [GuardNext]_guardVars => IInv'
  BY TypePreserved, SlotsPreserved, OvershootPreserved DEF IInv
<1> QED
  BY InitInvariant, <1>1, PTL DEF GuardSpec

(* The types of the guard's state. *)
THEOREM TypeCorrect == GuardSpec => []GuardTypeOK
BY Invariance, PTL DEF IInv

(* A flood of sign-in attempts runs no more than maxConcurrentPasswordChecks
   key derivations at once (password_guard.go:87-93). *)
THEOREM ChecksAreCapped == GuardSpec => []ChecksCapped
BY Invariance, PTL DEF IInv

(* The failures an address can have counted while locked out exceed the limit
   by less than the attempts under way (password_guard.go:82, 99). *)
THEOREM OvershootIsBounded == GuardSpec => []OvershootBounded
BY Invariance, PTL DEF IInv

-----------------------------------------------------------------------------
(* The history of an address.  The starts of the runs of failures that end at
   entry i of a history s. *)
RunFrom(s, j, i) ==
  /\ \A k \in j..i : ~s[k].ok
  /\ \A k \in j..(i - 1) : s[k + 1].at - s[k].at < Lockout

RunStarts(s, i) == {j \in 1..i : RunFrom(s, j, i)}

LEMMA RunLengthIsStarts ==
  ASSUME NEW h, NEW i
  PROVE  RunLength(h, i) = Cardinality(RunStarts(log[h], i))
BY DEF RunLength, RunStarts, RunFrom, IsRun

LEMMA RunLengthIsStartsPrimed ==
  ASSUME NEW h, NEW i
  PROVE  RunLength(h, i)' = Cardinality(RunStarts(log'[h], i))
BY DEF RunLength, RunStarts, RunFrom, IsRun

LEMMA RunStartsFinite ==
  ASSUME NEW s, NEW i \in Nat
  PROVE  /\ IsFiniteSet(RunStarts(s, i))
         /\ Cardinality(RunStarts(s, i)) \in Nat
<1>1. RunStarts(s, i) \subseteq 1..i
  BY DEF RunStarts
<1>2. IsFiniteSet(1..i)
  BY FS_Interval
<1> QED
  BY <1>1, <1>2, FS_Subset, FS_CardinalityType

(* A success ends the run. *)
LEMMA NoRunAfterSuccess ==
  ASSUME NEW s, NEW i \in Nat, i > 0, s[i].ok
  PROVE  Cardinality(RunStarts(s, i)) = 0
<1>1. RunStarts(s, i) = {}
  BY DEF RunStarts, RunFrom
<1> QED
  BY <1>1, FS_EmptySet

(* A longer history has the same runs where it is the same. *)
LEMMA RunsStay ==
  ASSUME NEW s \in Seq(Entry), NEW e \in Entry, NEW i \in 1..Len(s)
  PROVE  RunStarts(Append(s, e), i) = RunStarts(s, i)
<1>1. \A k \in 1..Len(s) : Append(s, e)[k] = s[k]
  OBVIOUS
<1> DEFINE t == Append(s, e)
<1> HIDE DEF t
<1>2. \A k \in 1..Len(s) : t[k] = s[k]
  BY <1>1 DEF t
<1>3. Len(s) \in Nat
  OBVIOUS
<1>4. ASSUME NEW j \in 1..i PROVE RunFrom(t, j, i) <=> RunFrom(s, j, i)
  <2>1. /\ \A k \in j..i : t[k] = s[k]
        /\ \A k \in j..(i - 1) : t[k] = s[k] /\ t[k + 1] = s[k + 1]
    BY <1>2, <1>3
  <2> QED
    BY <2>1 DEF RunFrom
<1>5. RunStarts(t, i) = RunStarts(s, i)
  BY <1>4 DEF RunStarts
<1> QED
  BY <1>5 DEF t

(* A failure continues the run before it, or begins one. *)
LEMMA RunGrows ==
  ASSUME NEW s \in Seq(Entry), NEW e \in Entry, ~e.ok
  PROVE  LET n == Len(s) IN
           Cardinality(RunStarts(Append(s, e), n + 1)) =
             IF n > 0 /\ ~s[n].ok /\ e.at - s[n].at < Lockout
             THEN Cardinality(RunStarts(s, n)) + 1 ELSE 1
<1> DEFINE n == Len(s)
           t == Append(s, e)
<1>1. /\ n \in Nat
      /\ t[n + 1] = e
      /\ \A k \in 1..n : t[k] = s[k]
  OBVIOUS
<1> HIDE DEF n, t
<1>2. n + 1 \in RunStarts(t, n + 1)
  BY <1>1 DEF RunStarts, RunFrom
<1>3. CASE n > 0 /\ ~s[n].ok /\ e.at - s[n].at < Lockout
  <2>1. \A j \in 1..n : j \in RunStarts(t, n + 1) <=> j \in RunStarts(s, n)
    <3> SUFFICES ASSUME NEW j \in 1..n
                 PROVE  j \in RunStarts(t, n + 1) <=> j \in RunStarts(s, n)
      OBVIOUS
    <3>1. (\A k \in j..(n + 1) : ~t[k].ok) <=> (\A k \in j..n : ~s[k].ok)
      BY <1>1
    <3>2. (\A k \in j..n : t[k + 1].at - t[k].at < Lockout)
            <=> (\A k \in j..(n - 1) : s[k + 1].at - s[k].at < Lockout)
      <4>1. \A k \in j..(n - 1) : t[k + 1] = s[k + 1] /\ t[k] = s[k]
        BY <1>1
      <4>2. t[n + 1].at - t[n].at < Lockout
        BY <1>1, <1>3
      <4>3. \A k \in j..n : k \in j..(n - 1) \/ k = n
        BY <1>1
      <4>4. \A k \in j..(n - 1) : k \in j..n
        BY <1>1
      <4> QED
        BY <4>1, <4>2, <4>3, <4>4
    <3>3. n + 1 - 1 = n /\ j \in 1..(n + 1)
      BY <1>1
    <3>4. PICK m \in Nat : m = n + 1
      BY <1>1
    <3>5. m - 1 = n
      BY <3>4, <1>1
    <3>6. RunFrom(t, j, m) <=> RunFrom(s, j, n)
      BY <3>1, <3>2, <3>4, <3>5 DEF RunFrom
    <3> QED
      BY <3>3, <3>4, <3>6 DEF RunStarts
  <2>2. RunStarts(t, n + 1) = RunStarts(s, n) \cup {n + 1}
    <3>1. RunStarts(t, n + 1) \subseteq 1..(n + 1) /\ RunStarts(s, n) \subseteq 1..n
      BY DEF RunStarts
    <3>2. \A j \in 1..(n + 1) : j \in 1..n \/ j = n + 1
      BY <1>1
    <3> QED
      BY <1>2, <2>1, <3>1, <3>2
  <2>3. n + 1 \notin RunStarts(s, n)
    BY <1>1 DEF RunStarts
  <2> QED
    BY <1>1, <1>3, <2>2, <2>3, RunStartsFinite, FS_AddElement DEF n, t
<1>4. CASE ~(n > 0 /\ ~s[n].ok /\ e.at - s[n].at < Lockout)
  <2>1. \A j \in 1..n : j \notin RunStarts(t, n + 1)
    <3> SUFFICES ASSUME NEW j \in 1..n, j \in RunStarts(t, n + 1) PROVE FALSE
      OBVIOUS
    <3>1. n \in j..(n + 1) /\ n \in j..(n + 1 - 1) /\ n > 0 /\ n \in 1..n
      BY <1>1
    <3>2. ~t[n].ok /\ t[n + 1].at - t[n].at < Lockout
      BY <3>1 DEF RunStarts, RunFrom
    <3> QED
      BY <1>1, <1>4, <3>1, <3>2
  <2>2. RunStarts(t, n + 1) = {n + 1}
    <3>1. RunStarts(t, n + 1) \subseteq 1..(n + 1)
      BY DEF RunStarts
    <3>2. \A j \in 1..(n + 1) : j \in 1..n \/ j = n + 1
      BY <1>1
    <3> QED
      BY <1>2, <2>1, <3>1, <3>2
  <2> QED
    BY <1>4, <2>2, FS_Singleton DEF n, t
<1> QED
  BY <1>3, <1>4

(* What the guard keeps of every history. *)
GuardInv == IInv /\ LogInv

LEMMA StepIsNext == [LNext]_<<guardVars, log>> => [GuardNext]_guardVars
BY DEF LNext, GuardNext, Verify, guardVars

LEMMA LogInitInvariant == LInit => GuardInv
<1> SUFFICES ASSUME LInit PROVE GuardInv
  OBVIOUS
<1>1. IInv
  BY InitInvariant DEF LInit
<1>2. LogTypeOK /\ LockoutReportedOnce /\ \A h \in Host : Len(log[h]) = 0
  BY DEF LInit, LogTypeOK, LockoutReportedOnce
<1>3. CountFitsLog /\ ReportIsCounted
  BY <1>2 DEF LInit, GuardInit, CountFitsLog, ReportIsCounted, NoFailures, NoVerdict
<1> QED
  BY <1>1, <1>2, <1>3 DEF GuardInv, LogInv

LEMMA LogTypes ==
  ASSUME LogTypeOK, NEW h \in Host
  PROVE  /\ log[h] \in Seq(Entry) /\ Len(log[h]) \in Nat
         /\ \A i \in 1..Len(log[h]) : log[h][i].ok \in BOOLEAN /\ log[h][i].at \in Nat
         /\ RunLength(h, Len(log[h])) \in Nat
<1>1. log[h] \in Seq(Entry)
  BY DEF LogTypeOK
<1>2. Len(log[h]) \in Nat /\ \A i \in 1..Len(log[h]) : log[h][i] \in Entry
  BY <1>1
<1> QED
  BY <1>1, <1>2, RunLengthIsStarts, RunStartsFinite DEF Entry

(* What a count and its history say to each other, for one address. *)
LEMMA CountOfHost ==
  ASSUME GuardInv, NEW h \in Host
  PROVE  LET n == Len(log[h]) IN
         /\ failures[h].count \in Nat /\ failures[h].last \in Nat
         /\ n \in Nat /\ now \in Nat
         /\ failures[h].count > 0 =>
              n > 0 /\ failures[h].last = log[h][n].at /\ failures[h].count = RunLength(h, n)
         /\ failures[h].count = 0 /\ n > 0 => log[h][n].ok \/ now - log[h][n].at >= Lockout
BY HostTypes, LogTypes DEF GuardInv, IInv, LogInv, CountFitsLog

LEMMA NothingCounted ==
  ASSUME GuardInv, UNCHANGED <<failures, log>>, now' \in Nat, now' >= now
  PROVE  CountFitsLog' /\ LockoutReportedOnce' /\ LogTypeOK'
<1>1. LockoutReportedOnce' /\ LogTypeOK'
  BY DEF GuardInv, LogInv, LockoutReportedOnce, LogTypeOK, RunLength, IsRun
<1>2. ASSUME NEW h \in Host, Len(log[h]) > 0, now - log[h][Len(log[h])].at >= Lockout
      PROVE  now' - log[h][Len(log[h])].at >= Lockout
  <2>1. log[h][Len(log[h])].at \in Nat /\ now \in Nat /\ Lockout \in Nat
    BY <1>2, LogTypes, CountOfHost, GuardAssumption DEF GuardInv, LogInv
  <2> QED
    BY <1>2, <2>1
<1>3. CountFitsLog'
  BY <1>2 DEF GuardInv, LogInv, CountFitsLog, RunLength, IsRun
<1> QED
  BY <1>1, <1>3

(* An outcome appended to the history of one address leaves the other histories
   and all earlier entries as they were. *)
LEMMA EarlierReportsStay ==
  ASSUME GuardInv, NEW h \in Host, NEW e \in Entry,
         log' = [log EXCEPT ![h] = Append(@, e)],
         e.locked <=>
           Cardinality(RunStarts(Append(log[h], e), Len(log[h]) + 1)) = LockoutFailures
  PROVE  LogTypeOK' /\ LockoutReportedOnce'
<1>1. LogTypeOK'
  BY DEF GuardInv, LogInv, LogTypeOK
<1>2. ASSUME NEW g \in Host, NEW i \in 1..Len(log'[g])
      PROVE  log'[g][i].locked <=> Cardinality(RunStarts(log'[g], i)) = LockoutFailures
  <2>1. log[g] \in Seq(Entry) /\ Len(log[g]) \in Nat
    BY LogTypes DEF GuardInv, LogInv
  <2>2. CASE g # h
    <3>1. log'[g] = log[g]
      BY <2>2 DEF GuardInv, LogInv, LogTypeOK
    <3> QED
      BY <1>2, <3>1, RunLengthIsStarts DEF GuardInv, LogInv, LockoutReportedOnce
  <2>3. CASE g = h /\ i \in 1..Len(log[h])
    <3>1. log'[h] = Append(log[h], e)
      BY DEF GuardInv, LogInv, LogTypeOK
    <3>2. log'[h][i] = log[h][i]
      BY <2>1, <2>3, <3>1
    <3>3. RunStarts(log'[h], i) = RunStarts(log[h], i)
      BY <2>1, <2>3, <3>1, RunsStay
    <3> QED
      BY <2>3, <3>2, <3>3, RunLengthIsStarts DEF GuardInv, LogInv, LockoutReportedOnce
  <2>4. CASE g = h /\ i \notin 1..Len(log[h])
    <3>1. log'[h] = Append(log[h], e)
      BY DEF GuardInv, LogInv, LogTypeOK
    <3>2. i = Len(log[h]) + 1
      BY <1>2, <2>1, <2>4, <3>1
    <3>3. log'[h][i] = e
      BY <2>1, <2>4, <3>1, <3>2
    <3> QED
      BY <2>4, <3>1, <3>2, <3>3
  <2> QED
    BY <2>2, <2>3, <2>4
<1>3. LockoutReportedOnce'
  BY <1>2, RunLengthIsStartsPrimed DEF LockoutReportedOnce
<1> QED
  BY <1>1, <1>3

LEMMA AcceptInv ==
  ASSUME GuardInv, NEW a \in Attempt, Accept(a), Logged(a, now)
  PROVE  LogTypeOK' /\ LockoutReportedOnce' /\ CountFitsLog'
<1> DEFINE h == client[a].host
           e == [ok |-> verdict[a].ok, at |-> now, locked |-> verdict'[a].lockedOutNow]
           n == Len(log[h])
<1>1. h \in Host /\ now \in Nat
  BY ClockType DEF Accept, GuardInv, IInv, GuardTypeOK
<1>2. verdict[a].ok \in BOOLEAN /\ verdict'[a].lockedOutNow \in BOOLEAN
  BY DEF Accept, GuardInv, IInv, GuardTypeOK
<1>3. e \in Entry
  BY <1>1, <1>2 DEF Entry
<1>4. e.ok /\ ~e.locked
  BY DEF Accept, GuardInv, LogInv, ReportIsCounted
<1>5. log' = [log EXCEPT ![h] = Append(@, e)]
  BY DEF Logged
<1>6. /\ failures' = [failures EXCEPT ![h] = [count |-> 0, last |-> 0]]
      /\ now' = now
  BY DEF Accept, NoFailures
<1>7. n \in Nat /\ log[h] \in Seq(Entry)
  BY <1>1, LogTypes DEF GuardInv, LogInv
<1> HIDE DEF h, e
<1>8. log'[h] = Append(log[h], e) /\ \A g \in Host : g # h => log'[g] = log[g]
  BY <1>1, <1>5 DEF GuardInv, LogInv, LogTypeOK
<1>9. Len(log'[h]) = n + 1 /\ log'[h][n + 1] = e
  BY <1>3, <1>7, <1>8
<1>10. Cardinality(RunStarts(log'[h], n + 1)) = 0
  BY <1>4, <1>7, <1>9, NoRunAfterSuccess
<1>11. LogTypeOK' /\ LockoutReportedOnce'
  BY <1>1, <1>3, <1>4, <1>5, <1>8, <1>10, EarlierReportsStay, GuardAssumption
<1>12. CountFitsLog'
  <2> SUFFICES ASSUME NEW g \in Host
               PROVE  IF failures'[g].count > 0
                      THEN /\ Len(log'[g]) > 0
                           /\ failures'[g].last = log'[g][Len(log'[g])].at
                           /\ failures'[g].count = Cardinality(RunStarts(log'[g], Len(log'[g])))
                      ELSE Len(log'[g]) > 0 => \/ log'[g][Len(log'[g])].ok
                                               \/ now' - log'[g][Len(log'[g])].at >= Lockout
    BY DEF CountFitsLog, RunLength, RunStarts, RunFrom, IsRun
  <2>1. CASE g = h
    <3>1. failures'[h].count = 0
      BY <1>1, <1>6 DEF GuardInv, IInv, GuardTypeOK
    <3> QED
      BY <2>1, <3>1, <1>4, <1>9
  <2>2. CASE g # h
    <3>1. failures'[g] = failures[g] /\ log'[g] = log[g]
      BY <1>6, <1>8, <2>2 DEF GuardInv, IInv, GuardTypeOK
    <3> QED
      BY <3>1, <1>6, RunLengthIsStarts DEF GuardInv, LogInv, CountFitsLog
  <2> QED
    BY <2>1, <2>2
<1> QED
  BY <1>11, <1>12

LEMMA RecordFailureInv ==
  ASSUME GuardInv, NEW a \in Attempt, RecordFailure(a), Logged(a, now)
  PROVE  LogTypeOK' /\ LockoutReportedOnce' /\ CountFitsLog'
<1> DEFINE h == client[a].host
           e == [ok |-> verdict[a].ok, at |-> now, locked |-> verdict'[a].lockedOutNow]
           n == Len(log[h])
           count == Pruned[h].count + 1
<1>1. h \in Host /\ now \in Nat
  BY ClockType DEF RecordFailure, GuardInv, IInv, GuardTypeOK
<1>2. /\ failures' = [Pruned EXCEPT ![h] = [count |-> count, last |-> now]]
      /\ verdict' = [verdict EXCEPT ![a].lockedOutNow = LocksOut(count)]
      /\ now' = now /\ ~verdict[a].ok
  BY DEF RecordFailure
<1>3. Pruned \in [Host -> [count : Nat, last : Nat]]
  BY DEF GuardInv, IInv, GuardTypeOK, Pruned, NoFailures
<1>4. e \in Entry /\ ~e.ok /\ e.at = now /\ (e.locked <=> count = LockoutFailures)
  <2>1. verdict[a].ok \in BOOLEAN /\ LocksOut(count) \in BOOLEAN
    BY DEF GuardInv, IInv, GuardTypeOK, LocksOut
  <2>2. verdict'[a].lockedOutNow = LocksOut(count)
    BY <1>2 DEF GuardInv, IInv, GuardTypeOK
  <2> QED
    BY <1>1, <1>2, <2>1, <2>2 DEF Entry, LocksOut
<1>5. log' = [log EXCEPT ![h] = Append(@, e)]
  BY DEF Logged
<1>6. n \in Nat /\ log[h] \in Seq(Entry)
  BY <1>1, LogTypes DEF GuardInv, LogInv
<1> HIDE DEF e
<1>7. log'[h] = Append(log[h], e) /\ \A g \in Host : g # h => log'[g] = log[g]
  BY <1>1, <1>5 DEF GuardInv, LogInv, LogTypeOK
<1>8. Len(log'[h]) = n + 1 /\ log'[h][n + 1] = e
  BY <1>4, <1>6, <1>7
<1>9. Cardinality(RunStarts(log'[h], n + 1)) = count
  <2>1. Cardinality(RunStarts(log'[h], n + 1)) =
          IF n > 0 /\ ~log[h][n].ok /\ now - log[h][n].at < Lockout
          THEN Cardinality(RunStarts(log[h], n)) + 1 ELSE 1
    BY <1>4, <1>6, <1>7, RunGrows
  <2>2. /\ failures[h].count \in Nat /\ now \in Nat /\ Lockout \in Nat
        /\ failures[h].count > 0 =>
             /\ n > 0 /\ failures[h].last = log[h][n].at
             /\ failures[h].count = Cardinality(RunStarts(log[h], n))
        /\ failures[h].count = 0 /\ n > 0 => log[h][n].ok \/ now - log[h][n].at >= Lockout
    BY <1>1, CountOfHost, RunLengthIsStarts, GuardAssumption
  <2>3. n > 0 => log[h][n].at \in Nat
    BY <1>1, <1>6, LogTypes DEF GuardInv, LogInv
  <2>4. CASE failures[h].count > 0
    <3>1. ~log[h][n].ok
      BY <1>6, <2>2, <2>4, NoRunAfterSuccess
    <3>2. Pruned[h].count = IF now - log[h][n].at >= Lockout THEN 0 ELSE failures[h].count
      BY <1>1, <2>2, <2>4 DEF Pruned, Stale, NoFailures
    <3> QED
      BY <2>1, <2>2, <2>3, <2>4, <3>1, <3>2
  <2>5. CASE failures[h].count = 0
    <3>1. Pruned[h].count = 0
      BY <1>1, <2>5 DEF Pruned, NoFailures
    <3> QED
      BY <2>1, <2>2, <2>3, <2>5, <3>1
  <2> QED
    BY <2>2, <2>4, <2>5
<1>10. LogTypeOK' /\ LockoutReportedOnce'
  BY <1>1, <1>4, <1>5, <1>7, <1>9, EarlierReportsStay
<1>11. CountFitsLog'
  <2> SUFFICES ASSUME NEW g \in Host
               PROVE  IF failures'[g].count > 0
                      THEN /\ Len(log'[g]) > 0
                           /\ failures'[g].last = log'[g][Len(log'[g])].at
                           /\ failures'[g].count = Cardinality(RunStarts(log'[g], Len(log'[g])))
                      ELSE Len(log'[g]) > 0 => \/ log'[g][Len(log'[g])].ok
                                               \/ now' - log'[g][Len(log'[g])].at >= Lockout
    BY DEF CountFitsLog, RunLength, RunStarts, RunFrom, IsRun
  <2>1. CASE g = h
    <3>1. failures'[h].count = count /\ failures'[h].last = now /\ count > 0
      BY <1>1, <1>2, <1>3
    <3> QED
      BY <1>4, <1>6, <1>8, <1>9, <2>1, <3>1
  <2>2. CASE g # h
    <3>1. failures'[g] = Pruned[g] /\ log'[g] = log[g] /\ now' = now
      BY <1>2, <1>3, <1>7, <2>2
    <3>2. Pruned[g] = IF Stale(g) THEN [count |-> 0, last |-> 0] ELSE failures[g]
      BY DEF Pruned, NoFailures
    <3> QED
      BY <3>1, <3>2, CountOfHost, RunLengthIsStarts DEF Stale
  <2> QED
    BY <2>1, <2>2
<1> QED
  BY <1>10, <1>11

LEMMA ReportPreserved ==
  ASSUME GuardInv, [LNext]_<<guardVars, log>>
  PROVE  ReportIsCounted'
<1> USE DEF GuardInv, IInv, LogInv, GuardTypeOK, ReportIsCounted
<1>1. ASSUME NEW a \in Attempt, Begin(a) \/ Leave(a) \/ TakeSlot(a) \/ PauseEnds(a)
      PROVE  ReportIsCounted'
  BY <1>1 DEF Begin, Leave, TakeSlot, PauseEnds, MoveTo
<1>2. ASSUME NEW a \in Attempt, CheckLockout(a) \/ GiveUpWaiting(a) \/ Checked(a)
      PROVE  ReportIsCounted'
  <2>1. /\ stage[a] \in {"called", "waiting", "checking"}
        /\ \A b \in Attempt : verdict'[b].lockedOutNow = verdict[b].lockedOutNow
        /\ \A b \in Attempt : b # a => stage'[b] = stage[b]
    <3>1. CASE CheckLockout(a) \/ GiveUpWaiting(a)
      <4>1. PICK s : verdict' = verdict \/ verdict' = [verdict EXCEPT ![a].refusal = s]
        BY <3>1 DEF CheckLockout, GiveUpWaiting
      <4>2. \A b \in Attempt : verdict'[b].lockedOutNow = verdict[b].lockedOutNow
        <5>1. CASE verdict' = [verdict EXCEPT ![a].refusal = s]
          BY <5>1
        <5> QED
          BY <4>1, <5>1
      <4>3. \A b \in Attempt : b # a => stage'[b] = stage[b]
        BY <3>1 DEF CheckLockout, GiveUpWaiting, MoveTo
      <4> QED
        BY <3>1, <4>2, <4>3 DEF CheckLockout, GiveUpWaiting
    <3>2. CASE Checked(a)
      <4>1. PICK ok : verdict' = [verdict EXCEPT ![a].ok = ok]
        BY <3>2 DEF Checked
      <4>2. \A b \in Attempt : verdict'[b].lockedOutNow = verdict[b].lockedOutNow
        BY <4>1
      <4> QED
        BY <3>2, <4>2 DEF Checked, MoveTo
    <3> QED
      BY <1>2, <3>1, <3>2
  <2> QED
    BY <2>1
<1>3. ASSUME NEW a \in Attempt, Accept(a) \/ RecordFailure(a) PROVE ReportIsCounted'
  <2>1. /\ stage'[a] \in {"pausing", "answered"}
        /\ \A b \in Attempt : b # a => stage'[b] = stage[b] /\ verdict'[b] = verdict[b]
    BY <1>3 DEF Accept, RecordFailure, MoveTo
  <2> QED
    BY <2>1
<1>4. ASSUME NEW a \in Attempt, ReturnAnswer(a) PROVE ReportIsCounted'
  <2>1. /\ ~verdict'[a].lockedOutNow
        /\ \A b \in Attempt : b # a => stage'[b] = stage[b] /\ verdict'[b] = verdict[b]
    BY <1>4 DEF ReturnAnswer, MoveTo, NoVerdict
  <2> QED
    BY <2>1
<1>5. CASE Tick \/ UNCHANGED guardVars
  BY <1>5 DEF Tick, guardVars
<1> QED
  BY <1>1, <1>2, <1>3, <1>4, <1>5 DEF LNext

LEMMA LogStepInvariant == GuardInv /\ [LNext]_<<guardVars, log>> => GuardInv'
<1> SUFFICES ASSUME GuardInv, [LNext]_<<guardVars, log>> PROVE GuardInv'
  OBVIOUS
<1>1. IInv'
  BY StepIsNext, TypePreserved, SlotsPreserved, OvershootPreserved DEF GuardInv, IInv
<1>2. ReportIsCounted'
  BY ReportPreserved
<1>3. now \in Nat
  BY ClockType DEF GuardInv, IInv
<1>4. ASSUME UNCHANGED <<failures, log>>, now' \in {now, now + 1}
      PROVE  CountFitsLog' /\ LockoutReportedOnce' /\ LogTypeOK'
  BY <1>3, <1>4, NothingCounted
<1>5. ASSUME NEW a \in Attempt,
             Begin(a) \/ Leave(a) \/ CheckLockout(a) \/ TakeSlot(a) \/ GiveUpWaiting(a)
               \/ Checked(a) \/ PauseEnds(a) \/ ReturnAnswer(a)
      PROVE  UNCHANGED <<failures, now>>
  BY <1>5 DEF Begin, Leave, CheckLockout, TakeSlot, GiveUpWaiting, Checked, PauseEnds, ReturnAnswer
<1>6. CountFitsLog' /\ LockoutReportedOnce' /\ LogTypeOK'
  <2>1. CASE Tick /\ UNCHANGED log
    BY <1>4, <2>1 DEF Tick
  <2>2. CASE UNCHANGED <<guardVars, log>>
    BY <1>4, <2>2 DEF guardVars
  <2>3. ASSUME NEW a \in Attempt, UNCHANGED log,
               Begin(a) \/ Leave(a) \/ CheckLockout(a) \/ TakeSlot(a) \/ GiveUpWaiting(a)
                 \/ Checked(a) \/ PauseEnds(a) \/ ReturnAnswer(a)
        PROVE  CountFitsLog' /\ LockoutReportedOnce' /\ LogTypeOK'
    BY <1>4, <1>5, <2>3
  <2>4. ASSUME NEW a \in Attempt, Accept(a) \/ RecordFailure(a), Logged(a, now)
        PROVE  CountFitsLog' /\ LockoutReportedOnce' /\ LogTypeOK'
    BY <2>4, AcceptInv, RecordFailureInv
  <2> QED
    BY <2>1, <2>2, <2>3, <2>4 DEF LNext
<1> QED
  BY <1>1, <1>2, <1>6 DEF GuardInv, LogInv

LEMMA GuardInvariance == LSpec => []GuardInv
BY LogInitInvariant, LogStepInvariant, PTL DEF LSpec

LEMMA CountsDecideLockout == GuardInv => LockoutFollowsHistory
<1> SUFFICES ASSUME GuardInv PROVE LockoutFollowsHistory
  OBVIOUS
<1>1. ASSUME NEW h \in Host
      PROVE  LockedOut(h) <=>
               LET n == Len(log[h]) IN
                 n > 0 /\ RunLength(h, n) >= LockoutFailures /\ now - log[h][n].at < Lockout
  <2> DEFINE n == Len(log[h])
             r == RunLength(h, n)
  <2>1. /\ failures[h].count \in Nat /\ n \in Nat /\ now \in Nat /\ r \in Nat
        /\ failures[h].count > 0 =>
             n > 0 /\ failures[h].last = log[h][n].at /\ failures[h].count = r
        /\ failures[h].count = 0 /\ n > 0 => log[h][n].ok \/ now - log[h][n].at >= Lockout
        /\ n > 0 => log[h][n].at \in Nat
        /\ Lockout \in Nat \ {0} /\ LockoutFailures \in Nat \ {0}
    BY CountOfHost, LogTypes, GuardAssumption DEF GuardInv, LogInv
  <2>2. n > 0 /\ log[h][n].ok => r = 0
    BY <2>1, NoRunAfterSuccess, RunLengthIsStarts
  <2> HIDE DEF r
  <2>3. LockedOut(h) <=> n > 0 /\ r >= LockoutFailures /\ now - log[h][n].at < Lockout
    BY <2>1, <2>2 DEF LockedOut
  <2> QED
    BY <2>3 DEF r
<1> QED
  BY <1>1 DEF LockoutFollowsHistory, LockoutExact, GuardInv, LogInv

(* The count and time kept for an address shut it out exactly when its whole
   history would, and exactly one failure of a run is reported as the lockout
   (password_guard.go:113-138), for any number of addresses and attempts. *)
THEOREM LockoutIsOfHistory == LSpec => []LockoutFollowsHistory
BY GuardInvariance, CountsDecideLockout, PTL
=============================================================================

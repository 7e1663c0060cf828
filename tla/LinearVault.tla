------------------------------ MODULE LinearVault ------------------------------
(***************************************************************************)
(* AtomicVault with its clients: a request is sent, takes effect once, all *)
(* at once, at some moment before its answer comes back, and the answer is *)
(* the one that moment calls for.  A Sign that was granted may still fail; *)
(* what a List answers is left open (VaultAgentCalls says what it may be). *)
(***************************************************************************)
EXTENDS AtomicVault

CONSTANTS Client,
          Request,     \* records with an op and its arguments
          NoRequest,
          HasRecovery  \* there is a recovery phrase

VARIABLES call,        \* the request of each client, or NoRequest
          answer       \* "pending", "granted" (Sign only), or the status of its answer

lvars == <<avars, call, answer>>

LInit ==
  /\ Init
  /\ call = [c \in Client |-> NoRequest]
  /\ answer = [c \in Client |-> "pending"]

Call(c) ==
  /\ call[c] = NoRequest
  /\ \E r \in Request : call' = [call EXCEPT ![c] = r]
  /\ UNCHANGED <<avars, answer>>

Return(c) ==
  /\ answer[c] \notin {"pending", "granted"}
  /\ call' = [call EXCEPT ![c] = NoRequest]
  /\ answer' = [answer EXCEPT ![c] = "pending"]
  /\ UNCHANGED avars

Pending(c, ops) == call[c] # NoRequest /\ answer[c] = "pending" /\ call[c].op \in ops

Answer(c, status) == answer' = [answer EXCEPT ![c] = status] /\ UNCHANGED call

(* An answer that goes with no change. *)
Tell(c, status) == Answer(c, status) /\ UNCHANGED avars

NeedsUnlocked ==
  {"add", "remove", "removeAll", "lock", "sessionLoad", "sessionUnload",
   "setAutoload", "setComment"}

Refuse(c) ==
  \/ Pending(c, NeedsUnlocked) /\ locked /\ Tell(c, "locked")
  \/ /\ Pending(c, {"remove", "sessionLoad", "sessionUnload", "setAutoload", "setComment"})
     /\ ~locked /\ ~Holds(call[c].fp) /\ Tell(c, "notFound")

(* What is as it was asked to be already is not saved again. *)
Already(c) ==
  /\ Pending(c, {"setAutoload", "setComment"})
  /\ ~locked /\ Holds(call[c].fp)
  /\ call[c].op = "setAutoload" => held[call[c].fp].autoload = call[c].on
  /\ call[c].op = "setComment" => held[call[c].fp].comment = call[c].comment
  /\ Tell(c, "ok")

(* The identity that an add makes. *)
MadeFrom(r) ==
  /\ held'[r.fp].autoload = r.autoload /\ held'[r.fp].comment = r.comment
  /\ held'[r.fp] \in Mortal <=> r.lifetime # 0

Change(c, status) ==
  LET r == call[c] IN
  /\ Answer(c, status)
  /\ \/ Pending(c, {"add"}) /\ Add(r.fp, status) /\ MadeFrom(r)
     \/ Pending(c, {"remove"}) /\ Remove(r.fp, status)
     \/ Pending(c, {"removeAll"}) /\ RemoveAll(status)
     \/ Pending(c, {"setAutoload"}) /\ SetAutoload(r.fp, r.on, status)
     \/ Pending(c, {"setComment"}) /\ SetComment(r.fp, r.comment, status)

Session(c) ==
  /\ Answer(c, "ok")
  /\ \/ Pending(c, {"sessionLoad"}) /\ SessionLoad(call[c].fp)
     \/ Pending(c, {"sessionUnload"}) /\ SessionUnload(call[c].fp)

(* A passphrase or a phrase can be wrong.  The phrase is taken from an unlocked vault
   too, the passphrase is not. *)
LockOrUnlock(c) ==
  \/ Pending(c, {"lock"}) /\ Lock /\ Answer(c, "ok")
  \/ /\ Pending(c, {"unlock"})
     /\ IF locked THEN (Unlock /\ Answer(c, "ok")) \/ Tell(c, "wrongPassphrase")
                  ELSE Tell(c, "notLocked")
  \/ /\ Pending(c, {"unlockRecovery"})
     /\ IF HasRecovery THEN (Unlock /\ Answer(c, "ok")) \/ Tell(c, "wrongPassphrase")
                       ELSE Tell(c, "noRecovery")

SignStatus(fp) ==
  IF locked THEN "locked"
  ELSE IF Holds(fp) /\ (held[fp].autoload \/ fp \in shown) THEN "granted" ELSE "notFound"

Ask(c) ==
  \/ Pending(c, {"list"}) /\ Tell(c, "ok")
  \/ Pending(c, {"sign"}) /\ Tell(c, SignStatus(call[c].fp))

SignEnds(c) ==
  answer[c] = "granted" /\ \E status \in SaveStatus : Tell(c, status)

(* List and Sign first drop what has expired, and fail when that is not saved. *)
Purge(c) ==
  /\ Pending(c, {"list", "sign"})
  /\ \E fps \in SUBSET Fingerprint :
       \/ Expire(fps, "ok") /\ UNCHANGED <<call, answer>>
       \/ Expire(fps, "internal") /\ Answer(c, "internal")

Serve(c) ==
  \/ Refuse(c) \/ Already(c) \/ Session(c) \/ LockOrUnlock(c)
  \/ \E status \in SaveStatus : Change(c, status)
  \/ Ask(c) \/ SignEnds(c) \/ Purge(c)

(* No answer survives a restart. *)
Crash ==
  /\ Restart
  /\ call' = [c \in Client |-> NoRequest]
  /\ answer' = [c \in Client |-> "pending"]

LNext == Crash \/ \E c \in Client : Call(c) \/ Return(c) \/ Serve(c)

LSpec == LInit /\ [][LNext]_lvars
=============================================================================

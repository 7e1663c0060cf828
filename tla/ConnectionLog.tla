----------------------------- MODULE ConnectionLog -----------------------------
(***************************************************************************)
(* One connection to the SSH server, from its opening to its end, as the   *)
(* sign-in log tells it (server/connlog.go, auth_agent.go, server.go).     *)
(*                                                                         *)
(* What the log says is put together from callbacks: the check of a key or *)
(* a password notes something in the connection's state, and x/crypto      *)
(* calls the log once the check has returned.  Not every check is logged   *)
(* (a key that would do, and is only asked about) and not every logged     *)
(* attempt is checked (a key whose answer x/crypto remembers, an algorithm *)
(* it does not take).  The client may go at any time: x/crypto then closes *)
(* the connection under the check that is running, and the end is told     *)
(* before the attempt.                                                     *)
(*                                                                         *)
(* A record stands where the section under state.mu that makes it stands.  *)
(* Its line is written just after, so the line of the end and those of the *)
(* one attempt beside it may come out in either order.                     *)
(*                                                                         *)
(* The connection's remote address is taken to be its own.                 *)
(***************************************************************************)
EXTENDS Naturals, Sequences

CONSTANTS Key,       \* keys the client may offer
          Attempts,  \* bound on what the client tries
          NoKey      \* no key

VARIABLES
  phase,   \* of the sign-in: none, handshake, checked, open, failed
  state,   \* connState: offered, refusal, lockedOut, authenticated, failure, and closed
           \* for closeOnce; "none" for no text
  cache,   \* x/crypto: the last key asked about, and the answer
  attempt, \* the attempt being answered
  listed,  \* the keys the agent lists; none while it is not reachable
  log,     \* the records written
  truth    \* auxiliary: the attempts x/crypto has logged, as they were, and where

vars == <<phase, state, cache, attempt, listed, log, truth>>

(* An attempt: for publickey its key; what came of it; whether this failure locked
   the address out. *)
Attempt(method, key, outcome, lockout) ==
  [method |-> method, key |-> key, outcome |-> outcome, lockout |-> lockout]

Nothing == Attempt("nothing", NoKey, "none", FALSE)

Init ==
  /\ phase = "none"
  /\ state = [offered |-> NoKey, refusal |-> "none", lockedOut |-> FALSE,
              authenticated |-> FALSE, failure |-> "none", closed |-> FALSE]
  /\ cache = [key |-> NoKey, good |-> FALSE]
  /\ attempt = Nothing
  /\ listed = {}
  /\ log = <<>>
  /\ truth = <<>>

Tried == Len(truth)

-----------------------------------------------------------------------------
(* The agent changes, is locked, goes away and comes back: SocketAuth dials it for each
   check, and one it cannot reach lists nothing. *)
AgentChanges ==
  /\ phase \in {"none", "handshake"}
  /\ \E keys \in SUBSET Key : listed' = keys
  /\ UNCHANGED <<phase, state, cache, attempt, log, truth>>

(* onConnect. *)
Open ==
  /\ phase = "none"
  /\ phase' = "handshake"
  /\ log' = <<[what |-> "opened"]>>
  /\ UNCHANGED <<state, cache, attempt, listed, truth>>

(* Mutation of NoteOffered: only the first key is noted. *)
BugNoteOffered(k) == IF state.offered = NoKey THEN k ELSE state.offered

NoteOffered(k) == k

Authorized(k) == k \in listed

(* x/crypto goes on with what it has read, though the connection has ended: up to the
   first answer it cannot write. *)
AfterAnswer == IF state.closed THEN "failed" ELSE "handshake"

(* publicKeyAuth, unless x/crypto remembers its answer for this very key. *)
OfferKey(k, signed) ==
  /\ phase = "handshake" /\ Tried < Attempts
  /\ LET asked == cache.key # k
         good  == IF asked THEN Authorized(k) ELSE cache.good
     IN /\ state' = IF asked THEN [state EXCEPT !.offered = NoteOffered(k)] ELSE state
        /\ cache' = [key |-> k, good |-> good]
        /\ IF good /\ ~signed
           THEN phase' = AfterAnswer /\ UNCHANGED attempt
           ELSE /\ phase' = "checked"
                /\ attempt' = Attempt("publickey", k, IF good THEN "ok" ELSE "none", FALSE)
  /\ UNCHANGED <<listed, log, truth>>

(* A key of an algorithm x/crypto does not take is refused without being checked. *)
OfferUnsupported ==
  /\ phase = "handshake" /\ Tried < Attempts
  /\ phase' = "checked"
  /\ attempt' = Attempt("publickey", NoKey, "algorithm", FALSE)
  /\ UNCHANGED <<state, cache, listed, log, truth>>

(* What the guard says of a password: right, wrong, or refused unchecked, since its
   address is locked out or its client left while it waited. *)
Verdicts ==
  {"ok", "none", "locked out"} \cup (IF state.closed THEN {"client left"} ELSE {})

(* passwordAuth notes what the guard said, and whether this failure locked the address
   out.  The check takes its time, and the connection may end in it: that is an end
   before this step, which notes nothing until the guard has spoken. *)
TryPassword ==
  /\ phase = "handshake" /\ Tried < Attempts
  /\ \E said \in Verdicts, locks \in BOOLEAN :
       /\ locks => said = "none"
       /\ attempt' = Attempt("password", NoKey, said, locks)
       /\ state' = [state EXCEPT !.refusal = IF said \in {"ok", "none"} THEN "none" ELSE said,
                                 !.lockedOut = locks]
  /\ phase' = "checked"
  /\ UNCHANGED <<cache, listed, log, truth>>

(* A client asks what it may use. *)
AskMethods ==
  /\ phase = "handshake" /\ Tried < Attempts
  /\ attempt' = Attempt("none", NoKey, "none", FALSE)
  /\ phase' = "checked"
  /\ UNCHANGED <<state, cache, listed, log, truth>>

-----------------------------------------------------------------------------
(* logAuth forgets what it has used. *)
Forget(method) ==
  CASE method = "publickey" -> [state EXCEPT !.offered = NoKey]
    [] method = "password"  -> [state EXCEPT !.refusal = "none", !.lockedOut = FALSE]
    [] OTHER                -> state

Reason == IF state.refusal # "none" THEN state.refusal ELSE attempt.outcome

Record(ok) ==
  [what   |-> IF ok THEN "accepted" ELSE "failed",
   method |-> attempt.method,
   key    |-> IF attempt.method = "publickey" THEN state.offered ELSE NoKey,
   reason |-> IF ok THEN "none" ELSE Reason]

(* The records of one attempt, the lockout after the failure it is due to. *)
Records ==
  IF attempt.method = "none"
  THEN <<[what |-> "offered"]>>
  ELSE <<Record(attempt.outcome = "ok")>> \o
         (IF attempt.outcome # "ok" /\ attempt.method = "password" /\ state.lockedOut
          THEN <<[what |-> "lockout"]>> ELSE <<>>)

LogAuth ==
  /\ phase = "checked"
  /\ log' = log \o Records
  /\ truth' = Append(truth, [tried |-> attempt, at |-> Len(log) + 1])
  /\ state' = [Forget(attempt.method) EXCEPT !.authenticated = @ \/ attempt.outcome = "ok"]
  /\ phase' = IF attempt.outcome = "ok" /\ ~state.closed THEN "open" ELSE AfterAnswer
  /\ attempt' = Nothing
  /\ UNCHANGED <<cache, listed>>

(* onHandshakeFailed: the client went, tried too often, or broke the protocol.  It finds
   no state any more once the connection has been closed. *)
HandshakeFails ==
  /\ phase = "handshake"
  /\ \E why \in {"none", "too many", "protocol"} :
       state' = IF state.closed THEN state ELSE [state EXCEPT !.failure = why]
  /\ phase' = "failed"
  /\ UNCHANGED <<cache, attempt, listed, log, truth>>

(* logDisconnect. *)
EndRecord ==
  [what |-> "closed", authenticated |-> state.authenticated,
   reason |-> IF state.authenticated THEN "none" ELSE state.failure]

(* loggedConn.Close, the first time it is called: x/crypto's read loop calls it when the
   client goes, whatever is being checked; gliderlabs once the connection has failed or
   is done with. *)
Close ==
  /\ phase # "none" /\ ~state.closed
  /\ state' = [state EXCEPT !.closed = TRUE]
  /\ log' = Append(log, EndRecord)
  /\ UNCHANGED <<phase, cache, attempt, listed, truth>>

Next ==
  \/ AgentChanges \/ Open
  \/ \E k \in Key, signed \in BOOLEAN : OfferKey(k, signed)
  \/ OfferUnsupported \/ TryPassword \/ AskMethods \/ LogAuth \/ HandshakeFails \/ Close

Spec == Init /\ [][Next]_vars

-----------------------------------------------------------------------------
(* Properties. *)

(* What the log says of an attempt: whether it was accepted and why not, and no key but
   the one that was tried - or none, for a key x/crypto answered from memory.  An
   algorithm that was not taken may be recorded with the key asked about before it. *)
Tells(r, t) ==
  IF t.method = "none" THEN r.what = "offered"
  ELSE /\ r.what = IF t.outcome = "ok" THEN "accepted" ELSE "failed"
       /\ r.method = t.method
       /\ t.outcome # "ok" => r.reason = t.outcome
       /\ t.outcome # "algorithm" => r.key \in {t.key, NoKey}

(* The log tells what happened: one record for each attempt, in order, and no record of
   an attempt there was not (connlog.go:102-145). *)
LogTellsTruth ==
  /\ \A i \in 1..Tried : truth[i].at \in 1..Len(log) /\ Tells(log[truth[i].at], truth[i].tried)
  /\ \A i, j \in 1..Tried : i < j => truth[i].at < truth[j].at
  /\ \A p \in 1..Len(log) : log[p].what \in {"accepted", "failed", "offered"} =>
       \E i \in 1..Tried : truth[i].at = p

(* A lockout is told once for each failure that caused one, right after that failure
   (server.go:170-174, connlog.go:139-144). *)
LockoutsFollowFailures ==
  /\ \A i \in 1..Tried : truth[i].tried.lockout =>
       truth[i].at < Len(log) /\ log[truth[i].at + 1].what = "lockout"
  /\ \A p \in 1..Len(log) : log[p].what = "lockout" =>
       \E i \in 1..Tried :
         /\ truth[i].at + 1 = p /\ truth[i].tried.lockout
         /\ truth[i].tried.method = "password" /\ truth[i].tried.outcome # "ok"

(* A connection's end is recorded once, as the end of one that had signed in exactly when
   a sign-in was accepted before.  After it comes at most the answer to one attempt, that
   which was under way or had been read, with the lockout it caused
   (connlog.go:192-238). *)
EndAgreesWithSignIn ==
  \A i \in 1..Len(log) : log[i].what = "closed" =>
    /\ log[i].authenticated <=> \E j \in 1..(i - 1) : log[j].what = "accepted"
    /\ \A p \in (i + 1)..Len(log) :
         \/ p = i + 1 /\ log[p].what \in {"accepted", "failed", "offered"}
         \/ p = i + 2 /\ log[p].what = "lockout"

SaysLeft(r) == r.what = "failed" /\ r.reason = "client left"

(* A password is refused because its client left only after the end of the connection is
   recorded (password_guard.go:87-91, connlog.go:192-199). *)
LeftMeansEnded ==
  \A p \in 1..Len(log) :
    SaysLeft(log[p]) => \E i \in 1..Len(log) : p = i + 1 /\ log[i].what = "closed"

(* The log of a connection, from its opening to its end, is the story of its sign-in
   (connlog.go). *)
LogIsTrue ==
  LogTellsTruth /\ LockoutsFollowFailures /\ EndAgreesWithSignIn /\ LeftMeansEnded
=============================================================================

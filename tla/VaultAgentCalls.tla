--------------------------- MODULE VaultAgentCalls ---------------------------
(***************************************************************************)
(* VaultAgent seen by its clients: what an answer says about the moments   *)
(* the call lasted.  A history variable remembers, for each call, what was *)
(* true at every moment since the request arrived; it never constrains a   *)
(* step.                                                                   *)
(***************************************************************************)
EXTENDS VaultAgent

VARIABLE since

cvars == <<vars, since>>

(* No live entry: the identity is absent, or its lifetime has run out. *)
Dead == {fp \in Fingerprint : ~Stored(fp) \/ Expired(fp)}

(* The two ways of being unloaded: neither autoload=1 nor in the session set;
   and autoload=1, but hidden for this run by sessionUnload. *)
Unflagged ==
  {fp \in Fingerprint :
     ~(Stored(fp) /\ (store[fp].autoload \/ fp \in sessionAutoload0))}

Hidden ==
  {fp \in Fingerprint : Stored(fp) /\ store[fp].autoload /\ fp \in sessionUnloaded}

(* Alive and listed, because of its flag or because of the session set. *)
ShownByFlag ==
  {fp \in Fingerprint \ Dead : store[fp].autoload /\ fp \notin sessionUnloaded}

ShownBySession ==
  {fp \in Fingerprint \ Dead : ~store[fp].autoload /\ fp \in sessionAutoload0}

Moment ==
  [locked    |-> Locked,
   unlocked  |-> ~Locked,
   dead      |-> Dead,
   unflagged |-> Unflagged,
   hidden    |-> Hidden,
   byFlag    |-> ShownByFlag,
   bySession |-> ShownBySession]

Meet(a, b) ==
  [locked    |-> a.locked /\ b.locked,
   unlocked  |-> a.unlocked /\ b.unlocked,
   dead      |-> a.dead \cap b.dead,
   unflagged |-> a.unflagged \cap b.unflagged,
   hidden    |-> a.hidden \cap b.hidden,
   byFlag    |-> a.byFlag \cap b.byFlag,
   bySession |-> a.bySession \cap b.bySession]

NoHistory ==
  [locked |-> FALSE, unlocked |-> FALSE, dead |-> {}, unflagged |-> {}, hidden |-> {},
   byFlag |-> {}, bySession |-> {}]

CInit == Init /\ since = [c \in Client |-> NoHistory]

Remember ==
  since' = [c \in Client |->
              CASE pc'[c] = "idle"  -> NoHistory
                [] pc'[c] # "idle" /\ pc[c] = "idle" -> Moment'
                [] pc'[c] # "idle" /\ pc[c] = "done" -> since[c]
                [] OTHER            -> Meet(since[c], Moment')]

CSpec == CInit /\ [][Next /\ Remember]_cvars

Answered(c, op, status) ==
  pc[c] = "done" /\ call[c].op = op /\ reply[c].status = status

-----------------------------------------------------------------------------
(* Properties. *)

(* A call whose whole life falls in a locked period gets nothing: List
   answers with no key, and every operation that needs the key refuses. *)
LockedServesNothing ==
  \A c \in Client :
    pc[c] = "done" /\ since[c].locked =>
      IF call[c].op = "list" THEN reply[c] = [status |-> "ok", rows |-> {}]
      ELSE call[c].op \in NeedsUnlocked \cup {"sign"} => reply[c].status = "locked"

(* The keys that were unloaded at every moment of the call, for one and the same
   reason.  (A key that is hidden and then given its flag while a List runs is
   unloaded all along, and yet listed by the hidden set List has read before.) *)
Unloaded(c) == since[c].unflagged \cup since[c].hidden

(* A key that was unloaded all through the call is not listed, and one that was
   neither autoload=1 nor in the session set does not sign (signerForKey's
   comment, and List's), however the call interleaves with writers and restarts.
   One that sessionUnload has hidden does sign: see HiddenNotSigned. *)
UnloadedNotServed ==
  \A c \in Client :
    /\ Answered(c, "list", "ok") => reply[c].rows \cap Unloaded(c) = {}
    /\ Answered(c, "sign", "ok") => call[c].fp \notin since[c].unflagged

(* agent.go:367: "sessionUnload hides an identity from List()/Sign() for this session
   only".  A key that was hidden all through the call does not sign. *)
HiddenNotSigned ==
  \A c \in Client : Answered(c, "sign", "ok") => call[c].fp \notin since[c].hidden

(* On a vault unlocked throughout the call, an identity that had run out
   before the call, or was not there, is not served: the purge comes first,
   and a purge that cannot be saved fails the call. *)
ExpiredNotServed ==
  \A c \in Client : since[c].unlocked =>
    /\ Answered(c, "list", "ok") => reply[c].rows \cap since[c].dead = {}
    /\ Answered(c, "sign", "ok") => call[c].fp \notin since[c].dead

(* On a vault unlocked throughout, a List that succeeds finds every key that
   was visible all along for one and the same reason, whatever writers did
   between its three reads.  (A key that an Add moves from the one reason to the
   other can be missed.) *)
ListFindsVisible ==
  \A c \in Client : since[c].unlocked /\ Answered(c, "list", "ok") =>
    since[c].byFlag \cup since[c].bySession \subseteq reply[c].rows

(* What a call answers never shows a key that was out of reach during all of it, whether
   by a lock, by an unload or by its lifetime, the one exception being Sign with a key
   that is hidden for the run (agent.go, List and Sign). *)
ServesOnlyVisible == LockedServesNothing /\ UnloadedNotServed /\ ExpiredNotServed

-----------------------------------------------------------------------------
(* The inductive invariant behind ServesOnlyVisible and ListFindsVisible, next
   to IInv: what each step of a call has already settled about its answer. *)

InProgress(c) == pc[c] \notin {"idle", "done"}

SinceTypeOK ==
  since \in [Client -> [locked : BOOLEAN, unlocked : BOOLEAN,
                       dead : SUBSET Fingerprint, unflagged : SUBSET Fingerprint,
                       hidden : SUBSET Fingerprint,
                       byFlag : SUBSET Fingerprint, bySession : SUBSET Fingerprint]]

(* The history of a call in progress is about this moment too. *)
SinceIsNow(c) ==
  InProgress(c) =>
    /\ since[c].locked => Locked
    /\ since[c].unlocked => ~Locked
    /\ since[c].dead \subseteq Dead
    /\ since[c].unflagged \subseteq Unflagged
    /\ since[c].hidden \subseteq Hidden
    /\ since[c].byFlag \subseteq ShownByFlag
    /\ since[c].bySession \subseteq ShownBySession

(* Past the check of the master key, the call has seen the vault unlocked. *)
PastLock(c) ==
  pc[c] \in {"listHidden", "listRows", "signDecrypt"} => ~since[c].locked

(* Past the purge, what was dead all along is gone from the store. *)
PastPurge(c) ==
  pc[c] \in {"purgeSave", "listSession", "listHidden", "listRows", "signLookup"}
    /\ since[c].unlocked
  => \A fp \in since[c].dead : ~Stored(fp)

PastSession(c) ==
  pc[c] \in {"listHidden", "listRows"} =>
    /\ snap[c].session \cap since[c].unflagged = {}
    /\ since[c].bySession \subseteq snap[c].session

PastHidden(c) ==
  pc[c] = "listRows" =>
    /\ snap[c].hidden \cap since[c].byFlag = {}
    /\ since[c].hidden \subseteq snap[c].hidden

PastLookup(c) ==
  pc[c] = "signDecrypt" =>
    /\ call[c].fp \notin since[c].unflagged
    /\ since[c].unlocked => call[c].fp \notin since[c].dead

HistoryFits(c) ==
  /\ SinceIsNow(c)
  /\ PastLock(c)
  /\ PastPurge(c)
  /\ PastSession(c)
  /\ PastHidden(c)
  /\ PastLookup(c)

CInv ==
  /\ SinceTypeOK
  /\ \A c \in Client : HistoryFits(c)
  /\ ServesOnlyVisible
  /\ ListFindsVisible
=============================================================================

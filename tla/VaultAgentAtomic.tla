--------------------------- MODULE VaultAgentAtomic ---------------------------
(***************************************************************************)
(* VaultAgent implements LinearVault.  A request that changes identities   *)
(* changes memory first and the file and the session sets later, and only  *)
(* a.mu keeps others from acting in between; it takes effect when its save *)
(* is over.  The history variable is memory as of the last moment that     *)
(* nobody was between the two halves.  The lock takes effect when the      *)
(* field is set, a Sign when it has looked the key up.                     *)
(***************************************************************************)
EXTENDS VaultAgent

VARIABLE settled

svars == <<vars, settled>>

Halfway == {"save", "purgeSave"}

Memory == [held |-> store, shown |-> sessionAutoload0, hidden |-> sessionUnloaded]

SInit == Init /\ settled = Memory

Settle ==
  settled' = IF \E c \in Client : pc'[c] \in Halfway THEN settled ELSE Memory'

SSpec == SInit /\ [][Next /\ Settle]_svars

(* The answer of each client, granted while a Sign decrypts the key it has found. *)
AnswerSoFar ==
  [c \in Client |-> IF pc[c] = "signDecrypt" THEN "granted" ELSE reply[c].status]

-----------------------------------------------------------------------------
(* Properties. *)

Linear == INSTANCE LinearVault WITH
            Mortal <- {id \in Identity : id.expiresAt # 0},
            Request <- AllRequests,
            locked <- Locked, saved <- disk, held <- settled.held,
            shown <- settled.shown, hidden <- settled.hidden, answer <- AnswerSoFar

(* Every request to the vault agent but List is atomic: whatever goroutines do at the
   same time, whatever saves fail, and wherever a restart cuts a request short, each
   takes effect at one moment between its arrival and its answer, and is answered by
   what it finds at that moment (the critical sections of agent.go). *)
RequestsAreAtomic == Linear!LSpec

-----------------------------------------------------------------------------
(* The inductive invariant behind RequestsAreAtomic, next to IInv: what the
   first half of each operation has made of memory. *)

SettledTypeOK ==
  settled \in [held : Vault, shown : SUBSET Fingerprint, hidden : SUBSET Fingerprint]

SettledIsMemory ==
  (\A c \in Client : pc[c] \notin Halfway) => settled = Memory

SetsKept ==
  sessionAutoload0 = settled.shown /\ sessionUnloaded = settled.hidden

Dropped(fps) ==
  /\ \A fp \in Fingerprint : store[fp] = IF fp \in fps THEN NoIdentity ELSE settled.held[fp]
  /\ sessionAutoload0 = settled.shown \ fps
  /\ sessionUnloaded = settled.hidden \ fps

Added(r) ==
  /\ SetsKept
  /\ \A fp \in Fingerprint \ {r.fp} : store[fp] = settled.held[fp]
  /\ store[r.fp].autoload = r.autoload /\ store[r.fp].comment = r.comment
  /\ store[r.fp].expiresAt # 0 <=> r.lifetime # 0

Changed(r) ==
  LET was == settled.held[r.fp] IN
  /\ SetsKept
  /\ was # NoIdentity
  /\ r.op = "setAutoload" =>
       was.autoload # r.on /\ store = [settled.held EXCEPT ![r.fp].autoload = r.on]
  /\ r.op = "setComment" =>
       was.comment # r.comment /\ store = [settled.held EXCEPT ![r.fp].comment = r.comment]

SaveIsHalf(c) ==
  LET r == call[c] IN
  /\ r.op = "add" => Added(r)
  /\ r.op = "remove" => settled.held[r.fp] # NoIdentity /\ Dropped({r.fp})
  /\ r.op = "removeAll" => Dropped(Fingerprint)
  /\ r.op \in {"setAutoload", "setComment"} => Changed(r)

PurgeIsHalf ==
  \E fps \in SUBSET Fingerprint :
    /\ \A fp \in fps : settled.held[fp] # NoIdentity /\ settled.held[fp].expiresAt # 0
    /\ Dropped(fps)

HalfDone(c) ==
  /\ pc[c] = "save" => SaveIsHalf(c)
  /\ pc[c] = "purgeSave" => PurgeIsHalf

RequestFits(c) ==
  /\ pc[c] = "idle" => call[c] = NoRequest
  /\ pc[c] # "idle" => call[c] \in AllRequests
  /\ pc[c] = "done" <=> reply[c].status # "pending"
  /\ pc[c] = "keyWrite" /\ call[c].op = "unlockRecovery" => HasRecovery

SInv ==
  /\ SettledTypeOK
  /\ SettledIsMemory
  /\ \A c \in Client : HalfDone(c) /\ RequestFits(c)
=============================================================================

--------------------------- MODULE VaultAgent_proof ---------------------------
(***************************************************************************)
(* Proofs about VaultAgent, for any number of clients and keys, any        *)
(* lifetimes and any bound on the clock.                                   *)
(***************************************************************************)
EXTENDS VaultAgentCalls, VaultAgentAtomic, TLAPS

(* The fields each kind of request carries (the payload parsers of
   vault/op.go give every operation its own). *)
LEMMA RequestFields ==
  ASSUME NEW r \in AllRequests
  PROVE  /\ r.op \in {"list", "removeAll", "lock", "unlock", "unlockRecovery", "sign",
                      "remove", "sessionLoad", "sessionUnload", "add", "setAutoload",
                      "setComment"}
         /\ r.op \in {"sign", "remove", "sessionLoad", "sessionUnload", "add",
                      "setAutoload", "setComment"} => r.fp \in Fingerprint
         /\ r.op = "add" => /\ r.autoload \in BOOLEAN
                            /\ r.comment \in Comment
                            /\ r.lifetime \in Nat
         /\ r.op = "setAutoload" => r.on \in BOOLEAN
         /\ r.op = "setComment" => r.comment \in Comment
<1>1. CASE r \in [op : {"list", "removeAll", "lock", "unlock", "unlockRecovery"}]
  BY <1>1
<1>2. CASE r \in [op : {"sign", "remove", "sessionLoad", "sessionUnload"},
                 fp : Fingerprint]
  BY <1>2
<1>3. CASE r \in [op : {"add"}, fp : Fingerprint, autoload : {FALSE},
                 comment : Comment, lifetime : Lifetime \cup {0}]
  <2>1. r.op = "add" /\ r.fp \in Fingerprint /\ r.comment \in Comment
        /\ r.autoload \in BOOLEAN /\ r.lifetime \in Lifetime \cup {0}
    BY <1>3, Zenon
  <2>2. r.lifetime \in Nat
    BY <2>1, LifetimeAssumption, 0 \in Nat
  <2> QED
    BY <2>1, <2>2
<1>4. CASE r \in [op : {"add"}, fp : Fingerprint, autoload : {TRUE},
                 comment : Comment, lifetime : {0}]
  <2>1. r.op = "add" /\ r.fp \in Fingerprint /\ r.comment \in Comment
        /\ r.autoload \in BOOLEAN /\ r.lifetime \in {0}
    BY <1>4, Zenon
  <2> QED
    BY <2>1
<1>5. CASE r \in [op : {"setAutoload"}, fp : Fingerprint, on : BOOLEAN]
  BY <1>5
<1>6. CASE r \in [op : {"setComment"}, fp : Fingerprint, comment : Comment]
  BY <1>6
<1> QED
  BY <1>1, <1>2, <1>3, <1>4, <1>5, <1>6 DEF AllRequests

LEMMA InitInvariant == Init => IInv
<1> SUFFICES ASSUME Init PROVE IInv
  OBVIOUS
<1>1. disk \in Vault
  BY DEF Init, Vault, Identity
<1>2. TypeOK
  BY <1>1 DEF Init, TypeOK, Labels, NoReply, NoSnap, Status
<1>3. HolderHoldsMu /\ KeyMatchesHolder /\ CallMatchesLabel /\ SaveAgreesWithStore
  BY ClientAssumption DEF Init, HolderHoldsMu, KeyMatchesHolder, CallMatchesLabel,
     SaveAgreesWithStore, Holding
<1>4. SessionSetsInStore /\ AckedAgrees
  BY DEF Init, SessionSetsInStore, AckedAgrees
<1> QED
  BY <1>2, <1>3, <1>4 DEF IInv

LEMMA BeginInvariant ==
  ASSUME IInv, NEW c \in Client, Begin(c)
  PROVE  IInv'
<1> USE DEF Begin, Goto, volatile
<1>1. TypeOK'
  BY DEF IInv, TypeOK, Labels, Requests
<1>2. HolderHoldsMu'
  BY DEF IInv, TypeOK, HolderHoldsMu, Holding
<1>3. KeyMatchesHolder'
  BY DEF IInv, TypeOK, KeyMatchesHolder
<1>4. CallMatchesLabel'
  BY DEF IInv, TypeOK, CallMatchesLabel, Requests
<1>5. SaveAgreesWithStore'
  BY DEF IInv, TypeOK, SaveAgreesWithStore, Stored
<1>6. SessionSetsInStore' /\ AckedAgrees'
  BY DEF IInv, TypeOK, SessionSetsInStore, AckedAgrees, Stored
<1> QED
  BY <1>1, <1>2, <1>3, <1>4, <1>5, <1>6 DEF IInv

(* A step of one goroutine that neither takes nor gives up a.mu and writes
   nothing shared: only its own label and request matter. *)
LEMMA PrivateStep ==
  ASSUME IInv, NEW c \in Client, NEW l \in Labels,
         pc[c] \notin Holding, l \notin Holding,
         pc' = [pc EXCEPT ![c] = l],
         UNCHANGED <<store, disk, masterKey, sessionAutoload0, sessionUnloaded, mu, acked>>,
         \A d \in Client \ {c} : call'[d] = call[d],
         TypeOK', CallMatchesLabel'
  PROVE  IInv'
<1>1. HolderHoldsMu' /\ KeyMatchesHolder'
  BY DEF IInv, TypeOK, HolderHoldsMu, KeyMatchesHolder, Holding
<1>2. SaveAgreesWithStore'
  BY DEF IInv, TypeOK, SaveAgreesWithStore, Stored, Holding
<1>3. SessionSetsInStore' /\ AckedAgrees'
  BY DEF IInv, SessionSetsInStore, AckedAgrees, Stored
<1> QED
  BY <1>1, <1>2, <1>3 DEF IInv

(* An answer that changes nothing shared. *)
LEMMA AnswerStep ==
  ASSUME IInv, NEW c \in Client, NEW s \in Status, NEW R \in SUBSET Fingerprint,
         pc[c] \notin Holding,
         Answer(c, s, R),
         UNCHANGED <<store, disk, masterKey, sessionAutoload0, sessionUnloaded, mu, now,
                     call, snap, acked>>
  PROVE  IInv'
<1>1. TypeOK'
  BY DEF IInv, TypeOK, Labels, Answer, Goto
<1>2. CallMatchesLabel'
  BY DEF IInv, TypeOK, CallMatchesLabel, Answer, Goto
<1> QED
  BY <1>1, <1>2, PrivateStep, "done" \in Labels, "done" \notin Holding
     DEF Answer, Goto, Labels, Holding

LEMMA ReturnInvariant ==
  ASSUME IInv, NEW c \in Client, Return(c)
  PROVE  IInv'
<1>1. TypeOK'
  BY DEF IInv, TypeOK, Return, Goto, volatile, Labels, NoReply, NoSnap, Status
<1>2. CallMatchesLabel'
  BY DEF IInv, TypeOK, CallMatchesLabel, Return, Goto
<1>3. "idle" \in Labels /\ "idle" \notin Holding /\ pc[c] \notin Holding
  BY DEF Labels, Holding, Return
<1>4. \A d \in Client \ {c} : call'[d] = call[d]
  BY DEF IInv, TypeOK, Return
<1> QED
  BY <1>1, <1>2, <1>3, <1>4, PrivateStep DEF Return, Goto, volatile

LEMMA NothingToPurgeInvariant ==
  ASSUME IInv, NEW c \in Client, NothingToPurge(c)
  PROVE  IInv'
<1> DEFINE l == AfterPurge(call[c].op)
<1>1. call[c] \in AllRequests /\ call[c].op \in {"list", "sign"} /\ pc[c] = "called"
  BY DEF IInv, CallMatchesLabel, NothingToPurge, Arrived
<1>2. l \in {"listSession", "signLookup"} /\ (l = "signLookup" => call[c].op = "sign")
      /\ (l = "listSession" => call[c].op = "list")
  BY <1>1 DEF AfterPurge
<1>3. l \in Labels /\ l \notin Holding /\ pc[c] \notin Holding
  BY <1>1, <1>2 DEF Labels, Holding
<1>4. TypeOK'
  BY <1>3 DEF IInv, TypeOK, NothingToPurge, Goto, volatile
<1>5. CallMatchesLabel'
  BY <1>1, <1>2 DEF IInv, TypeOK, CallMatchesLabel, NothingToPurge, Goto, volatile
<1> HIDE DEF l
<1> QED
  BY <1>3, <1>4, <1>5, PrivateStep DEF NothingToPurge, Goto, volatile, l

LEMMA ListInvariant ==
  ASSUME IInv, NEW c \in Client, ListSession(c) \/ ListHidden(c) \/ ListRows(c)
  PROVE  IInv'
<1> USE DEF volatile
<1>1. CASE ListSession(c) /\ Locked
  BY <1>1, AnswerStep, "ok" \in Status, {} \in SUBSET Fingerprint
     DEF ListSession, Holding, Status
<1>2. CASE ListSession(c) /\ ~Locked
  <2>1. TypeOK'
    <3>1. snap' \in [Client -> [session : SUBSET Fingerprint, hidden : SUBSET Fingerprint]]
      <4>1. snap' = [snap EXCEPT ![c].session = sessionAutoload0]
        BY <1>2 DEF ListSession
      <4>2. snap \in [Client -> [session : SUBSET Fingerprint, hidden : SUBSET Fingerprint]]
            /\ sessionAutoload0 \in SUBSET Fingerprint
        BY DEF IInv, TypeOK
      <4> QED
        BY <4>1, <4>2
    <3>2. pc' \in [Client -> Labels]
      BY <1>2 DEF IInv, TypeOK, ListSession, Goto, Labels
    <3> QED
      BY <1>2, <3>1, <3>2 DEF IInv, TypeOK, ListSession
  <2>2. CallMatchesLabel'
    BY <1>2 DEF IInv, TypeOK, CallMatchesLabel, ListSession, Goto
  <2> QED
    BY <1>2, <2>1, <2>2, PrivateStep, "listHidden" \in Labels, "listHidden" \notin Holding
       DEF ListSession, Goto, Labels, Holding
<1>3. CASE ListHidden(c)
  <2>1. TypeOK'
    <3>1. snap' = [snap EXCEPT ![c].hidden = sessionUnloaded]
      BY <1>3 DEF ListHidden
    <3>2. snap \in [Client -> [session : SUBSET Fingerprint, hidden : SUBSET Fingerprint]]
          /\ sessionUnloaded \in SUBSET Fingerprint
      BY DEF IInv, TypeOK
    <3>3. snap' \in [Client -> [session : SUBSET Fingerprint, hidden : SUBSET Fingerprint]]
      BY <3>1, <3>2
    <3> QED
      BY <1>3, <3>3 DEF IInv, TypeOK, ListHidden, Goto, Labels
  <2>2. CallMatchesLabel'
    BY <1>3 DEF IInv, TypeOK, CallMatchesLabel, ListHidden, Goto
  <2> QED
    BY <1>3, <2>1, <2>2, PrivateStep, "listRows" \in Labels, "listRows" \notin Holding
       DEF ListHidden, Goto, Labels, Holding
<1>4. CASE ListRows(c)
  BY <1>4, AnswerStep, "ok" \in Status, Rows(snap[c].session, snap[c].hidden) \in SUBSET Fingerprint
     DEF ListRows, Holding, Status, Rows
<1> QED
  BY <1>1, <1>2, <1>3, <1>4

LEMMA SignInvariant ==
  ASSUME IInv, NEW c \in Client, SignLookup(c) \/ SignDecrypt(c)
  PROVE  IInv'
<1> USE DEF volatile
<1>1. CASE SignLookup(c) /\ LookupStatus(call[c].fp) # "ok"
  <2>1. LookupStatus(call[c].fp) \in Status
    BY DEF LookupStatus, Status
  <2> QED
    BY <1>1, <2>1, AnswerStep, {} \in SUBSET Fingerprint DEF SignLookup, Holding
<1>2. CASE SignLookup(c) /\ LookupStatus(call[c].fp) = "ok"
  <2>1. TypeOK'
    BY <1>2 DEF IInv, TypeOK, SignLookup, Goto, Labels
  <2>2. CallMatchesLabel'
    BY <1>2 DEF IInv, TypeOK, CallMatchesLabel, SignLookup, Goto
  <2> QED
    BY <1>2, <2>1, <2>2, PrivateStep, "signDecrypt" \in Labels, "signDecrypt" \notin Holding
       DEF SignLookup, Goto, Labels, Holding
<1>3. CASE SignDecrypt(c)
  <2> DEFINE s == IF masterKey = "intact" THEN "ok" ELSE "internal"
  <2>1. s \in Status /\ {} \in SUBSET Fingerprint
    BY DEF Status
  <2> HIDE DEF s
  <2> QED
    BY <1>3, <2>1, AnswerStep DEF SignDecrypt, Holding, s
<1> QED
  BY <1>1, <1>2, <1>3

(* a.mu is taken by one client when it is free, and given up by its holder. *)
LEMMA TakeMu ==
  ASSUME IInv, NEW c \in Client, NEW l \in Holding, mu = NoClient,
         mu' = c, pc' = [pc EXCEPT ![c] = l]
  PROVE  HolderHoldsMu'
BY ClientAssumption DEF IInv, TypeOK, HolderHoldsMu

LEMMA ReleaseMu ==
  ASSUME IInv, NEW c \in Client, NEW l \in Labels \ Holding, pc[c] \in Holding,
         mu' = NoClient, pc' = [pc EXCEPT ![c] = l]
  PROVE  HolderHoldsMu'
BY ClientAssumption DEF IInv, TypeOK, HolderHoldsMu

(* While a.mu is free no save is pending; while one client holds it no other
   has one. *)
LEMMA NobodyElseSaves ==
  ASSUME IInv, NEW c \in Client, mu \in {NoClient, c}, NEW d \in Client \ {c}
  PROVE  pc[d] \notin Holding
BY ClientAssumption DEF IInv, HolderHoldsMu

LEMMA ArrivedRequest ==
  ASSUME IInv, NEW c \in Client, NEW ops, Arrived(c, ops)
  PROVE  /\ call[c] \in AllRequests /\ call[c].op \in ops
         /\ pc[c] = "called" /\ mu = NoClient /\ masterKey # "wiped"
BY DEF IInv, CallMatchesLabel, KeyMatchesHolder, Arrived

LEMMA PurgeExpiredInvariant ==
  ASSUME IInv, NEW c \in Client, PurgeExpired(c)
  PROVE  IInv'
<1> USE DEF PurgeExpired, RemoveFromStore, ForgetSession, Unpromise
<1>1. /\ call[c] \in AllRequests /\ call[c].op \in {"list", "sign"}
      /\ pc[c] = "called" /\ mu = NoClient /\ masterKey = "intact"
  BY ArrivedRequest DEF IInv, TypeOK, Locked
<1>2. TypeOK'
  <2>1. store' \in Vault
    BY DEF IInv, TypeOK, Vault
  <2>2. acked' \in [Fingerprint -> {"unknown", "present", "absent"}]
    BY DEF IInv, TypeOK
  <2>3. pc' \in [Client -> Labels]
    BY DEF IInv, TypeOK, Goto, Labels
  <2> QED
    BY <2>1, <2>2, <2>3 DEF IInv, TypeOK
<1>3. HolderHoldsMu'
  BY <1>1, TakeMu, "purgeSave" \in Holding DEF Goto, Holding
<1>4. KeyMatchesHolder'
  BY <1>1, NobodyElseSaves, ClientAssumption
     DEF IInv, TypeOK, KeyMatchesHolder, Goto, Holding
<1>5. CallMatchesLabel'
  BY <1>1 DEF IInv, TypeOK, CallMatchesLabel, Goto
<1>6. SaveAgreesWithStore'
  BY <1>1, NobodyElseSaves DEF IInv, TypeOK, SaveAgreesWithStore, Goto, Holding
<1>7. SessionSetsInStore'
  BY DEF IInv, TypeOK, SessionSetsInStore, Stored
<1>8. AckedAgrees'
  BY DEF IInv, TypeOK, AckedAgrees, Stored
<1> QED
  BY <1>2, <1>3, <1>4, <1>5, <1>6, <1>7, <1>8 DEF IInv

LEMMA SaveEffectType ==
  ASSUME TypeOK, NEW r \in SaveOutcome, SaveEffect(r)
  PROVE  disk' \in Vault
BY DEF TypeOK, SaveEffect

LEMMA SaveEffectAgrees ==
  ASSUME IInv, NEW r \in SaveOutcome, SaveEffect(r), UNCHANGED <<store, acked>>
  PROVE  AckedAgrees'
BY DEF IInv, TypeOK, AckedAgrees, SaveEffect, Stored

LEMMA PurgeSaveInvariant ==
  ASSUME IInv, NEW c \in Client, PurgeSave(c)
  PROVE  IInv'
<1> USE DEF volatile
<1>1. PICK r \in SaveOutcome : /\ SaveEffect(r)
                               /\ IF r = "saved"
                                  THEN Goto(c, AfterPurge(call[c].op)) /\ UNCHANGED reply
                                  ELSE Answer(c, "internal", {})
  BY DEF PurgeSave
<1>2. call[c] \in AllRequests /\ call[c].op \in {"list", "sign"} /\ pc[c] = "purgeSave"
  BY DEF IInv, CallMatchesLabel, PurgeSave
<1>3. PICK l \in {"listSession", "signLookup", "done"} :
        /\ pc' = [pc EXCEPT ![c] = l]
        /\ l = "signLookup" => call[c].op = "sign"
        /\ l = "listSession" => call[c].op = "list"
  BY <1>1, <1>2 DEF Goto, Answer, AfterPurge
<1>4. TypeOK'
  <2>1. disk' \in Vault
    BY <1>1, SaveEffectType DEF IInv
  <2>2. pc' \in [Client -> Labels]
    BY <1>3 DEF IInv, TypeOK, Labels
  <2>3. reply' \in [Client -> [status : Status, rows : SUBSET Fingerprint]]
    BY <1>1 DEF IInv, TypeOK, Answer, Status
  <2> QED
    BY <2>1, <2>2, <2>3, ClientAssumption DEF IInv, TypeOK, PurgeSave
<1>5. HolderHoldsMu'
  BY <1>2, <1>3, ReleaseMu DEF PurgeSave, Holding, Labels
<1>6. KeyMatchesHolder'
  BY <1>2, <1>3 DEF IInv, TypeOK, KeyMatchesHolder, PurgeSave
<1>7. CallMatchesLabel'
  BY <1>2, <1>3 DEF IInv, TypeOK, CallMatchesLabel, PurgeSave
<1>8. SaveAgreesWithStore'
  BY <1>3 DEF IInv, TypeOK, SaveAgreesWithStore, PurgeSave, Stored
<1>9. SessionSetsInStore' /\ AckedAgrees'
  BY <1>1, SaveEffectAgrees DEF IInv, SessionSetsInStore, PurgeSave, Stored
<1> QED
  BY <1>4, <1>5, <1>6, <1>7, <1>8, <1>9 DEF IInv

LEMMA RefusedLockedInvariant ==
  ASSUME IInv, NEW c \in Client, RefusedLocked(c)
  PROVE  IInv'
BY ArrivedRequest, AnswerStep, "locked" \in Status, {} \in SUBSET Fingerprint
   DEF RefusedLocked, AnswerOnly, volatile, Holding, Status

(* The first half of a mutating operation: what is left to show is about the
   store, the session sets and the promises. *)
LEMMA HoldForSaveInvariant ==
  ASSUME IInv, NEW c \in Client,
         Arrived(c, {"add", "remove", "removeAll", "setAutoload", "setComment"}),
         ~Locked, HoldForSave(c), store' \in Vault,
         acked' \in [Fingerprint -> {"unknown", "present", "absent"}],
         sessionAutoload0' \in SUBSET Fingerprint,
         sessionUnloaded' \in SUBSET Fingerprint,
         SaveAgreesWithStore', SessionSetsInStore', AckedAgrees'
  PROVE  IInv'
<1>1. /\ call[c] \in AllRequests
      /\ call[c].op \in {"add", "remove", "removeAll", "setAutoload", "setComment"}
      /\ pc[c] = "called" /\ mu = NoClient /\ masterKey = "intact"
  BY ArrivedRequest DEF IInv, TypeOK, Locked
<1>2. TypeOK'
  <2>1. pc' \in [Client -> Labels]
    BY DEF IInv, TypeOK, HoldForSave, Goto, Labels
  <2> QED
    BY <2>1 DEF IInv, TypeOK, HoldForSave
<1>3. HolderHoldsMu'
  BY <1>1, TakeMu, "save" \in Holding DEF HoldForSave, Goto, Holding
<1>4. KeyMatchesHolder'
  BY <1>1, NobodyElseSaves, ClientAssumption
     DEF IInv, TypeOK, KeyMatchesHolder, HoldForSave, Goto, Holding
<1>5. CallMatchesLabel'
  BY <1>1 DEF IInv, TypeOK, CallMatchesLabel, HoldForSave, Goto
<1> QED
  BY <1>2, <1>3, <1>4, <1>5 DEF IInv

(* When c takes a.mu, SaveAgreesWithStore is about c alone. *)
LEMMA SaveAgreesForHolder ==
  ASSUME IInv, NEW c \in Client, mu = NoClient, HoldForSave(c),
         /\ call[c].op \in {"add", "setAutoload"} => store'[call[c].fp] # NoIdentity
         /\ call[c].op = "remove" => store'[call[c].fp] = NoIdentity
         /\ call[c].op = "removeAll" => \A fp \in Fingerprint : store'[fp] = NoIdentity
  PROVE  SaveAgreesWithStore'
BY NobodyElseSaves DEF IInv, TypeOK, SaveAgreesWithStore, HoldForSave, Goto, Stored, Holding

LEMMA AddInvariant ==
  ASSUME IInv, NEW c \in Client, Add(c)
  PROVE  IInv'
<1>1. call[c] \in AllRequests /\ call[c].op = "add" /\ mu = NoClient
  BY ArrivedRequest DEF Add
<1>2. call[c].fp \in Fingerprint
  BY <1>1, RequestFields
<1>3. NewIdentity(call[c]) \in Identity
  <2>1. /\ call[c].autoload \in BOOLEAN /\ call[c].comment \in Comment
        /\ call[c].lifetime \in Nat
    BY <1>1, RequestFields
  <2>2. (IF call[c].lifetime > 0 THEN now + call[c].lifetime ELSE 0) \in Nat
    BY <2>1 DEF IInv, TypeOK
  <2> QED
    BY <2>1, <2>2, Zenon DEF NewIdentity, Identity
<1>4. NewIdentity(call[c]) # NoIdentity
  BY <1>3, IdentityAssumption
<1>5. store' \in Vault
  BY <1>2, <1>3 DEF IInv, TypeOK, Vault, Add
<1>6. /\ store'[call[c].fp] # NoIdentity
      /\ \A fp \in Fingerprint : store'[fp] = NoIdentity => store[fp] = NoIdentity
  BY <1>2, <1>4 DEF IInv, TypeOK, Vault, Add
<1>7. /\ acked' \in [Fingerprint -> {"unknown", "present", "absent"}]
      /\ acked'[call[c].fp] # "absent"
      /\ \A fp \in Fingerprint : acked'[fp] \in {"unknown", acked[fp]}
      /\ \A fp \in Fingerprint : fp # call[c].fp => store'[fp] = store[fp]
  BY <1>2 DEF IInv, TypeOK, Vault, Add
<1>8. SaveAgreesWithStore'
  BY <1>1, <1>6, SaveAgreesForHolder DEF Add
<1>9. SessionSetsInStore' /\ AckedAgrees'
  BY <1>2, <1>6, <1>7 DEF IInv, TypeOK, SessionSetsInStore, AckedAgrees, Stored, Add,
     HoldForSave
<1>10. Arrived(c, {"add", "remove", "removeAll", "setAutoload", "setComment"})
  BY DEF Add, Arrived
<1> QED
  BY <1>5, <1>7, <1>8, <1>9, <1>10, HoldForSaveInvariant DEF Add, IInv, TypeOK

LEMMA RemoveInvariant ==
  ASSUME IInv, NEW c \in Client, Remove(c)
  PROVE  IInv'
<1> USE DEF RemoveFromStore, ForgetSession, Unpromise
<1>1. /\ call[c] \in AllRequests /\ call[c].op = "remove" /\ mu = NoClient
      /\ pc[c] = "called"
  BY ArrivedRequest DEF Remove
<1>2. call[c].fp \in Fingerprint
  BY <1>1, RequestFields
<1>3. /\ store' \in Vault
      /\ sessionAutoload0' \in SUBSET Fingerprint
      /\ sessionUnloaded' \in SUBSET Fingerprint
      /\ SessionSetsInStore'
  BY DEF IInv, TypeOK, Vault, Remove, SessionSetsInStore, Stored
<1>4. CASE Stored(call[c].fp)
  <2>1. HoldForSave(c) /\ Unpromise({call[c].fp})
    BY <1>4 DEF Remove
  <2>2. acked' \in [Fingerprint -> {"unknown", "present", "absent"}] /\ AckedAgrees'
    BY <2>1 DEF IInv, TypeOK, AckedAgrees, Stored, Remove, HoldForSave
  <2>3. SaveAgreesWithStore'
    BY <1>1, <1>2, <2>1, SaveAgreesForHolder DEF Remove
  <2>4. Arrived(c, {"add", "remove", "removeAll", "setAutoload", "setComment"})
    BY DEF Remove, Arrived
  <2> QED
    BY <1>3, <2>1, <2>2, <2>3, <2>4, HoldForSaveInvariant DEF Remove
<1>5. CASE ~Stored(call[c].fp)
  <2>1. /\ Answer(c, "notFound", {})
        /\ UNCHANGED <<disk, masterKey, mu, now, call, snap, acked>>
    BY <1>5 DEF Remove
  <2>2. store' = store
    BY <1>5 DEF IInv, TypeOK, Vault, Remove, Stored
  <2>3. sessionAutoload0' = sessionAutoload0 /\ sessionUnloaded' = sessionUnloaded
    BY <1>5 DEF IInv, SessionSetsInStore, Remove
  <2> QED
    BY <1>1, <2>1, <2>2, <2>3, AnswerStep, "notFound" \in Status,
       {} \in SUBSET Fingerprint DEF Status, Holding
<1> QED
  BY <1>4, <1>5

LEMMA RemoveAllInvariant ==
  ASSUME IInv, NEW c \in Client, RemoveAll(c)
  PROVE  IInv'
<1> USE DEF RemoveFromStore, ForgetSession, Unpromise
<1>1. call[c].op = "removeAll" /\ mu = NoClient
  BY ArrivedRequest DEF RemoveAll
<1>2. /\ store' \in Vault
      /\ \A fp \in Fingerprint : store'[fp] = NoIdentity
      /\ sessionAutoload0' \in SUBSET Fingerprint
      /\ sessionUnloaded' \in SUBSET Fingerprint
      /\ acked' \in [Fingerprint -> {"unknown", "present", "absent"}]
  BY DEF IInv, TypeOK, Vault, RemoveAll
<1>3. SaveAgreesWithStore'
  BY <1>1, <1>2, SaveAgreesForHolder DEF RemoveAll
<1>4. SessionSetsInStore' /\ AckedAgrees'
  BY DEF IInv, TypeOK, RemoveAll, SessionSetsInStore, AckedAgrees
<1>5. Arrived(c, {"add", "remove", "removeAll", "setAutoload", "setComment"})
  BY DEF RemoveAll, Arrived
<1> QED
  BY <1>2, <1>3, <1>4, <1>5, HoldForSaveInvariant DEF RemoveAll

LEMMA UpdatedIsIdentity ==
  ASSUME IInv, NEW r \in AllRequests, r.op \in {"setAutoload", "setComment"}, Stored(r.fp)
  PROVE  Updated(r) \in Identity
<1>1. r.fp \in Fingerprint
  BY RequestFields
<1>2. store[r.fp] \in Identity
  BY <1>1 DEF IInv, TypeOK, Vault, Stored
<1>3. CASE r.op = "setAutoload"
  BY <1>2, <1>3, RequestFields, Zenon DEF Updated, Identity
<1>4. CASE r.op = "setComment"
  <2>1. r.comment \in Comment
    BY <1>4, RequestFields
  <2> QED
    BY <1>2, <1>4, <2>1 DEF Updated, Identity
<1> QED
  BY <1>3, <1>4

LEMMA UpdateInvariant ==
  ASSUME IInv, NEW c \in Client, Update(c)
  PROVE  IInv'
<1> DEFINE r == call[c]
<1>1. /\ r \in AllRequests /\ r.op \in {"setAutoload", "setComment"}
      /\ mu = NoClient /\ pc[c] = "called"
  BY ArrivedRequest DEF Update
<1>2. r.fp \in Fingerprint
  BY <1>1, RequestFields
<1>3. CASE AnswerOnly(c, "notFound") \/ AnswerOnly(c, "ok")
  BY <1>1, <1>3, AnswerStep, "notFound" \in Status, "ok" \in Status,
     {} \in SUBSET Fingerprint DEF AnswerOnly, volatile, Status, Holding
<1>4. CASE /\ Stored(r.fp)
           /\ store' = [store EXCEPT ![r.fp] = Updated(r)]
           /\ HoldForSave(c)
           /\ UNCHANGED <<sessionAutoload0, sessionUnloaded, acked>>
  <2>1. Updated(r) \in Identity /\ Updated(r) # NoIdentity
    BY <1>1, <1>4, UpdatedIsIdentity, IdentityAssumption
  <2>2. /\ store' \in Vault
        /\ store'[r.fp] # NoIdentity
        /\ \A fp \in Fingerprint : (store'[fp] = NoIdentity) <=> (store[fp] = NoIdentity)
    BY <1>2, <1>4, <2>1 DEF IInv, TypeOK, Vault, Stored
  <2>3. SaveAgreesWithStore'
    BY <1>1, <1>4, <2>2, SaveAgreesForHolder
  <2>4. SessionSetsInStore' /\ AckedAgrees'
    BY <1>4, <2>2 DEF IInv, TypeOK, SessionSetsInStore, AckedAgrees, Stored, HoldForSave
  <2>5. Arrived(c, {"add", "remove", "removeAll", "setAutoload", "setComment"}) /\ ~Locked
    BY DEF Update, Arrived
  <2> QED
    BY <1>4, <2>2, <2>3, <2>4, <2>5, HoldForSaveInvariant DEF IInv, TypeOK
<1> QED
  BY <1>3, <1>4 DEF Update

LEMMA SessionOpInvariant ==
  ASSUME IInv, NEW c \in Client, SessionOp(c)
  PROVE  IInv'
<1>1. /\ call[c] \in AllRequests /\ call[c].op \in {"sessionLoad", "sessionUnload"}
      /\ pc[c] = "called"
  BY ArrivedRequest DEF SessionOp
<1>2. call[c].fp \in Fingerprint
  BY <1>1, RequestFields
<1>3. PICK s \in {"ok", "notFound"} : Answer(c, s, {})
  BY DEF SessionOp
<1>4. /\ sessionAutoload0' \in SUBSET Fingerprint
      /\ sessionUnloaded' \in SUBSET Fingerprint
      /\ SessionSetsInStore'
  BY <1>2 DEF IInv, TypeOK, SessionSetsInStore, SessionOp, Stored
<1>5. TypeOK'
  <2>1. pc' \in [Client -> Labels]
    BY <1>3 DEF IInv, TypeOK, Answer, Goto, Labels
  <2>2. reply' \in [Client -> [status : Status, rows : SUBSET Fingerprint]]
    BY <1>3 DEF IInv, TypeOK, Answer, Status
  <2> QED
    BY <1>4, <2>1, <2>2 DEF IInv, TypeOK, SessionOp
<1>6. HolderHoldsMu' /\ KeyMatchesHolder' /\ CallMatchesLabel' /\ SaveAgreesWithStore'
  BY <1>1, <1>3 DEF IInv, TypeOK, HolderHoldsMu, KeyMatchesHolder, CallMatchesLabel,
     SaveAgreesWithStore, SessionOp, Answer, Goto, Stored, Holding
<1>7. AckedAgrees'
  BY DEF IInv, AckedAgrees, SessionOp, Stored
<1> QED
  BY <1>4, <1>5, <1>6, <1>7 DEF IInv

LEMMA SaveInvariant ==
  ASSUME IInv, NEW c \in Client, Save(c)
  PROVE  IInv'
<1> DEFINE q == call[c]
<1>1. PICK r \in SaveOutcome :
        /\ SaveEffect(r)
        /\ IF r = "saved"
           THEN CommitSession(q) /\ Promise(q) /\ Answer(c, "ok", {})
           ELSE /\ Answer(c, "internal", {})
                /\ UNCHANGED <<sessionAutoload0, sessionUnloaded, acked>>
  BY DEF Save
<1>2. /\ q \in AllRequests
      /\ q.op \in {"add", "remove", "removeAll", "setAutoload", "setComment"}
      /\ pc[c] = "save" /\ mu' = NoClient /\ store' = store
  BY DEF IInv, CallMatchesLabel, Save
<1>3. q.op \in {"add", "remove", "setAutoload", "setComment"} => q.fp \in Fingerprint
  BY <1>2, RequestFields
<1>4. PICK s \in {"ok", "internal"} : Answer(c, s, {})
  BY <1>1
<1>5. /\ sessionAutoload0' \in SUBSET Fingerprint
      /\ sessionUnloaded' \in SUBSET Fingerprint
      /\ SessionSetsInStore'
  BY <1>1, <1>2, <1>3 DEF IInv, TypeOK, SessionSetsInStore, SaveAgreesWithStore,
     CommitSession, Stored
<1>6. acked' \in [Fingerprint -> {"unknown", "present", "absent"}] /\ AckedAgrees'
  <2>1. CASE r # "saved"
    BY <1>1, <1>2, <2>1, SaveEffectAgrees DEF IInv, TypeOK
  <2>2. CASE r = "saved"
    <3>1. disk' = store /\ Promise(q)
      BY <1>1, <2>2 DEF SaveEffect
    <3>2. CASE q.op = "add"
      BY <1>2, <1>3, <3>1, <3>2 DEF IInv, TypeOK, AckedAgrees, SaveAgreesWithStore,
         Promise, Stored
    <3>3. CASE q.op = "remove"
      BY <1>2, <1>3, <3>1, <3>3 DEF IInv, TypeOK, AckedAgrees, SaveAgreesWithStore,
         Promise, Stored
    <3>4. CASE q.op = "removeAll"
      BY <1>2, <1>3, <3>1, <3>4 DEF IInv, TypeOK, AckedAgrees, SaveAgreesWithStore,
         Promise, Stored
    <3>5. CASE q.op \in {"setAutoload", "setComment"}
      BY <1>2, <1>3, <3>1, <3>5 DEF IInv, TypeOK, AckedAgrees, Promise, Stored
    <3> QED
      BY <1>2, <3>2, <3>3, <3>4, <3>5
  <2> QED
    BY <2>1, <2>2
<1>7. TypeOK'
  <2>1. pc' \in [Client -> Labels]
    BY <1>4 DEF IInv, TypeOK, Answer, Goto, Labels
  <2>2. reply' \in [Client -> [status : Status, rows : SUBSET Fingerprint]]
    BY <1>4 DEF IInv, TypeOK, Answer, Status
  <2>3. disk' \in Vault
    BY <1>1, SaveEffectType DEF IInv
  <2> QED
    BY <1>5, <1>6, <2>1, <2>2, <2>3 DEF IInv, TypeOK, Save
<1>8. HolderHoldsMu'
  BY <1>2, <1>4, ReleaseMu, "done" \in Labels \ Holding
     DEF Answer, Goto, Holding, Labels
<1>9. KeyMatchesHolder' /\ CallMatchesLabel' /\ SaveAgreesWithStore'
  BY <1>2, <1>4 DEF IInv, TypeOK, KeyMatchesHolder, CallMatchesLabel,
     SaveAgreesWithStore, Save, Answer, Goto, Stored
<1> QED
  BY <1>5, <1>6, <1>7, <1>8, <1>9 DEF IInv

LEMMA WipeKeyInvariant ==
  ASSUME IInv, NEW c \in Client, Arrived(c, {"lock", "unlockRecovery"}), WipeKey(c)
  PROVE  IInv'
<1>1. pc[c] = "called" /\ mu = NoClient
  BY ArrivedRequest
<1>2. TypeOK'
  BY DEF IInv, TypeOK, WipeKey, Goto, Labels
<1>3. HolderHoldsMu'
  BY <1>1, TakeMu, "keyWrite" \in Holding DEF WipeKey, Goto, Holding
<1>4. KeyMatchesHolder' /\ SaveAgreesWithStore'
  BY <1>1, NobodyElseSaves, ClientAssumption DEF IInv, TypeOK, KeyMatchesHolder,
     SaveAgreesWithStore, WipeKey, Goto, Holding
<1>5. CallMatchesLabel' /\ SessionSetsInStore' /\ AckedAgrees'
  BY DEF IInv, TypeOK, CallMatchesLabel, SessionSetsInStore, AckedAgrees, Stored,
     WipeKey, Goto, Arrived
<1> QED
  BY <1>2, <1>3, <1>4, <1>5 DEF IInv

LEMMA SetKeyInvariant ==
  ASSUME IInv, NEW c \in Client, Arrived(c, {"unlock", "unlockRecovery"}), SetKey(c)
  PROVE  IInv'
<1>1. pc[c] = "called" /\ mu = NoClient
  BY ArrivedRequest
<1>2. TypeOK'
  BY DEF IInv, TypeOK, SetKey, Answer, Goto, Labels, Status
<1>3. KeyMatchesHolder' /\ SaveAgreesWithStore' /\ HolderHoldsMu'
  BY <1>1, NobodyElseSaves DEF IInv, TypeOK, KeyMatchesHolder, HolderHoldsMu,
     SaveAgreesWithStore, SetKey, Answer, Goto, Holding
<1>4. CallMatchesLabel' /\ SessionSetsInStore' /\ AckedAgrees'
  BY DEF IInv, TypeOK, CallMatchesLabel, SessionSetsInStore, AckedAgrees, Stored,
     SetKey, Answer, Goto
<1> QED
  BY <1>2, <1>3, <1>4 DEF IInv

LEMMA AnswerOnlyInvariant ==
  ASSUME IInv, NEW c \in Client, NEW s \in Status, pc[c] = "called", AnswerOnly(c, s)
  PROVE  IInv'
BY AnswerStep, {} \in SUBSET Fingerprint DEF AnswerOnly, volatile, Holding

LEMMA LockUnlockInvariant ==
  ASSUME IInv, NEW c \in Client, Lock(c) \/ Unlock(c) \/ UnlockWithRecovery(c)
  PROVE  IInv'
<1>1. {"notLocked", "wrongPassphrase", "noRecovery"} \subseteq Status
  BY DEF Status
<1>2. CASE Lock(c)
  BY <1>2, WipeKeyInvariant DEF Lock, Arrived
<1>3. CASE Unlock(c)
  BY <1>1, <1>3, SetKeyInvariant, AnswerOnlyInvariant DEF Unlock, Arrived
<1>4. CASE UnlockWithRecovery(c)
  BY <1>1, <1>4, SetKeyInvariant, WipeKeyInvariant, AnswerOnlyInvariant
     DEF UnlockWithRecovery, Arrived
<1> QED
  BY <1>2, <1>3, <1>4

LEMMA KeyWriteInvariant ==
  ASSUME IInv, NEW c \in Client, KeyWrite(c)
  PROVE  IInv'
<1>1. TypeOK'
  BY ClientAssumption DEF IInv, TypeOK, KeyWrite, Answer, Goto, Labels, Status
<1>2. HolderHoldsMu'
  BY ReleaseMu, "done" \in Labels \ Holding DEF KeyWrite, Answer, Goto, Labels, Holding
<1>3. \A d \in Client \ {c} : pc[d] \notin Holding
  BY DEF IInv, HolderHoldsMu, KeyWrite, Holding
<1>4. KeyMatchesHolder' /\ SaveAgreesWithStore'
  BY <1>3 DEF IInv, TypeOK, KeyMatchesHolder, SaveAgreesWithStore, KeyWrite, Answer,
     Goto, Holding
<1>5. CallMatchesLabel' /\ SessionSetsInStore' /\ AckedAgrees'
  BY DEF IInv, TypeOK, CallMatchesLabel, SessionSetsInStore, AckedAgrees, Stored,
     KeyWrite, Answer, Goto
<1> QED
  BY <1>1, <1>2, <1>4, <1>5 DEF IInv

LEMMA EnvironmentInvariant ==
  ASSUME IInv, Tick \/ Restart
  PROVE  IInv'
<1>1. CASE Tick
  BY <1>1 DEF Tick, volatile, IInv, TypeOK, HolderHoldsMu, KeyMatchesHolder,
     CallMatchesLabel, SaveAgreesWithStore, SessionSetsInStore, AckedAgrees, Stored
<1>2. CASE Restart
  <2>1. TypeOK'
    BY <1>2 DEF IInv, TypeOK, Restart, Labels, NoReply, NoSnap, Status
  <2>2. HolderHoldsMu' /\ KeyMatchesHolder' /\ CallMatchesLabel' /\ SaveAgreesWithStore'
    BY <1>2, ClientAssumption DEF Restart, HolderHoldsMu, KeyMatchesHolder,
       CallMatchesLabel, SaveAgreesWithStore, Holding
  <2>3. SessionSetsInStore' /\ AckedAgrees'
    BY <1>2 DEF IInv, Restart, SessionSetsInStore, AckedAgrees, Stored
  <2> QED
    BY <2>1, <2>2, <2>3 DEF IInv
<1> QED
  BY <1>1, <1>2

LEMMA NextInvariant == IInv /\ [Next]_vars => IInv'
<1> SUFFICES ASSUME IInv, [Next]_vars PROVE IInv'
  OBVIOUS
<1>1. CASE UNCHANGED vars
  BY <1>1 DEF vars, volatile, IInv, TypeOK, HolderHoldsMu, KeyMatchesHolder,
     CallMatchesLabel, SaveAgreesWithStore, SessionSetsInStore, AckedAgrees, Stored
<1>2. ASSUME NEW c \in Client, Serve(c) PROVE IInv'
  BY <1>2, NothingToPurgeInvariant, PurgeExpiredInvariant, PurgeSaveInvariant,
     ListInvariant, SignInvariant, RefusedLockedInvariant, AddInvariant,
     RemoveInvariant, RemoveAllInvariant, UpdateInvariant, SessionOpInvariant,
     SaveInvariant, LockUnlockInvariant, KeyWriteInvariant DEF Serve
<1>3. ASSUME NEW c \in Client, Begin(c) \/ Return(c) PROVE IInv'
  BY <1>3, BeginInvariant, ReturnInvariant
<1> QED
  BY <1>1, <1>2, <1>3, EnvironmentInvariant DEF Next

(* The inductive invariant holds in every reachable state. *)
THEOREM Invariance == Spec => []IInv
BY InitInvariant, NextInvariant, PTL DEF Spec

(* Type correctness of the vault agent. *)
THEOREM TypeCorrect == Spec => []TypeOK
<1>1. IInv => TypeOK
  BY DEF IInv
<1> QED
  BY <1>1, Invariance, PTL

(* Remove, RemoveAll and the purge leave nothing behind in the session sets
   (agent.go 57-61, 179-181 and 198-200), in any interleaving. *)
THEOREM SessionSetsCorrect == Spec => []SessionSetsInStore
<1>1. IInv => SessionSetsInStore
  BY DEF IInv
<1> QED
  BY <1>1, Invariance, PTL

(* An answered Add, Remove or RemoveAll is on disk (agent.go 158-167, 179-188,
   198-204, store.go 88-126), whatever fails or restarts afterwards. *)
THEOREM Durability == Spec => []AckedDurable
<1>1. IInv => AckedDurable
  BY DEF IInv, AckedAgrees, AckedDurable
<1> QED
  BY <1>1, Invariance, PTL

-----------------------------------------------------------------------------
(* The vault agent implements LockableAgent. *)

LEMMA InitRefines == Init => Promised!Init
<1> SUFFICES ASSUME Init PROVE Promised!Init
  OBVIOUS
<1>1. store \in Vault
  BY InitInvariant DEF IInv, TypeOK
<1> QED
  BY <1>1 DEF Init, Promised!Init, Locked

LEMMA ServeRefines ==
  ASSUME IInv, IInv', NEW c \in Client, Serve(c)
  PROVE  Promised!Next \/ UNCHANGED Promised!avars
<1> USE DEF Promised!avars, volatile, Locked
<1>1. store' \in Vault /\ disk' \in Vault
  BY DEF IInv, TypeOK
<1>2. CASE \/ NothingToPurge(c) \/ ListSession(c) \/ ListHidden(c) \/ ListRows(c)
           \/ SignLookup(c) \/ SignDecrypt(c) \/ RefusedLocked(c) \/ SessionOp(c)
  BY <1>2 DEF NothingToPurge, ListSession, ListHidden, ListRows, SignLookup,
     SignDecrypt, RefusedLocked, SessionOp, AnswerOnly
<1>3. CASE PurgeExpired(c) \/ Add(c) \/ RemoveAll(c)
  BY <1>1, <1>3 DEF PurgeExpired, Add, RemoveAll, HoldForSave, Promised!Next,
     Promised!Change
<1>4. CASE Remove(c)
  BY <1>1, <1>4 DEF Remove, HoldForSave, Promised!Next, Promised!Change
<1>5. CASE Update(c)
  BY <1>1, <1>5 DEF Update, HoldForSave, AnswerOnly, Promised!Next, Promised!Change
<1>6. CASE PurgeSave(c) \/ Save(c)
  <2>1. masterKey = "intact" /\ masterKey' = masterKey
    BY <1>6 DEF IInv, KeyMatchesHolder, PurgeSave, Save
  <2> QED
    BY <1>1, <2>1 DEF Promised!Next, Promised!Change
<1>7. CASE Lock(c)
  BY <1>7 DEF Lock, WipeKey
<1>8. CASE Unlock(c) \/ UnlockWithRecovery(c)
  BY <1>8 DEF Unlock, UnlockWithRecovery, SetKey, WipeKey, AnswerOnly, Promised!Next,
     Promised!Unlock
<1>9. CASE KeyWrite(c)
  <2>1. masterKey = "wiped" /\ masterKey' \in {"nil", "intact"} /\ UNCHANGED <<store, disk>>
    BY <1>9 DEF IInv, KeyMatchesHolder, KeyWrite
  <2> QED
    BY <2>1 DEF Promised!Next, Promised!Lock
<1> QED
  BY <1>2, <1>3, <1>4, <1>5, <1>6, <1>7, <1>8, <1>9 DEF Serve

LEMMA NextRefines == IInv /\ IInv' /\ [Next]_vars => [Promised!Next]_Promised!avars
<1> SUFFICES ASSUME IInv, IInv', [Next]_vars PROVE Promised!Next \/ UNCHANGED Promised!avars
  BY DEF Promised!avars
<1>1. CASE UNCHANGED vars
  BY <1>1 DEF vars, volatile, Promised!avars, Locked
<1>2. ASSUME NEW c \in Client, Begin(c) \/ Return(c)
      PROVE  UNCHANGED Promised!avars
  BY <1>2 DEF Begin, Return, volatile, Promised!avars, Locked
<1>3. CASE Tick
  BY <1>3 DEF Tick, volatile, Promised!avars, Locked
<1>4. CASE Restart
  BY <1>4 DEF Restart, Promised!Next, Promised!Restart, Locked
<1> QED
  BY <1>1, <1>2, <1>3, <1>4, ServeRefines DEF Next

(* While locked nothing changes; a restart brings the file back. *)
THEOREM LockPromiseKept == Spec => KeepsLockPromise
BY InitRefines, NextRefines, Invariance, PTL DEF Spec, KeepsLockPromise, Promised!Spec

-----------------------------------------------------------------------------
(* What an answer says about the moments its call lasted.  Remember changes
   the history of every client at every step, so each step is shown twice: for
   the client that takes it, and for the calls of the others. *)

(* The answer of one call is as ServesOnlyVisible and ListFindsVisible say. *)
AnswerFits(c) ==
  pc[c] = "done" =>
    /\ since[c].locked =>
         IF call[c].op = "list" THEN reply[c] = [status |-> "ok", rows |-> {}]
         ELSE call[c].op \in NeedsUnlocked \cup {"sign"} => reply[c].status = "locked"
    /\ call[c].op = "list" /\ reply[c].status = "ok" =>
         /\ reply[c].rows \cap Unloaded(c) = {}
         /\ since[c].unlocked =>
              /\ reply[c].rows \cap since[c].dead = {}
              /\ since[c].byFlag \cup since[c].bySession \subseteq reply[c].rows
    /\ call[c].op = "sign" /\ reply[c].status = "ok" =>
         /\ call[c].fp \notin since[c].unflagged
         /\ since[c].unlocked => call[c].fp \notin since[c].dead

LEMMA AnswersFit ==
  (\A c \in Client : AnswerFits(c)) <=> ServesOnlyVisible /\ ListFindsVisible
BY DEF AnswerFits, Answered, ServesOnlyVisible, ListFindsVisible, LockedServesNothing,
   UnloadedNotServed, ExpiredNotServed, Unloaded

CallFits(c) == HistoryFits(c) /\ AnswerFits(c)

Histories ==
  [locked : BOOLEAN, unlocked : BOOLEAN,
   dead : SUBSET Fingerprint, unflagged : SUBSET Fingerprint,
   hidden : SUBSET Fingerprint,
   byFlag : SUBSET Fingerprint, bySession : SUBSET Fingerprint]

LEMMA MomentType == Moment' \in Histories
<1>1. /\ Dead' \in SUBSET Fingerprint /\ Unflagged' \in SUBSET Fingerprint
      /\ Hidden' \in SUBSET Fingerprint
      /\ ShownByFlag' \in SUBSET Fingerprint /\ ShownBySession' \in SUBSET Fingerprint
  BY DEF Dead, Unflagged, Hidden, ShownByFlag, ShownBySession
<1>2. Locked' \in BOOLEAN /\ (~Locked') \in BOOLEAN
  BY DEF Locked
<1> QED
  BY <1>1, <1>2, Zenon DEF Moment, Histories

LEMMA RememberType ==
  ASSUME SinceTypeOK, Remember
  PROVE  SinceTypeOK'
<1>1. \A c \in Client : since[c] \in Histories
  BY DEF SinceTypeOK, Histories
<1>2. NoHistory \in Histories
  BY DEF NoHistory, Histories
<1>3. ASSUME NEW a \in Histories, NEW b \in Histories PROVE Meet(a, b) \in Histories
  BY DEF Meet, Histories
<1>4. since' = [c \in Client |-> since'[c]]
  BY DEF Remember
<1>5. \A c \in Client : since'[c] \in Histories
  BY <1>1, <1>2, <1>3, MomentType DEF Remember
<1> QED
  BY <1>4, <1>5 DEF SinceTypeOK, Histories

LEMMA MomentFields ==
  /\ Moment'.locked = Locked'
  /\ Moment'.unlocked = ~Locked'
  /\ Moment'.dead = Dead'
  /\ Moment'.unflagged = Unflagged'
  /\ Moment'.hidden = Hidden'
  /\ Moment'.byFlag = ShownByFlag'
  /\ Moment'.bySession = ShownBySession'
BY Zenon DEF Moment

LEMMA MeetFields ==
  ASSUME NEW a, NEW m, NEW b, b = Meet(a, m)
  PROVE  /\ b.locked = (a.locked /\ m.locked)
         /\ b.unlocked = (a.unlocked /\ m.unlocked)
         /\ b.dead = a.dead \cap m.dead
         /\ b.unflagged = a.unflagged \cap m.unflagged
         /\ b.hidden = a.hidden \cap m.hidden
         /\ b.byFlag = a.byFlag \cap m.byFlag
         /\ b.bySession = a.bySession \cap m.bySession
<1>1. /\ Meet(a, m).locked = (a.locked /\ m.locked)
      /\ Meet(a, m).unlocked = (a.unlocked /\ m.unlocked)
      /\ Meet(a, m).dead = a.dead \cap m.dead
      /\ Meet(a, m).unflagged = a.unflagged \cap m.unflagged
      /\ Meet(a, m).hidden = a.hidden \cap m.hidden
      /\ Meet(a, m).byFlag = a.byFlag \cap m.byFlag
      /\ Meet(a, m).bySession = a.bySession \cap m.bySession
  BY Zenon DEF Meet
<1> QED
  BY <1>1, Zenon

(* What Remember does to the history of a call that goes on. *)
LEMMA Remembered ==
  ASSUME CInv, Remember, NEW c \in Client, InProgress(c), pc'[c] # "idle"
  PROVE  /\ since'[c].locked => since[c].locked /\ Locked'
         /\ since'[c].unlocked => since[c].unlocked /\ ~Locked'
         /\ since'[c].dead \subseteq since[c].dead \cap Dead'
         /\ since'[c].unflagged \subseteq since[c].unflagged \cap Unflagged'
         /\ since'[c].hidden \subseteq since[c].hidden \cap Hidden'
         /\ since'[c].byFlag \subseteq since[c].byFlag \cap ShownByFlag'
         /\ since'[c].bySession \subseteq since[c].bySession \cap ShownBySession'
<1>1. since'[c] = Meet(since[c], Moment')
  BY DEF Remember, InProgress
<1> DEFINE m == Moment'
           a == since[c]
           b == since'[c]
<1>2. b = Meet(a, m)
  BY <1>1
<1> HIDE DEF m, a, b
<1>3. /\ b.locked = (a.locked /\ m.locked)
      /\ b.unlocked = (a.unlocked /\ m.unlocked)
  BY <1>2, MeetFields
<1>4. /\ b.dead = a.dead \cap m.dead
      /\ b.unflagged = a.unflagged \cap m.unflagged
      /\ b.hidden = a.hidden \cap m.hidden
      /\ b.byFlag = a.byFlag \cap m.byFlag
      /\ b.bySession = a.bySession \cap m.bySession
  BY <1>2, MeetFields
<1>5. m.locked = Locked' /\ m.unlocked = ~Locked'
  BY MomentFields DEF m
<1>6. /\ m.dead = Dead' /\ m.unflagged = Unflagged'
      /\ m.hidden = Hidden'
      /\ m.byFlag = ShownByFlag' /\ m.bySession = ShownBySession'
  BY MomentFields DEF m
<1>7. /\ b.locked => a.locked /\ Locked'
      /\ b.unlocked => a.unlocked /\ ~Locked'
  BY <1>3, <1>5, Zenon
<1>8. /\ b.dead \subseteq a.dead \cap Dead'
      /\ b.unflagged \subseteq a.unflagged \cap Unflagged'
      /\ b.hidden \subseteq a.hidden \cap Hidden'
      /\ b.byFlag \subseteq a.byFlag \cap ShownByFlag'
      /\ b.bySession \subseteq a.bySession \cap ShownBySession'
  BY <1>4, <1>6
<1> QED
  BY <1>7, <1>8 DEF a, b

LEMMA SinceStaysNow ==
  ASSUME CInv, Remember, NEW c \in Client, pc[c] = "done" => pc'[c] \in {"idle", "done"}
  PROVE  SinceIsNow(c)'
<1>1. CASE InProgress(c) /\ pc'[c] # "idle"
  BY <1>1, Remembered DEF SinceIsNow
<1>2. CASE pc[c] = "idle" /\ pc'[c] # "idle"
  <2>1. since'[c] = Moment'
    BY <1>2 DEF Remember
  <2>2. /\ since'[c].locked = Locked'
        /\ since'[c].unlocked = ~Locked'
        /\ since'[c].dead = Dead'
        /\ since'[c].unflagged = Unflagged'
        /\ since'[c].hidden = Hidden'
        /\ since'[c].byFlag = ShownByFlag'
        /\ since'[c].bySession = ShownBySession'
    BY <2>1, MomentFields, Zenon
  <2> QED
    BY <2>2, Zenon DEF SinceIsNow
<1>3. CASE pc'[c] \in {"idle", "done"}
  BY <1>3 DEF SinceIsNow, InProgress
<1> QED
  BY <1>1, <1>2, <1>3 DEF InProgress

(* An identity that appears is alive: a lifetime, when there is one, is at
   least a tick (addKeyWithAutoload). *)
DeadStay == \A fp \in Fingerprint : fp \in Dead' /\ ~Stored(fp) => ~Stored(fp)'

LEMMA AddKeepsDead ==
  ASSUME IInv, NEW c \in Client, Add(c)
  PROVE  DeadStay
<1>1. call[c] \in AllRequests /\ call[c].op = "add"
  BY ArrivedRequest DEF Add
<1>2. call[c].fp \in Fingerprint /\ call[c].lifetime \in Nat
  BY <1>1, RequestFields
<1>3. PICK f \in Fingerprint : f = call[c].fp
  BY <1>2
<1>4. /\ store' = [store EXCEPT ![f] = NewIdentity(call[c])]
      /\ now' = now /\ now \in Nat
      /\ store \in [Fingerprint -> Identity \cup {NoIdentity}]
  BY <1>3 DEF Add, HoldForSave, IInv, TypeOK, Vault
<1>5. f \notin Dead'
  <2> DEFINE i == NewIdentity(call[c])
  <2>1. i.expiresAt = (IF call[c].lifetime > 0 THEN now + call[c].lifetime ELSE 0)
    BY DEF NewIdentity
  <2>2. i # NoIdentity
    <3>1. /\ call[c].autoload \in BOOLEAN /\ call[c].comment \in Comment
          /\ (IF call[c].lifetime > 0 THEN now + call[c].lifetime ELSE 0) \in Nat
      BY <1>1, <1>2, <1>4, RequestFields
    <3>2. i \in Identity
      BY <3>1, Zenon DEF NewIdentity, Identity, i
    <3> QED
      BY <3>2, IdentityAssumption
  <2>3. store'[f] = i
    BY <1>4
  <2> HIDE DEF i
  <2>4. i.expiresAt = 0 \/ ~(now' > i.expiresAt)
    BY <1>2, <1>4, <2>1
  <2> QED
    BY <2>2, <2>3, <2>4 DEF Dead, Stored, Expired
<1>6. \A fp \in Fingerprint : fp # f => store'[fp] = store[fp]
  BY <1>4
<1> QED
  BY <1>5, <1>6 DEF DeadStay, Stored

LEMMA ServeKeepsDead ==
  ASSUME IInv, NEW c \in Client, Serve(c)
  PROVE  DeadStay
<1>1. CASE UNCHANGED store
  BY <1>1 DEF DeadStay, Stored
<1>2. CASE Add(c)
  BY <1>2, AddKeepsDead
<1>3. CASE PurgeExpired(c) \/ Remove(c) \/ RemoveAll(c)
  BY <1>3 DEF PurgeExpired, Remove, RemoveAll, RemoveFromStore, DeadStay, Stored
<1>4. CASE Update(c)
  <2>1. /\ call[c] \in AllRequests /\ call[c].op \in {"setAutoload", "setComment"}
    BY <1>4, ArrivedRequest DEF Update
  <2>2. call[c].fp \in Fingerprint
    BY <2>1, RequestFields
  <2>3. \/ UNCHANGED store
        \/ Stored(call[c].fp) /\ store' = [store EXCEPT ![call[c].fp] = Updated(call[c])]
    BY <1>4 DEF Update, AnswerOnly
  <2> QED
    BY <2>2, <2>3 DEF DeadStay, Stored, IInv, TypeOK, Vault
<1> QED
  BY <1>1, <1>2, <1>3, <1>4 DEF Serve, NothingToPurge, PurgeSave, ListSession, ListHidden,
     ListRows, SignLookup, SignDecrypt, RefusedLocked, SessionOp, Save, Lock, Unlock,
     UnlockWithRecovery, KeyWrite, AnswerOnly, WipeKey, SetKey

(* The call of a client that does not move, whatever the others do. *)
LEMMA WaitingCallFits ==
  ASSUME CInv, Remember, DeadStay, NEW c \in Client, CallFits(c),
         pc'[c] = pc[c], call'[c] = call[c], reply'[c] = reply[c], snap'[c] = snap[c]
  PROVE  CallFits(c)'
<1>1. SinceIsNow(c)'
  BY SinceStaysNow
<1>2. CASE pc[c] = "idle"
  BY <1>1, <1>2 DEF CallFits, HistoryFits, AnswerFits, PastLock, PastPurge, PastSession,
     PastHidden, PastLookup
<1>3. CASE pc[c] = "done"
  <2>1. since'[c] = since[c]
    BY <1>3 DEF Remember
  <2> QED
    BY <1>1, <1>3, <2>1 DEF CallFits, HistoryFits, AnswerFits, PastLock, PastPurge,
       PastSession, PastHidden, PastLookup, Unloaded
<1>4. CASE InProgress(c)
  <2>1. /\ since'[c].locked => since[c].locked
        /\ since'[c].unlocked => since[c].unlocked
        /\ since'[c].dead \subseteq since[c].dead \cap Dead'
        /\ since'[c].unflagged \subseteq since[c].unflagged
        /\ since'[c].hidden \subseteq since[c].hidden
        /\ since'[c].byFlag \subseteq since[c].byFlag
        /\ since'[c].bySession \subseteq since[c].bySession
    BY <1>4, Remembered DEF InProgress
  <2>2. PastPurge(c)'
    BY <2>1 DEF CallFits, HistoryFits, PastPurge, DeadStay, Dead
  <2>3. PastLock(c)' /\ PastSession(c)' /\ PastHidden(c)' /\ PastLookup(c)'
    BY <2>1 DEF CallFits, HistoryFits, PastLock, PastSession, PastHidden, PastLookup
  <2>4. AnswerFits(c)'
    BY <1>4 DEF AnswerFits, InProgress
  <2> QED
    BY <1>1, <2>2, <2>3, <2>4 DEF CallFits, HistoryFits
<1> QED
  BY <1>2, <1>3, <1>4 DEF InProgress

(* The steps of a call, one by one.  A step that does not bring the call past
   one of its checks leaves only SinceIsNow to show. *)
LEMMA EarlyStepFits ==
  ASSUME CInv, Remember, NEW c \in Client,
         pc'[c] \in {"idle", "called", "save", "keyWrite"},
         pc[c] = "done" => pc'[c] = "idle"
  PROVE  CallFits(c)'
<1>1. SinceIsNow(c)'
  BY SinceStaysNow
<1> QED
  BY <1>1 DEF CallFits, HistoryFits, AnswerFits, PastLock, PastPurge, PastSession,
     PastHidden, PastLookup

LEMMA AnswerStepFits ==
  ASSUME CInv, Remember, NEW c \in Client, InProgress(c), pc'[c] = "done", call'[c] = call[c],
         since[c].locked =>
           IF call[c].op = "list" THEN reply'[c] = [status |-> "ok", rows |-> {}]
           ELSE call[c].op \in NeedsUnlocked \cup {"sign"} => reply'[c].status = "locked",
         call[c].op = "list" /\ reply'[c].status = "ok" =>
           /\ reply'[c].rows \cap Unloaded(c) = {}
           /\ since[c].unlocked =>
                /\ reply'[c].rows \cap since[c].dead = {}
                /\ since[c].byFlag \cup since[c].bySession \subseteq reply'[c].rows,
         call[c].op = "sign" /\ reply'[c].status = "ok" =>
           /\ call[c].fp \notin since[c].unflagged
           /\ since[c].unlocked => call[c].fp \notin since[c].dead
  PROVE  CallFits(c)'
<1>1. SinceIsNow(c)'
  BY SinceStaysNow DEF InProgress
<1>2. /\ since'[c].locked => since[c].locked
      /\ since'[c].unlocked => since[c].unlocked
      /\ since'[c].dead \subseteq since[c].dead
      /\ since'[c].unflagged \subseteq since[c].unflagged
      /\ since'[c].hidden \subseteq since[c].hidden
      /\ since'[c].byFlag \subseteq since[c].byFlag
      /\ since'[c].bySession \subseteq since[c].bySession
  BY Remembered
<1>3. AnswerFits(c)'
  BY <1>2 DEF AnswerFits, Unloaded
<1> QED
  BY <1>1, <1>3 DEF CallFits, HistoryFits, PastLock, PastPurge, PastSession, PastHidden,
     PastLookup

(* An answer that serves nothing, given while the vault is unlocked. *)
LEMMA RefusalFits ==
  ASSUME CInv, Remember, NEW c \in Client, InProgress(c), HistoryFits(c),
         pc'[c] = "done", call'[c] = call[c],
         ~Locked \/ ~since[c].locked \/ call[c].op \in {"unlock", "unlockRecovery"},
         reply'[c].status # "ok" \/ call[c].op \notin {"list", "sign"}
  PROVE  CallFits(c)'
<1>1. since[c].locked => call[c].op \in {"unlock", "unlockRecovery"}
  BY DEF HistoryFits, SinceIsNow
<1> QED
  BY <1>1, AnswerStepFits DEF NeedsUnlocked

LEMMA ListSessionFits ==
  ASSUME IInv, CInv, Remember, NEW c \in Client, CallFits(c), ListSession(c)
  PROVE  CallFits(c)'
<1>1. /\ InProgress(c) /\ call' = call
      /\ pc[c] = "listSession"
  BY DEF ListSession, InProgress
<1>2. CASE Locked
  <2>1. pc'[c] = "done" /\ reply'[c] = [status |-> "ok", rows |-> {}]
    BY <1>2 DEF ListSession, Answer, Goto, IInv, TypeOK
  <2>2. ~since[c].unlocked
    BY <1>1, <1>2 DEF CallFits, HistoryFits, SinceIsNow
  <2>3. call[c].op = "list"
    BY <1>1 DEF IInv, CallMatchesLabel
  <2> QED
    BY <1>1, <2>1, <2>2, <2>3, AnswerStepFits
<1>3. CASE ~Locked
  <2>1. /\ pc'[c] = "listHidden" /\ snap'[c].session = sessionAutoload0
        /\ UNCHANGED <<store, sessionAutoload0>>
    BY <1>3 DEF ListSession, Goto, volatile, IInv, TypeOK
  <2>2. SinceIsNow(c)'
    BY <1>1, SinceStaysNow
  <2>3. /\ since'[c].unlocked => since[c].unlocked
        /\ since'[c].locked => since[c].locked
        /\ since'[c].dead \subseteq since[c].dead
        /\ since'[c].unflagged \subseteq Unflagged'
        /\ since'[c].hidden \subseteq Hidden'
        /\ since'[c].bySession \subseteq ShownBySession'
    BY <1>1, <2>1, Remembered
  <2>4. PastLock(c)'
    BY <1>1, <1>3, <2>3 DEF CallFits, HistoryFits, SinceIsNow, PastLock
  <2>5. PastPurge(c)'
    BY <1>1, <2>1, <2>3 DEF CallFits, HistoryFits, PastPurge, Stored
  <2>6. PastSession(c)'
    BY <2>1, <2>3 DEF PastSession, Unflagged, ShownBySession, IInv, SessionSetsInStore, Stored
  <2> QED
    BY <2>1, <2>2, <2>4, <2>5, <2>6 DEF CallFits, HistoryFits, AnswerFits, PastHidden, PastLookup
<1> QED
  BY <1>2, <1>3

LEMMA ListHiddenFits ==
  ASSUME IInv, CInv, Remember, NEW c \in Client, CallFits(c), ListHidden(c)
  PROVE  CallFits(c)'
<1>1. /\ InProgress(c) /\ pc[c] = "listHidden" /\ pc'[c] = "listRows"
      /\ snap'[c].hidden = sessionUnloaded /\ snap'[c].session = snap[c].session
      /\ UNCHANGED <<store, sessionUnloaded>>
  BY DEF ListHidden, InProgress, Goto, volatile, IInv, TypeOK
<1>2. SinceIsNow(c)'
  BY <1>1, SinceStaysNow
<1>3. /\ since'[c].locked => since[c].locked
      /\ since'[c].unlocked => since[c].unlocked
      /\ since'[c].dead \subseteq since[c].dead
      /\ since'[c].unflagged \subseteq since[c].unflagged
      /\ since'[c].hidden \subseteq Hidden'
      /\ since'[c].byFlag \subseteq ShownByFlag'
      /\ since'[c].bySession \subseteq since[c].bySession
  BY <1>1, Remembered
<1>4. PastLock(c)' /\ PastPurge(c)' /\ PastSession(c)'
  BY <1>1, <1>3 DEF CallFits, HistoryFits, PastLock, PastPurge, PastSession, Stored
<1>5. PastHidden(c)'
  BY <1>1, <1>3 DEF PastHidden, ShownByFlag, Hidden
<1> QED
  BY <1>1, <1>2, <1>4, <1>5 DEF CallFits, HistoryFits, AnswerFits, PastLookup

LEMMA ListRowsFits ==
  ASSUME IInv, CInv, Remember, NEW c \in Client, CallFits(c), ListRows(c)
  PROVE  CallFits(c)'
<1> DEFINE R == Rows(snap[c].session, snap[c].hidden)
<1>1. /\ InProgress(c) /\ pc[c] = "listRows" /\ call[c].op \in {"list", "sign"}
      /\ pc'[c] = "done" /\ call' = call
      /\ reply'[c].rows = R
  BY DEF ListRows, InProgress, Answer, Goto, IInv, TypeOK, CallMatchesLabel
<1>2. /\ ~since[c].locked
      /\ since[c].unlocked => \A fp \in since[c].dead : ~Stored(fp)
      /\ since[c].unflagged \subseteq Unflagged
      /\ since[c].hidden \subseteq Hidden
      /\ since[c].byFlag \subseteq ShownByFlag
      /\ since[c].bySession \subseteq ShownBySession
      /\ snap[c].session \cap since[c].unflagged = {}
      /\ since[c].bySession \subseteq snap[c].session
      /\ snap[c].hidden \cap since[c].byFlag = {}
      /\ since[c].hidden \subseteq snap[c].hidden
  BY <1>1 DEF CallFits, HistoryFits, SinceIsNow, PastLock, PastPurge, PastSession, PastHidden
<1>3. R \cap Unloaded(c) = {}
  BY <1>2 DEF Rows, Unloaded, Unflagged, Hidden
<1>4. since[c].unlocked => R \cap since[c].dead = {}
  BY <1>2 DEF Rows
<1>5. since[c].byFlag \cup since[c].bySession \subseteq R
  BY <1>2 DEF Rows, ShownByFlag, ShownBySession, Dead
<1>6. call[c].op = "list"
  BY <1>1 DEF IInv, CallMatchesLabel
<1> HIDE DEF R
<1> QED
  BY <1>1, <1>2, <1>3, <1>4, <1>5, <1>6, AnswerStepFits

LEMMA SignFits ==
  ASSUME IInv, CInv, Remember, NEW c \in Client, CallFits(c), SignLookup(c) \/ SignDecrypt(c)
  PROVE  CallFits(c)'
<1> DEFINE f == call[c].fp
<1>1. InProgress(c) /\ call' = call /\ UNCHANGED <<store, sessionAutoload0>>
      /\ pc[c] \in {"signLookup", "signDecrypt"}
  BY DEF SignLookup, SignDecrypt, InProgress, volatile
<1>2. call[c].op = "sign" /\ f \in Fingerprint
  BY <1>1, RequestFields DEF IInv, CallMatchesLabel
<1>3. /\ since[c].locked => Locked
      /\ since[c].unlocked => ~Locked
      /\ since[c].dead \subseteq Dead
      /\ since[c].unflagged \subseteq Unflagged
      /\ since[c].hidden \subseteq Hidden
  BY <1>1 DEF CallFits, HistoryFits, SinceIsNow
<1>4. CASE SignLookup(c) /\ LookupStatus(f) # "ok"
  <2>1. pc'[c] = "done" /\ reply'[c].status = LookupStatus(f)
    BY <1>4 DEF SignLookup, Answer, Goto, IInv, TypeOK
  <2>2. since[c].locked => LookupStatus(f) = "locked"
    BY <1>3 DEF LookupStatus
  <2> HIDE DEF f
  <2> QED
    BY <1>1, <1>2, <1>4, <2>1, <2>2, AnswerStepFits
<1>5. CASE SignLookup(c) /\ LookupStatus(f) = "ok"
  <2>1. pc[c] = "signLookup" /\ pc'[c] = "signDecrypt"
    BY <1>5 DEF SignLookup, Goto, IInv, TypeOK
  <2>2. ~Locked /\ Stored(f) /\ (store[f].autoload \/ f \in sessionAutoload0)
    BY <1>5 DEF LookupStatus
  <2>3. f \notin since[c].unflagged /\ ~since[c].locked
    BY <1>3, <2>2 DEF Unflagged
  <2>4. since[c].unlocked => f \notin since[c].dead
    BY <2>1, <2>2 DEF CallFits, HistoryFits, PastPurge
  <2>5. /\ since'[c].locked => since[c].locked
        /\ since'[c].unlocked => since[c].unlocked
        /\ since'[c].dead \subseteq since[c].dead
        /\ since'[c].unflagged \subseteq since[c].unflagged
        /\ since'[c].hidden \subseteq since[c].hidden
    BY <1>1, <2>1, Remembered
  <2>6. SinceIsNow(c)'
    BY <2>1, SinceStaysNow
  <2>7. PastLock(c)' /\ PastLookup(c)'
    BY <1>1, <2>1, <2>3, <2>4, <2>5 DEF PastLock, PastLookup
  <2> QED
    BY <2>1, <2>6, <2>7 DEF CallFits, HistoryFits, AnswerFits, PastPurge, PastSession, PastHidden
<1>6. CASE SignDecrypt(c)
  <2>1. pc[c] = "signDecrypt" /\ pc'[c] = "done"
    BY <1>6 DEF SignDecrypt, Answer, Goto, IInv, TypeOK
  <2>2. /\ ~since[c].locked
        /\ f \notin since[c].unflagged
        /\ since[c].unlocked => f \notin since[c].dead
    BY <2>1 DEF CallFits, HistoryFits, PastLock, PastLookup
  <2> QED
    BY <1>1, <1>2, <2>1, <2>2, AnswerStepFits
<1> QED
  BY <1>4, <1>5, <1>6

LEMMA PurgeFits ==
  ASSUME IInv, CInv, Remember, NEW c \in Client, CallFits(c),
         NothingToPurge(c) \/ PurgeExpired(c) \/ PurgeSave(c)
  PROVE  CallFits(c)'
<1>1. /\ InProgress(c) /\ call' = call
      /\ pc[c] \in {"called", "purgeSave"}
  BY DEF NothingToPurge, PurgeExpired, PurgeSave, InProgress, Arrived
<1>2. SinceIsNow(c)'
  BY <1>1, SinceStaysNow
<1>3. CASE pc'[c] \in {"purgeSave", "listSession", "signLookup"} /\ PastPurge(c)'
  BY <1>2, <1>3 DEF CallFits, HistoryFits, AnswerFits, PastLock, PastSession, PastHidden,
     PastLookup
<1>4. ASSUME NothingToPurge(c) \/ PurgeExpired(c)
      PROVE  pc'[c] \in {"purgeSave", "listSession", "signLookup"} /\ PastPurge(c)'
  <2>1. pc'[c] \in {"purgeSave", "listSession", "signLookup"}
    BY <1>4 DEF NothingToPurge, PurgeExpired, Goto, AfterPurge, IInv, TypeOK
  <2>2. /\ since'[c].unlocked => since[c].unlocked
        /\ since'[c].dead \subseteq Dead'
    BY <1>1, <2>1, Remembered
  <2>3. CASE NothingToPurge(c)
    <3>1. /\ UNCHANGED <<store, now>>
          /\ Locked \/ ExpiredSet = {}
      BY <2>3 DEF NothingToPurge
    <3>2. since[c].unlocked => ~Locked
      BY <1>1 DEF CallFits, HistoryFits, SinceIsNow
    <3> QED
      BY <2>1, <2>2, <3>1, <3>2 DEF PastPurge, ExpiredSet, Dead, Expired, Stored
  <2>4. CASE PurgeExpired(c)
    <3>1. /\ now' = now
          /\ store' = [fp \in Fingerprint |-> IF fp \in ExpiredSet THEN NoIdentity ELSE store[fp]]
      BY <2>4 DEF PurgeExpired, RemoveFromStore
    <3> QED
      BY <2>1, <2>2, <3>1 DEF PastPurge, ExpiredSet, Dead, Expired, Stored
  <2> QED
    BY <1>4, <2>1, <2>3, <2>4
<1>5. ASSUME PurgeSave(c)
      PROVE  \/ pc'[c] \in {"listSession", "signLookup"} /\ PastPurge(c)'
             \/ /\ pc'[c] = "done" /\ reply'[c].status = "internal"
                /\ ~Locked
  <2>1. \/ pc'[c] \in {"listSession", "signLookup"}
        \/ pc'[c] = "done" /\ reply'[c].status = "internal"
    BY <1>5 DEF PurgeSave, Goto, Answer, AfterPurge, IInv, TypeOK
  <2>2. ~Locked /\ pc[c] = "purgeSave" /\ store' = store
    BY <1>5 DEF PurgeSave, IInv, KeyMatchesHolder, Locked
  <2>3. ASSUME pc'[c] \in {"listSession", "signLookup"} PROVE PastPurge(c)'
    <3>1. /\ since'[c].unlocked => since[c].unlocked
          /\ since'[c].dead \subseteq since[c].dead
      BY <1>1, <2>3, Remembered
    <3> QED
      BY <2>2, <3>1 DEF CallFits, HistoryFits, PastPurge, Stored
  <2> QED
    BY <2>1, <2>2, <2>3
<1> QED
  BY <1>1, <1>3, <1>4, <1>5, RefusalFits DEF CallFits

(* The operations that need the vault unlocked, and those of the lock. *)
LEMMA WriterFits ==
  ASSUME IInv, CInv, Remember, NEW c \in Client, CallFits(c),
         \/ RefusedLocked(c) \/ Add(c) \/ Remove(c) \/ RemoveAll(c) \/ Update(c)
         \/ SessionOp(c) \/ Save(c)
         \/ Lock(c) \/ Unlock(c) \/ UnlockWithRecovery(c) \/ KeyWrite(c)
  PROVE  CallFits(c)'
<1>1. HistoryFits(c)
  BY DEF CallFits
<1>2. CASE RefusedLocked(c)
  <2>1. /\ InProgress(c) /\ pc'[c] = "done" /\ call' = call
        /\ call[c].op \in NeedsUnlocked /\ reply'[c].status = "locked"
    BY <1>2 DEF RefusedLocked, Arrived, InProgress, AnswerOnly, Answer, Goto, IInv, TypeOK
  <2> QED
    BY <2>1, AnswerStepFits DEF NeedsUnlocked
<1>3. CASE Add(c) \/ Remove(c) \/ RemoveAll(c) \/ Update(c) \/ SessionOp(c)
  <2>1. /\ InProgress(c) /\ ~Locked /\ call' = call /\ call[c].op \notin {"list", "sign"}
        /\ pc'[c] \in {"save", "done"}
    BY <1>3 DEF Add, Remove, RemoveAll, Update, SessionOp, Arrived, InProgress, HoldForSave,
       AnswerOnly, Answer, Goto, IInv, TypeOK
  <2> QED
    BY <1>1, <2>1, EarlyStepFits, RefusalFits DEF InProgress
<1>4. CASE Save(c)
  <2>1. /\ InProgress(c) /\ ~Locked /\ call' = call /\ call[c].op \notin {"list", "sign"}
        /\ pc'[c] = "done"
    BY <1>4 DEF Save, InProgress, Answer, Goto, IInv, TypeOK, KeyMatchesHolder, Locked,
       CallMatchesLabel
  <2> QED
    BY <1>1, <2>1, RefusalFits
<1>5. CASE Lock(c) \/ Unlock(c) \/ UnlockWithRecovery(c)
  <2>1. /\ InProgress(c) /\ call' = call /\ pc'[c] \in {"keyWrite", "done"}
        /\ pc'[c] = "done" => call[c].op \in {"unlock", "unlockRecovery"}
    BY <1>5 DEF Lock, Unlock, UnlockWithRecovery, WipeKey, SetKey, AnswerOnly, Arrived,
       InProgress, Answer, Goto, IInv, TypeOK
  <2> QED
    BY <1>1, <2>1, EarlyStepFits, RefusalFits DEF InProgress
<1>6. CASE KeyWrite(c)
  <2>1. /\ InProgress(c) /\ call' = call /\ pc'[c] = "done" /\ ~Locked
        /\ call[c].op \in {"lock", "unlockRecovery"}
    BY <1>6 DEF KeyWrite, InProgress, Answer, Goto, IInv, TypeOK, KeyMatchesHolder, Locked,
       CallMatchesLabel
  <2> QED
    BY <1>1, <2>1, RefusalFits
<1> QED
  BY <1>2, <1>3, <1>4, <1>5, <1>6

(* Only the client that takes a step moves. *)
LEMMA OthersWait ==
  ASSUME IInv, NEW c \in Client, NEW d \in Client \ {c},
         Begin(c) \/ Return(c) \/ Serve(c)
  PROVE  pc'[d] = pc[d] /\ call'[d] = call[d] /\ reply'[d] = reply[d] /\ snap'[d] = snap[d]
<1> USE DEF IInv, TypeOK, Answer, Goto
<1>1. CASE Begin(c) \/ Return(c)
  BY <1>1 DEF Begin, Return
<1>2. CASE NothingToPurge(c) \/ PurgeExpired(c) \/ PurgeSave(c)
  BY <1>2 DEF NothingToPurge, PurgeExpired, PurgeSave
<1>3. CASE ListSession(c) \/ ListHidden(c) \/ ListRows(c)
  BY <1>3 DEF ListSession, ListHidden, ListRows
<1>4. CASE SignLookup(c) \/ SignDecrypt(c) \/ RefusedLocked(c) \/ SessionOp(c)
  BY <1>4 DEF SignLookup, SignDecrypt, RefusedLocked, AnswerOnly, SessionOp
<1>5. CASE Add(c) \/ Remove(c) \/ RemoveAll(c) \/ Update(c) \/ Save(c)
  BY <1>5 DEF Add, Remove, RemoveAll, Update, Save, HoldForSave, AnswerOnly
<1>6. CASE Lock(c) \/ Unlock(c) \/ UnlockWithRecovery(c) \/ KeyWrite(c)
  BY <1>6 DEF Lock, Unlock, UnlockWithRecovery, KeyWrite, WipeKey, SetKey, AnswerOnly
<1> QED
  BY <1>1, <1>2, <1>3, <1>4, <1>5, <1>6 DEF Serve

LEMMA CallsFit == CInv => \A c \in Client : CallFits(c)
BY AnswersFit DEF CInv, CallFits

LEMMA InitCInv == CInit => CInv
<1> SUFFICES ASSUME CInit PROVE CInv
  OBVIOUS
<1>1. SinceTypeOK
  BY DEF CInit, SinceTypeOK, NoHistory
<1>2. ASSUME NEW c \in Client PROVE HistoryFits(c) /\ AnswerFits(c)
  <2>1. pc[c] = "idle"
    BY DEF CInit, Init
  <2> QED
    BY <2>1 DEF HistoryFits, AnswerFits, SinceIsNow, PastLock, PastPurge, PastSession,
       PastHidden, PastLookup, InProgress
<1> QED
  BY <1>1, <1>2, AnswersFit DEF CInv

LEMMA NextCInv == IInv /\ CInv /\ [Next /\ Remember]_cvars => CInv'
<1> SUFFICES ASSUME IInv, CInv, [Next /\ Remember]_cvars PROVE CInv'
  OBVIOUS
<1>1. CASE UNCHANGED cvars
  <2>1. ASSUME NEW c \in Client PROVE HistoryFits(c)'
    BY <1>1 DEF cvars, vars, volatile, CInv, HistoryFits, SinceIsNow, PastLock, PastPurge,
       PastSession, PastHidden, PastLookup, InProgress, Locked, Dead, Unflagged, Hidden,
       ShownByFlag, ShownBySession, Stored, Expired
  <2>2. ServesOnlyVisible' /\ ListFindsVisible' /\ SinceTypeOK'
    BY <1>1 DEF cvars, vars, CInv, ServesOnlyVisible, ListFindsVisible, LockedServesNothing,
       UnloadedNotServed, ExpiredNotServed, Unloaded, Answered, SinceTypeOK
  <2> QED
    BY <2>1, <2>2 DEF CInv
<1>2. CASE Next /\ Remember
  <2>1. SinceTypeOK'
    BY <1>2, RememberType DEF CInv
  <2>2. ASSUME NEW d \in Client PROVE CallFits(d)'
    <3>1. CallFits(d)
      BY CallsFit
    <3>2. ASSUME NEW c \in Client, c # d, Begin(c) \/ Return(c) \/ Serve(c)
          PROVE  CallFits(d)'
      <4>1. DeadStay
        BY <3>2, ServeKeepsDead DEF Begin, Return, DeadStay, Stored
      <4> QED
        BY <1>2, <3>1, <3>2, <4>1, OthersWait, WaitingCallFits
    <3>3. ASSUME Begin(d) \/ Return(d) PROVE CallFits(d)'
      <4>1. /\ pc'[d] \in {"idle", "called"}
            /\ pc[d] = "done" => pc'[d] = "idle"
        BY <3>3 DEF Begin, Return, Goto, IInv, TypeOK
      <4> QED
        BY <1>2, <4>1, EarlyStepFits
    <3>4. ASSUME Serve(d) PROVE CallFits(d)'
      BY <1>2, <3>1, <3>4, ListSessionFits, ListHiddenFits, ListRowsFits, SignFits,
         PurgeFits, WriterFits DEF Serve
    <3>5. CASE Tick
      <4>1. DeadStay
        BY <3>5 DEF Tick, DeadStay, Stored
      <4> QED
        BY <1>2, <3>1, <3>5, <4>1, WaitingCallFits DEF Tick
    <3>6. CASE Restart
      BY <1>2, <3>6, EarlyStepFits DEF Restart
    <3> QED
      BY <1>2, <3>2, <3>3, <3>4, <3>5, <3>6 DEF Next
  <2>3. ServesOnlyVisible' /\ ListFindsVisible'
    <3>1. \A c \in Client : AnswerFits(c)'
      BY <2>2 DEF CallFits
    <3> QED
      BY <3>1 DEF AnswerFits, Answered, ServesOnlyVisible, ListFindsVisible,
         LockedServesNothing, UnloadedNotServed, ExpiredNotServed
  <2> QED
    BY <2>1, <2>2, <2>3 DEF CInv, CallFits
<1> QED
  BY <1>1, <1>2

LEMMA CallsInvariance == CSpec => [](IInv /\ CInv)
<1>1. CInit => IInv /\ CInv
  BY InitInvariant, InitCInv DEF CInit
<1>2. IInv /\ CInv /\ [Next /\ Remember]_cvars => (IInv /\ CInv)'
  BY NextInvariant, NextCInv DEF cvars
<1> QED
  BY <1>1, <1>2, PTL DEF CSpec

(* An answer serves nothing that was out of reach during the whole call: locked,
   past its lifetime, or unloaded, except that Sign serves a key that is unloaded by
   sessionUnload alone (agent.go, List and Sign), however the steps of the calls
   interleave with writers, ticks of the clock and restarts. *)
THEOREM ServedIsVisible == CSpec => []ServesOnlyVisible
<1>1. CInv => ServesOnlyVisible
  BY DEF CInv
<1> QED
  BY <1>1, CallsInvariance, PTL

(* A List that succeeds on a vault unlocked throughout misses no key that was
   visible all along for one reason (agent.go, List's three reads). *)
THEOREM ListIsComplete == CSpec => []ListFindsVisible
<1>1. CInv => ListFindsVisible
  BY DEF CInv
<1> QED
  BY <1>1, CallsInvariance, PTL

-----------------------------------------------------------------------------
(* RequestsAreAtomic: what the history variable holds. *)

LEMMA InitSInv == SInit => SInv
<1> SUFFICES ASSUME SInit PROVE SInv
  OBVIOUS
<1>1. SettledTypeOK
  <2>1. TypeOK
    BY InitInvariant DEF SInit, IInv
  <2> QED
    BY <2>1 DEF SInit, SettledTypeOK, Memory, TypeOK
<1>2. SettledIsMemory
  BY DEF SInit, SettledIsMemory
<1>3. ASSUME NEW c \in Client PROVE HalfDone(c) /\ RequestFits(c)
  BY DEF SInit, Init, HalfDone, RequestFits, NoReply
<1> QED
  BY <1>1, <1>2, <1>3 DEF SInv

(* Nobody is between the two halves of a change while a.mu is free or another holds it. *)
LEMMA NobodyHalfway ==
  ASSUME IInv, mu = NoClient \/ (mu \in Client /\ pc[mu] = "keyWrite")
  PROVE  \A d \in Client : pc[d] \notin Halfway
BY ClientAssumption DEF IInv, HolderHoldsMu, Holding, Halfway

LEMMA OneHalfway ==
  ASSUME IInv, NEW c \in Client, pc[c] \in Halfway, NEW d \in Client \ {c}
  PROVE  pc[d] \notin Halfway
BY DEF IInv, HolderHoldsMu, Holding, Halfway

(* A step that changes nothing in memory. *)
LEMMA QuietStep ==
  ASSUME SInv, Settle,
         UNCHANGED <<store, sessionAutoload0, sessionUnloaded>>,
         \A d \in Client : pc'[d] \in Halfway <=> pc[d] \in Halfway
  PROVE  settled' = settled
BY DEF SInv, SettledIsMemory, Settle, Memory

LEMMA SettledTypeKept ==
  ASSUME SInv, TypeOK', Settle
  PROVE  SettledTypeOK' /\ SettledIsMemory'
<1>1. Memory' \in [held : Vault, shown : SUBSET Fingerprint, hidden : SUBSET Fingerprint]
  BY DEF TypeOK, Memory
<1>2. SettledIsMemory'
  BY DEF Settle, SettledIsMemory
<1> QED
  BY <1>1, <1>2 DEF SInv, SettledTypeOK, Settle

(* The answer of a client, as its label tells it. *)
LEMMA RequestKept ==
  ASSUME IInv, IInv', SInv, NEW c \in Client, Begin(c) \/ Return(c) \/ Serve(c)
  PROVE  \A d \in Client : RequestFits(d)'
<1> USE DEF IInv, TypeOK, Answer, Goto, SInv, RequestFits
<1>1. ASSUME NEW d \in Client \ {c} PROVE RequestFits(d)'
  BY <1>1, OthersWait
<1>2. CASE Begin(c) \/ Return(c)
  BY <1>1, <1>2 DEF Begin, Return, Requests, NoReply
<1>3. CASE NothingToPurge(c) \/ PurgeExpired(c) \/ PurgeSave(c)
  BY <1>1, <1>3 DEF NothingToPurge, PurgeExpired, PurgeSave, AfterPurge, Arrived
<1>4. CASE ListSession(c) \/ ListHidden(c) \/ ListRows(c)
  BY <1>1, <1>4 DEF ListSession, ListHidden, ListRows
<1>5. CASE SignLookup(c) \/ SignDecrypt(c) \/ RefusedLocked(c) \/ SessionOp(c)
  BY <1>1, <1>5 DEF SignLookup, SignDecrypt, RefusedLocked, AnswerOnly, SessionOp, Arrived,
     LookupStatus
<1>6. CASE Add(c) \/ Remove(c) \/ RemoveAll(c) \/ Update(c) \/ Save(c)
  BY <1>1, <1>6 DEF Add, Remove, RemoveAll, Update, Save, HoldForSave, AnswerOnly, Arrived
<1>7. CASE Lock(c) \/ Unlock(c) \/ UnlockWithRecovery(c) \/ KeyWrite(c)
  BY <1>1, <1>7 DEF Lock, Unlock, UnlockWithRecovery, KeyWrite, WipeKey, SetKey, AnswerOnly,
     Arrived
<1> QED
  BY <1>2, <1>3, <1>4, <1>5, <1>6, <1>7 DEF Serve

(* The first half of each change, seen from what was settled before it. *)
LEMMA FirstHalf ==
  ASSUME IInv, SInv, NEW c \in Client, mu = NoClient, Settle, call' = call,
         Add(c) \/ Remove(c) \/ RemoveAll(c) \/ Update(c) \/ PurgeExpired(c),
         pc'[c] \in Halfway
  PROVE  settled' = settled /\ settled = Memory /\ HalfDone(c)'
<1>1. settled = Memory
  BY NobodyHalfway DEF SInv, SettledIsMemory
<1>2. settled' = settled
  BY DEF Settle
<1>3. /\ settled'.held = store /\ settled'.shown = sessionAutoload0
      /\ settled'.hidden = sessionUnloaded
  BY <1>1, <1>2 DEF Memory
<1>4. CASE PurgeExpired(c)
  <2>1. pc'[c] = "purgeSave"
    BY <1>4 DEF PurgeExpired, Goto, IInv, TypeOK
  <2>2. PICK fps \in SUBSET Fingerprint :
          /\ fps = ExpiredSet
          /\ \A fp \in fps : store[fp] # NoIdentity /\ store[fp].expiresAt # 0
    <3>1. ExpiredSet \in SUBSET Fingerprint
          /\ \A fp \in ExpiredSet : store[fp] # NoIdentity /\ store[fp].expiresAt # 0
      BY DEF ExpiredSet, Expired, Stored
    <3> QED
      BY <3>1
  <2>3. Dropped(fps)'
    <3>1. RemoveFromStore(fps) /\ ForgetSession(fps)
      BY <1>4, <2>2 DEF PurgeExpired
    <3>2. store' = [fp \in Fingerprint |-> IF fp \in fps THEN NoIdentity ELSE store[fp]]
      BY <3>1 DEF RemoveFromStore
    <3> QED
      BY <1>3, <3>1, <3>2 DEF ForgetSession, Dropped
  <2>4. PurgeIsHalf'
    BY <1>3, <2>2, <2>3 DEF PurgeIsHalf
  <2> QED
    BY <1>1, <1>2, <2>1, <2>4 DEF HalfDone
<1>5. ASSUME Add(c) \/ Remove(c) \/ RemoveAll(c) \/ Update(c)
      PROVE  pc'[c] = "save" /\ SaveIsHalf(c)'
  <2> DEFINE r == call[c]
  <2>1. pc'[c] = "save"
    BY <1>5 DEF Add, Remove, RemoveAll, Update, HoldForSave, Goto, AnswerOnly, Answer,
       Halfway, IInv, TypeOK
  <2>2. CASE Add(c)
    <3>1. r \in AllRequests /\ r.op = "add"
      BY <2>2, ArrivedRequest DEF Add
    <3>2. r.fp \in Fingerprint /\ r.lifetime \in Nat
      BY <3>1, RequestFields
    <3>3. /\ store'[r.fp] = NewIdentity(r)
          /\ \A fp \in Fingerprint \ {r.fp} : store'[fp] = store[fp]
          /\ UNCHANGED <<sessionAutoload0, sessionUnloaded>>
      BY <2>2, <3>2 DEF Add, IInv, TypeOK, Vault
    <3>4. /\ NewIdentity(r).autoload = r.autoload /\ NewIdentity(r).comment = r.comment
          /\ NewIdentity(r).expiresAt # 0 <=> r.lifetime # 0
      BY <3>2 DEF NewIdentity, IInv, TypeOK
    <3> QED
      BY <2>1, <1>3, <3>1, <3>3, <3>4 DEF SaveIsHalf, Added, SetsKept
  <2>3. CASE Remove(c)
    <3>1. r.op = "remove" /\ store[r.fp] # NoIdentity
      BY <2>1, <2>3, ArrivedRequest DEF Remove, Answer, Goto, IInv, TypeOK, Stored
    <3>2. Dropped({r.fp})'
      BY <1>3, <2>3 DEF Remove, RemoveFromStore, ForgetSession, Dropped
    <3> QED
      BY <2>1, <1>3, <3>1, <3>2 DEF SaveIsHalf, Dropped
  <2>4. CASE RemoveAll(c)
    <3>1. r.op = "removeAll"
      BY <2>4, ArrivedRequest DEF RemoveAll
    <3>2. Dropped(Fingerprint)'
      BY <1>3, <2>4 DEF RemoveAll, RemoveFromStore, ForgetSession, Dropped
    <3> QED
      BY <2>1, <1>3, <3>1, <3>2 DEF SaveIsHalf
  <2>5. CASE Update(c)
    <3>1. r \in AllRequests /\ r.op \in {"setAutoload", "setComment"}
      BY <2>5, ArrivedRequest DEF Update
    <3>2. /\ r.fp \in Fingerprint
          /\ r.op = "setAutoload" => r.on \in BOOLEAN
          /\ r.op = "setComment" => r.comment \in Comment
      BY <3>1, RequestFields
    <3>3. /\ Stored(r.fp) /\ Updated(r) # store[r.fp]
          /\ store' = [store EXCEPT ![r.fp] = Updated(r)]
          /\ UNCHANGED <<sessionAutoload0, sessionUnloaded>>
      BY <2>1, <2>5 DEF Update, AnswerOnly, Answer, Goto, IInv, TypeOK
    <3>4. store[r.fp] \in Identity
      BY <3>2, <3>3 DEF IInv, TypeOK, Vault, Stored
    <3>5. /\ r.op = "setAutoload" =>
               store[r.fp].autoload # r.on /\ store' = [store EXCEPT ![r.fp].autoload = r.on]
          /\ r.op = "setComment" =>
               store[r.fp].comment # r.comment
               /\ store' = [store EXCEPT ![r.fp].comment = r.comment]
      <4>1. CASE r.op = "setAutoload"
        <5>1. Updated(r) = [store[r.fp] EXCEPT !.autoload = r.on]
          BY <4>1 DEF Updated
        <5>2. store[r.fp].autoload # r.on
          BY <3>2, <3>3, <3>4, <4>1, <5>1 DEF Identity
        <5> QED
          BY <3>3, <4>1, <5>1, <5>2
      <4>2. CASE r.op = "setComment"
        <5>1. Updated(r) = [store[r.fp] EXCEPT !.comment = r.comment]
          BY <4>2 DEF Updated
        <5>2. store[r.fp].comment # r.comment
          BY <3>2, <3>3, <3>4, <4>2, <5>1 DEF Identity
        <5> QED
          BY <3>3, <4>2, <5>1, <5>2
      <4> QED
        BY <3>1, <4>1, <4>2
    <3> QED
      BY <2>1, <1>3, <3>1, <3>3, <3>5 DEF SaveIsHalf, Changed, SetsKept, Stored
  <2> QED
    BY <1>5, <2>1, <2>2, <2>3, <2>4, <2>5
<1>6. ASSUME Add(c) \/ Remove(c) \/ RemoveAll(c) \/ Update(c) PROVE HalfDone(c)'
  BY <1>5, <1>6 DEF HalfDone
<1> QED
  BY <1>1, <1>2, <1>4, <1>6

(* The steps that leave memory, and who is between two halves, as they are. *)
LEMMA QuietKeeps ==
  ASSUME IInv, IInv', SInv, Settle,
         UNCHANGED <<store, sessionAutoload0, sessionUnloaded>>,
         \A d \in Client : /\ pc'[d] \in Halfway <=> pc[d] \in Halfway
                           /\ pc[d] \in Halfway => pc'[d] = pc[d] /\ call'[d] = call[d],
         \A d \in Client : RequestFits(d)'
  PROVE  SInv' /\ settled' = settled
<1>1. settled' = settled
  BY QuietStep
<1>2. SettledTypeOK' /\ SettledIsMemory'
  BY SettledTypeKept DEF IInv
<1>3. ASSUME NEW d \in Client PROVE HalfDone(d)'
  <2>1. CASE pc'[d] = "save"
    <3>1. pc[d] = "save" /\ call'[d] = call[d]
      BY <2>1 DEF Halfway, IInv, TypeOK
    <3>2. SaveIsHalf(d)
      BY <3>1 DEF SInv, HalfDone
    <3>3. SaveIsHalf(d)'
      BY <1>1, <3>1, <3>2 DEF SaveIsHalf, Added, Changed, Dropped, SetsKept
    <3> QED
      BY <2>1, <3>3 DEF HalfDone
  <2>2. CASE pc'[d] = "purgeSave"
    <3>1. pc[d] = "purgeSave"
      BY <2>2 DEF Halfway, IInv, TypeOK
    <3>2. PurgeIsHalf'
      BY <1>1, <3>1 DEF SInv, HalfDone, PurgeIsHalf, Dropped
    <3> QED
      BY <2>2, <3>2 DEF HalfDone
  <2> QED
    BY <2>1, <2>2 DEF HalfDone
<1> QED
  BY <1>1, <1>2, <1>3 DEF SInv

(* The steps that end in a state where nobody is between two halves. *)
LEMMA SettledKeeps ==
  ASSUME IInv', SInv, Settle,
         \A d \in Client : pc'[d] \notin Halfway /\ RequestFits(d)'
  PROVE  SInv' /\ settled' = Memory'
<1>1. SettledTypeOK' /\ SettledIsMemory' /\ settled' = Memory'
  BY SettledTypeKept DEF IInv, Settle
<1>2. ASSUME NEW d \in Client PROVE HalfDone(d)'
  BY DEF HalfDone, Halfway
<1> QED
  BY <1>1, <1>2 DEF SInv

(* Which of the steps of a goroutine begin and end a change. *)
ChangeBegins(c) == Add(c) \/ Remove(c) \/ RemoveAll(c) \/ Update(c) \/ PurgeExpired(c)

LEMMA QuietServe ==
  ASSUME IInv, NEW c \in Client,
         \/ Begin(c) \/ Return(c)
         \/ NothingToPurge(c)
         \/ ListSession(c) \/ ListHidden(c) \/ ListRows(c)
         \/ SignLookup(c) \/ SignDecrypt(c)
         \/ RefusedLocked(c)
         \/ Lock(c) \/ Unlock(c) \/ UnlockWithRecovery(c) \/ KeyWrite(c)
  PROVE  /\ UNCHANGED <<store, disk, sessionAutoload0, sessionUnloaded>>
         /\ \A d \in Client :
              /\ pc'[d] \in Halfway <=> pc[d] \in Halfway
              /\ pc[d] \in Halfway => pc'[d] = pc[d] /\ call'[d] = call[d]
<1> USE DEF IInv, TypeOK, Answer, Goto, Halfway, volatile
<1>1. CASE Begin(c) \/ Return(c)
  BY <1>1 DEF Begin, Return
<1>2. CASE NothingToPurge(c) \/ ListSession(c) \/ ListHidden(c) \/ ListRows(c)
  BY <1>2 DEF NothingToPurge, ListSession, ListHidden, ListRows, Arrived, AfterPurge
<1>3. CASE SignLookup(c) \/ SignDecrypt(c) \/ RefusedLocked(c)
  BY <1>3 DEF SignLookup, SignDecrypt, RefusedLocked, AnswerOnly, Arrived
<1>4. CASE Lock(c) \/ Unlock(c) \/ UnlockWithRecovery(c) \/ KeyWrite(c)
  BY <1>4 DEF Lock, Unlock, UnlockWithRecovery, KeyWrite, WipeKey, SetKey, AnswerOnly,
     Arrived
<1> QED
  BY <1>1, <1>2, <1>3, <1>4

(* A change that is refused, or already made, leaves nothing to save. *)
LEMMA ChangeRefused ==
  ASSUME IInv, NEW c \in Client, ChangeBegins(c), pc'[c] \notin Halfway
  PROVE  /\ UNCHANGED <<store, disk, sessionAutoload0, sessionUnloaded, masterKey>>
         /\ \/ Remove(c) /\ store[call[c].fp] = NoIdentity /\ Answer(c, "notFound", {})
            \/ /\ Update(c)
               /\ \/ store[call[c].fp] = NoIdentity /\ Answer(c, "notFound", {})
                  \/ /\ store[call[c].fp] # NoIdentity
                     /\ Updated(call[c]) = store[call[c].fp]
                     /\ Answer(c, "ok", {})
<1>1. CASE Add(c) \/ RemoveAll(c) \/ PurgeExpired(c)
  BY <1>1 DEF Add, RemoveAll, PurgeExpired, HoldForSave, Goto, Halfway, IInv, TypeOK
<1>2. CASE Remove(c)
  <2>1. ~Stored(call[c].fp) /\ Answer(c, "notFound", {}) /\ UNCHANGED <<disk, masterKey>>
    BY <1>2 DEF Remove, HoldForSave, Goto, Halfway, IInv, TypeOK
  <2>2. store' = store
    BY <1>2, <2>1 DEF IInv, TypeOK, Vault, Remove, RemoveFromStore, Stored
  <2>3. sessionAutoload0' = sessionAutoload0 /\ sessionUnloaded' = sessionUnloaded
    BY <1>2, <2>1 DEF IInv, SessionSetsInStore, Remove, ForgetSession, Stored
  <2> QED
    BY <1>2, <2>1, <2>2, <2>3 DEF Stored
<1>3. CASE Update(c)
  <2>1. pc'[c] # "save"
    BY DEF Halfway
  <2>2. ~HoldForSave(c)
    BY <2>1 DEF HoldForSave, Goto, IInv, TypeOK
  <2> QED
    BY <1>3, <2>2 DEF Update, AnswerOnly, Stored, volatile
<1> QED
  BY <1>1, <1>2, <1>3 DEF ChangeBegins

LEMMA NextSInv == IInv /\ IInv' /\ SInv /\ [Next /\ Settle]_svars => SInv'
<1> SUFFICES ASSUME IInv, IInv', SInv, [Next /\ Settle]_svars PROVE SInv'
  OBVIOUS
<1>1. CASE UNCHANGED svars
  <2>1. UNCHANGED <<store, sessionAutoload0, sessionUnloaded, pc, call, reply, settled>>
    BY <1>1 DEF svars, vars, volatile
  <2>2. SettledTypeOK'
    BY <2>1 DEF SInv, SettledTypeOK
  <2>3. SettledIsMemory'
    BY <2>1 DEF SInv, SettledIsMemory, Memory
  <2>4. ASSUME NEW c \in Client PROVE HalfDone(c)' /\ RequestFits(c)'
    <3>1. SaveIsHalf(c) => SaveIsHalf(c)'
      BY <2>1 DEF SaveIsHalf, Added, Changed, Dropped, SetsKept
    <3>2. PurgeIsHalf => PurgeIsHalf'
      <4> SUFFICES ASSUME PurgeIsHalf PROVE PurgeIsHalf'
        OBVIOUS
      <4>1. PICK fps \in SUBSET Fingerprint :
              /\ \A fp \in fps : settled.held[fp] # NoIdentity /\ settled.held[fp].expiresAt # 0
              /\ Dropped(fps)
        BY DEF PurgeIsHalf
      <4>2. Dropped(fps)'
        BY <2>1, <4>1 DEF Dropped
      <4> QED
        BY <2>1, <4>1, <4>2 DEF PurgeIsHalf
    <3>3. HalfDone(c) /\ RequestFits(c)
      BY DEF SInv
    <3>4. HalfDone(c)'
      BY <2>1, <3>1, <3>2, <3>3 DEF HalfDone
    <3>5. RequestFits(c)'
      BY <2>1, <3>3 DEF RequestFits
    <3> QED
      BY <3>4, <3>5
  <2> QED
    BY <2>2, <2>3, <2>4 DEF SInv
<1>2. ASSUME NEW c \in Client, Begin(c) \/ Return(c) \/ Serve(c), Settle PROVE SInv'
  <2>1. \A d \in Client : RequestFits(d)'
    BY <1>2, RequestKept
  <2>2. CASE \/ Begin(c) \/ Return(c)
             \/ NothingToPurge(c)
             \/ ListSession(c) \/ ListHidden(c) \/ ListRows(c)
             \/ SignLookup(c) \/ SignDecrypt(c)
             \/ RefusedLocked(c)
             \/ Lock(c) \/ Unlock(c) \/ UnlockWithRecovery(c) \/ KeyWrite(c)
    BY <1>2, <2>1, <2>2, QuietServe, QuietKeeps
  <2>3. \A d \in Client \ {c} : pc'[d] = pc[d]
    BY <1>2, OthersWait
  <2>4. CASE PurgeSave(c) \/ Save(c)
    <3>1. pc[c] \in Halfway /\ pc'[c] \notin Halfway
      BY <2>4 DEF PurgeSave, Save, Answer, Goto, AfterPurge, Halfway, IInv, TypeOK
    <3>2. \A d \in Client : pc'[d] \notin Halfway
      BY <2>3, <3>1, OneHalfway
    <3> QED
      BY <1>2, <2>1, <3>2, SettledKeeps
  <2>5. CASE SessionOp(c)
    <3>1. mu = NoClient /\ pc'[c] = "done"
      BY <2>5 DEF SessionOp, Arrived, Answer, Goto, IInv, TypeOK
    <3>2. \A d \in Client : pc'[d] \notin Halfway
      BY <2>3, <3>1, NobodyHalfway DEF Halfway
    <3> QED
      BY <1>2, <2>1, <3>2, SettledKeeps
  <2>6. CASE ChangeBegins(c)
    <3>1. mu = NoClient /\ call' = call
      BY <2>6 DEF ChangeBegins, Add, Remove, RemoveAll, Update, PurgeExpired, Arrived,
         HoldForSave, AnswerOnly
    <3>2. \A d \in Client \ {c} : pc'[d] \notin Halfway
      BY <2>3, <3>1, NobodyHalfway
    <3>3. CASE pc'[c] \in Halfway
      <4>1. HalfDone(c)'
        BY <1>2, <2>6, <3>1, <3>3, FirstHalf DEF ChangeBegins
      <4>2. \A d \in Client \ {c} : HalfDone(d)'
        BY <3>2 DEF HalfDone, Halfway
      <4>3. SettledTypeOK' /\ SettledIsMemory'
        BY <1>2, SettledTypeKept DEF IInv
      <4> QED
        BY <2>1, <4>1, <4>2, <4>3 DEF SInv
    <3>4. CASE pc'[c] \notin Halfway
      BY <1>2, <2>1, <3>2, <3>4, SettledKeeps
    <3> QED
      BY <3>3, <3>4
  <2> QED
    BY <1>2, <2>2, <2>4, <2>5, <2>6 DEF Serve, ChangeBegins
<1>3. CASE Tick /\ Settle
  <2>1. /\ UNCHANGED <<store, sessionAutoload0, sessionUnloaded, pc, call, reply>>
    BY <1>3 DEF Tick, volatile
  <2>2. \A d \in Client : RequestFits(d)'
    BY <2>1 DEF SInv, RequestFits
  <2> QED
    BY <1>3, <2>1, <2>2, QuietKeeps
<1>4. CASE Restart /\ Settle
  <2>1. \A d \in Client : pc'[d] = "idle" /\ call'[d] = NoRequest /\ reply'[d] = NoReply
    BY <1>4 DEF Restart
  <2>2. \A d \in Client : pc'[d] \notin Halfway /\ RequestFits(d)'
    BY <2>1 DEF Halfway, RequestFits, NoReply
  <2> QED
    BY <1>4, <2>2, SettledKeeps
<1> QED
  BY <1>1, <1>2, <1>3, <1>4 DEF Next

-----------------------------------------------------------------------------
(* RequestsAreAtomic: every step is a step of LinearVault. *)

LEMMA LinearInit == SInit => Linear!LInit
<1> SUFFICES ASSUME SInit PROVE Linear!LInit
  OBVIOUS
<1>1. disk \in Vault
  BY InitInvariant DEF SInit, IInv, TypeOK
<1>2. Linear!Init
  BY <1>1 DEF SInit, Init, Memory, Linear!Init, Linear!Holdings, Vault, Locked
<1>3. call = [c \in Client |-> NoRequest]
  BY DEF SInit, Init
<1>4. AnswerSoFar = [c \in Client |-> "pending"]
  BY DEF SInit, Init, AnswerSoFar, NoReply
<1> QED
  BY <1>2, <1>3, <1>4 DEF Linear!LInit

LEMMA AnswerMapped ==
  ASSUME IInv, NEW c \in Client, NEW s \in Status, NEW R, Answer(c, s, R), call' = call
  PROVE  Linear!Answer(c, s)
<1>1. pc' = [pc EXCEPT ![c] = "done"] /\ reply' = [reply EXCEPT ![c] = [status |-> s, rows |-> R]]
  BY DEF Answer, Goto
<1>2. AnswerSoFar' = [AnswerSoFar EXCEPT ![c] = s]
  BY <1>1 DEF IInv, TypeOK, AnswerSoFar
<1> QED
  BY <1>2 DEF Linear!Answer

LEMMA AnswerPends ==
  ASSUME IInv, SInv, NEW c \in Client, pc[c] \notin {"idle", "done", "signDecrypt"}
  PROVE  AnswerSoFar[c] = "pending" /\ call[c] # NoRequest
<1>1. call[c] \in AllRequests
  BY DEF SInv, RequestFits
<1>2. call[c] # NoRequest
  BY <1>1, RequestFields DEF NoRequest
<1> QED
  BY <1>2 DEF SInv, RequestFits, AnswerSoFar

LEMMA NoAnswerYet ==
  ASSUME IInv, NEW c \in Client, pc[c] # "signDecrypt", NEW l, l # "signDecrypt",
         pc' = [pc EXCEPT ![c] = l], reply' = reply
  PROVE  AnswerSoFar' = AnswerSoFar
BY DEF IInv, TypeOK, AnswerSoFar

(* What a request finds when a.mu is free is what is settled. *)
LEMMA FindsSettled ==
  ASSUME IInv, SInv, mu = NoClient
  PROVE  /\ settled.held = store /\ settled.shown = sessionAutoload0
         /\ settled.hidden = sessionUnloaded
BY NobodyHalfway DEF SInv, SettledIsMemory, Memory

LEMMA QuietSettled ==
  ASSUME IInv, SInv, Settle, NEW c \in Client,
         \/ Begin(c) \/ Return(c)
         \/ NothingToPurge(c)
         \/ ListSession(c) \/ ListHidden(c) \/ ListRows(c)
         \/ SignLookup(c) \/ SignDecrypt(c)
         \/ RefusedLocked(c)
         \/ Lock(c) \/ Unlock(c) \/ UnlockWithRecovery(c) \/ KeyWrite(c)
  PROVE  settled' = settled /\ disk' = disk
BY QuietServe, QuietStep

LEMMA CallReturnMapped ==
  ASSUME IInv, SInv, Settle, NEW c \in Client, Begin(c) \/ Return(c)
  PROVE  Linear!Call(c) \/ Linear!Return(c)
<1>1. settled' = settled /\ disk' = disk /\ Locked' = Locked
  BY QuietSettled DEF Begin, Return, volatile, Locked
<1>2. UNCHANGED Linear!avars
  BY <1>1 DEF Linear!avars
<1>3. CASE Begin(c)
  <2>1. call[c] = NoRequest
    BY <1>3 DEF Begin, SInv, RequestFits
  <2>2. \E r \in AllRequests : call' = [call EXCEPT ![c] = r]
    BY <1>3 DEF Begin, Requests
  <2>3. AnswerSoFar' = AnswerSoFar
    BY <1>3, NoAnswerYet DEF Begin, Goto
  <2> QED
    BY <1>2, <2>1, <2>2, <2>3 DEF Linear!Call
<1>4. CASE Return(c)
  <2>1. AnswerSoFar[c] \notin {"pending", "granted"}
    BY <1>4 DEF Return, SInv, RequestFits, AnswerSoFar, IInv, TypeOK, Status
  <2>2. AnswerSoFar' = [AnswerSoFar EXCEPT ![c] = "pending"]
    BY <1>4 DEF Return, Goto, AnswerSoFar, NoReply, IInv, TypeOK
  <2> QED
    BY <1>2, <1>4, <2>1, <2>2 DEF Linear!Return, Return
<1> QED
  BY <1>3, <1>4

LEMMA ReadMapped ==
  ASSUME IInv, SInv, Settle, NEW c \in Client,
         \/ NothingToPurge(c)
         \/ ListSession(c) \/ ListHidden(c) \/ ListRows(c)
         \/ SignLookup(c) \/ SignDecrypt(c)
         \/ RefusedLocked(c)
  PROVE  Linear!Serve(c) \/ UNCHANGED Linear!lvars
<1>1. settled' = settled /\ disk' = disk /\ Locked' = Locked /\ call' = call
  BY QuietSettled DEF NothingToPurge, ListSession, ListHidden, ListRows, SignLookup, SignDecrypt,
     RefusedLocked, AnswerOnly, volatile, Locked
<1>2. UNCHANGED Linear!avars
  BY <1>1 DEF Linear!avars
<1>3. AnswerSoFar' = AnswerSoFar => UNCHANGED Linear!lvars
  BY <1>1, <1>2 DEF Linear!lvars
<1>4. CASE NothingToPurge(c)
  <2> DEFINE l == AfterPurge(call[c].op)
  <2>1. pc' = [pc EXCEPT ![c] = l] /\ l # "signDecrypt"
    BY <1>4 DEF NothingToPurge, Goto, AfterPurge
  <2> HIDE DEF l
  <2> QED
    BY <1>3, <1>4, <2>1, NoAnswerYet DEF NothingToPurge, Arrived
<1>5. CASE ListSession(c) /\ ~Locked
  BY <1>3, <1>5, NoAnswerYet DEF ListSession, Goto
<1>6. CASE ListHidden(c)
  BY <1>3, <1>6, NoAnswerYet DEF ListHidden, Goto
<1>7. CASE (ListSession(c) /\ Locked) \/ ListRows(c)
  <2>1. pc[c] \in {"listSession", "listRows"} /\ \E R : Answer(c, "ok", R)
    BY <1>7 DEF ListSession, ListRows
  <2>2. call[c].op = "list"
    BY <2>1 DEF IInv, CallMatchesLabel
  <2>3. Linear!Pending(c, {"list"})
    BY <2>1, <2>2, AnswerPends DEF Linear!Pending
  <2>4. Linear!Tell(c, "ok")
    BY <1>1, <1>2, <2>1, AnswerMapped DEF Linear!Tell, Status
  <2> QED
    BY <2>3, <2>4 DEF Linear!Serve, Linear!Ask
<1>8. CASE SignLookup(c)
  <2> DEFINE fp == call[c].fp
  <2>1. /\ pc[c] = "signLookup" /\ mu = NoClient /\ call[c].op = "sign"
    BY <1>8 DEF SignLookup, IInv, CallMatchesLabel
  <2>2. Linear!Pending(c, {"sign"})
    BY <2>1, AnswerPends DEF Linear!Pending
  <2>3. settled.held = store /\ settled.shown = sessionAutoload0
    BY <2>1, FindsSettled
  <2>4. Linear!SignStatus(fp) =
          IF LookupStatus(fp) = "ok" THEN "granted" ELSE LookupStatus(fp)
    BY <2>3 DEF Linear!SignStatus, Linear!Holds, LookupStatus, Stored
  <2>5. CASE LookupStatus(fp) = "ok"
    <3>1. AnswerSoFar' = [AnswerSoFar EXCEPT ![c] = "granted"]
      BY <1>8, <2>1, <2>5 DEF SignLookup, Goto, AnswerSoFar, IInv, TypeOK
    <3> QED
      BY <1>1, <1>2, <2>2, <2>4, <2>5, <3>1 DEF Linear!Serve, Linear!Ask, Linear!Tell, Linear!Answer
  <2>6. CASE LookupStatus(fp) # "ok"
    <3>1. LookupStatus(fp) \in Status
      BY DEF LookupStatus, Status
    <3>2. Linear!Answer(c, LookupStatus(fp))
      BY <1>1, <1>8, <2>6, <3>1, AnswerMapped DEF SignLookup
    <3> QED
      BY <1>2, <2>2, <2>4, <2>6, <3>2 DEF Linear!Serve, Linear!Ask, Linear!Tell
  <2> QED
    BY <2>5, <2>6
<1>9. CASE SignDecrypt(c)
  <2>1. AnswerSoFar[c] = "granted"
    BY <1>9 DEF SignDecrypt, AnswerSoFar
  <2>2. PICK s \in {"ok", "internal"} : Answer(c, s, {})
    BY <1>9 DEF SignDecrypt
  <2>3. Linear!Tell(c, s)
    BY <1>1, <1>2, <2>2, AnswerMapped DEF Linear!Tell, Status
  <2> QED
    BY <2>1, <2>3 DEF Linear!Serve, Linear!SignEnds, Linear!SaveStatus
<1>10. CASE RefusedLocked(c)
  <2>1. pc[c] = "called" /\ call[c].op \in NeedsUnlocked /\ Locked
    BY <1>10 DEF RefusedLocked, Arrived
  <2>2. Linear!Pending(c, Linear!NeedsUnlocked)
    BY <2>1, AnswerPends DEF Linear!Pending, Linear!NeedsUnlocked, NeedsUnlocked
  <2>3. Linear!Tell(c, "locked")
    BY <1>1, <1>2, <1>10, AnswerMapped DEF Linear!Tell, Status, RefusedLocked, AnswerOnly
  <2> QED
    BY <2>1, <2>2, <2>3 DEF Linear!Serve, Linear!Refuse
<1> QED
  BY <1>4, <1>5, <1>6, <1>7, <1>8, <1>9, <1>10

LEMMA LockMapped ==
  ASSUME IInv, SInv, Settle, NEW c \in Client,
         Lock(c) \/ Unlock(c) \/ UnlockWithRecovery(c) \/ KeyWrite(c)
  PROVE  Linear!Serve(c) \/ UNCHANGED Linear!lvars
<1>1. settled' = settled /\ disk' = disk
  BY QuietSettled
<1>2. call' = call /\ pc[c] \in {"called", "keyWrite"}
  BY DEF Lock, Unlock, UnlockWithRecovery, KeyWrite, WipeKey, SetKey, AnswerOnly, Arrived
<1>3. AnswerSoFar[c] = "pending" /\ call[c] # NoRequest
  BY <1>2, AnswerPends
<1>4. ASSUME WipeKey(c), pc[c] = "called", ~Locked PROVE UNCHANGED Linear!lvars
  <2>1. Locked' = Locked
    BY <1>4 DEF WipeKey, Locked
  <2>2. AnswerSoFar' = AnswerSoFar
    BY <1>4, NoAnswerYet DEF WipeKey, Goto
  <2> QED
    BY <1>1, <1>2, <2>1, <2>2 DEF Linear!lvars, Linear!avars
<1>5. ASSUME SetKey(c) PROVE Linear!Unlock /\ Linear!Answer(c, "ok")
  <2>1. Locked' = FALSE
    BY <1>5 DEF SetKey, Locked
  <2>2. Linear!Answer(c, "ok")
    BY <1>2, <1>5, AnswerMapped DEF SetKey, Status
  <2> QED
    BY <1>1, <2>1, <2>2 DEF Linear!Unlock
<1>6. ASSUME NEW s \in Status, AnswerOnly(c, s) PROVE Linear!Tell(c, s)
  <2>1. Locked' = Locked
    BY <1>6 DEF AnswerOnly, volatile, Locked
  <2>2. Linear!Answer(c, s)
    BY <1>2, <1>6, AnswerMapped DEF AnswerOnly
  <2> QED
    BY <1>1, <2>1, <2>2 DEF Linear!Tell, Linear!avars
<1>7. {"notLocked", "wrongPassphrase", "noRecovery"} \subseteq Status
  BY DEF Status
<1>8. CASE Lock(c)
  BY <1>4, <1>8 DEF Lock, Arrived
<1>9. CASE Unlock(c)
  <2>1. Linear!Pending(c, {"unlock"})
    BY <1>3, <1>9 DEF Unlock, Arrived, Linear!Pending
  <2> QED
    BY <1>5, <1>6, <1>7, <1>9, <2>1 DEF Unlock, Linear!Serve, Linear!LockOrUnlock
<1>10. CASE UnlockWithRecovery(c)
  <2>1. Linear!Pending(c, {"unlockRecovery"}) /\ pc[c] = "called"
    BY <1>3, <1>10 DEF UnlockWithRecovery, Arrived, Linear!Pending
  <2> QED
    BY <1>4, <1>5, <1>6, <1>7, <1>10, <2>1
       DEF UnlockWithRecovery, Linear!Serve, Linear!LockOrUnlock
<1>11. CASE KeyWrite(c)
  <2>1. /\ call[c].op \in {"lock", "unlockRecovery"} /\ ~Locked
    BY <1>11 DEF KeyWrite, IInv, CallMatchesLabel, KeyMatchesHolder, Locked
  <2>2. Linear!Answer(c, "ok")
    BY <1>2, <1>11, AnswerMapped DEF KeyWrite, Status
  <2>3. CASE call[c].op = "lock"
    <3>1. Locked' = TRUE
      BY <1>11, <2>3 DEF KeyWrite, Locked
    <3>2. Linear!Lock
      BY <1>1, <2>1, <3>1 DEF Linear!Lock
    <3> QED
      BY <1>3, <2>2, <2>3, <3>2 DEF Linear!Serve, Linear!LockOrUnlock, Linear!Pending
  <2>4. CASE call[c].op = "unlockRecovery"
    <3>1. Locked' = FALSE
      BY <1>11, <2>4 DEF KeyWrite, Locked
    <3>2. Linear!Unlock
      BY <1>1, <3>1 DEF Linear!Unlock
    <3>3. HasRecovery
      BY <1>11, <2>4 DEF KeyWrite, SInv, RequestFits
    <3> QED
      BY <1>3, <2>2, <2>4, <3>2, <3>3 DEF Linear!Serve, Linear!LockOrUnlock, Linear!Pending
  <2> QED
    BY <2>1, <2>3, <2>4
<1> QED
  BY <1>8, <1>9, <1>10, <1>11

LEMMA SessionOpMapped ==
  ASSUME IInv, SInv, IInv', SInv', Settle, NEW c \in Client, SessionOp(c)
  PROVE  Linear!Serve(c)
<1> DEFINE fp == call[c].fp
<1>1. /\ call[c] \in AllRequests /\ call[c].op \in {"sessionLoad", "sessionUnload"}
      /\ pc[c] = "called" /\ mu = NoClient /\ ~Locked /\ Locked' = Locked
      /\ UNCHANGED <<store, disk, call, mu>>
  BY ArrivedRequest DEF SessionOp, Locked
<1>2. /\ settled.held = store /\ settled.shown = sessionAutoload0
      /\ settled.hidden = sessionUnloaded
      /\ settled'.held = store' /\ settled'.shown = sessionAutoload0'
      /\ settled'.hidden = sessionUnloaded'
  <2>1. mu' = NoClient
    BY <1>1
  <2>2. \A d \in Client : pc'[d] \notin Halfway
    BY <2>1, ClientAssumption DEF IInv, HolderHoldsMu, Holding, Halfway
  <2> QED
    BY <1>1, <2>2, FindsSettled DEF SInv, SettledIsMemory, Memory
<1>3. AnswerSoFar[c] = "pending" /\ call[c] # NoRequest
  BY <1>1, AnswerPends
<1>4. CASE ~Stored(fp)
  <2>1. Answer(c, "notFound", {}) /\ UNCHANGED <<sessionAutoload0, sessionUnloaded>>
    BY <1>4 DEF SessionOp
  <2>2. settled' = settled
    BY <1>1, <2>1, QuietStep DEF Answer, Goto, Halfway, IInv, TypeOK
  <2>3. Linear!Tell(c, "notFound")
    BY <1>1, <2>1, <2>2, AnswerMapped DEF Linear!Tell, Linear!avars, Status
  <2> QED
    BY <1>1, <1>2, <1>3, <1>4, <2>3
       DEF Linear!Serve, Linear!Refuse, Linear!Pending, Linear!Holds, Stored
<1>5. CASE Stored(fp)
  <2>1. Answer(c, "ok", {})
    BY <1>1, <1>5 DEF SessionOp
  <2>2. Linear!Answer(c, "ok")
    BY <1>1, <2>1, AnswerMapped DEF Status
  <2>3. Linear!Holds(fp)
    BY <1>2, <1>5 DEF Linear!Holds, Stored
  <2>4. CASE call[c].op = "sessionLoad"
    <3>1. Linear!SessionLoad(fp)
      BY <1>1, <1>2, <1>5, <2>3, <2>4 DEF SessionOp, Linear!SessionLoad
    <3> QED
      BY <1>3, <2>2, <2>4, <3>1 DEF Linear!Serve, Linear!Session, Linear!Pending
  <2>5. CASE call[c].op = "sessionUnload"
    <3>1. Linear!SessionUnload(fp)
      BY <1>1, <1>2, <1>5, <2>3, <2>5 DEF SessionOp, Linear!SessionUnload
    <3> QED
      BY <1>3, <2>2, <2>5, <3>1 DEF Linear!Serve, Linear!Session, Linear!Pending
  <2> QED
    BY <1>1, <2>4, <2>5
<1> QED
  BY <1>4, <1>5

(* The first half of a change is not seen; what is refused is answered at once. *)
LEMMA ChangeBeginsMapped ==
  ASSUME IInv, SInv, Settle, NEW c \in Client, ChangeBegins(c)
  PROVE  Linear!Serve(c) \/ UNCHANGED Linear!lvars
<1>1. /\ pc[c] = "called" /\ mu = NoClient /\ ~Locked /\ call' = call
  BY DEF ChangeBegins, Add, Remove, RemoveAll, Update, PurgeExpired, Arrived, HoldForSave,
     AnswerOnly
<1>2. AnswerSoFar[c] = "pending" /\ call[c] # NoRequest
  BY <1>1, AnswerPends
<1>3. CASE pc'[c] \in Halfway
  <2>1. settled' = settled
    BY <1>1, <1>3, FirstHalf DEF ChangeBegins
  <2>2. PICK l \in {"save", "purgeSave"} :
          pc' = [pc EXCEPT ![c] = l] /\ UNCHANGED <<disk, masterKey, reply>>
    <3>1. CASE Add(c) \/ RemoveAll(c) \/ PurgeExpired(c)
      BY <3>1 DEF Add, RemoveAll, PurgeExpired, HoldForSave, Goto
    <3>2. CASE Remove(c) \/ Update(c)
      BY <1>3, <3>2 DEF Remove, Update, HoldForSave, Answer, AnswerOnly, Goto, Halfway, IInv, TypeOK
    <3> QED
      BY <3>1, <3>2 DEF ChangeBegins
  <2>3. AnswerSoFar' = AnswerSoFar
    BY <1>1, <2>2, NoAnswerYet
  <2> QED
    BY <1>1, <2>1, <2>2, <2>3 DEF Linear!lvars, Linear!avars, Locked
<1>4. CASE pc'[c] \notin Halfway
  <2> DEFINE r == call[c]
  <2>1. /\ UNCHANGED <<store, disk, sessionAutoload0, sessionUnloaded, masterKey>>
        /\ \/ Remove(c) /\ store[r.fp] = NoIdentity /\ Answer(c, "notFound", {})
           \/ /\ Update(c)
              /\ \/ store[r.fp] = NoIdentity /\ Answer(c, "notFound", {})
                 \/ /\ store[r.fp] # NoIdentity
                    /\ Updated(r) = store[r.fp]
                    /\ Answer(c, "ok", {})
    BY <1>4, ChangeRefused
  <2>2. \A d \in Client : pc'[d] \in Halfway <=> pc[d] \in Halfway
    BY <1>1, <2>1 DEF Answer, Goto, Halfway, IInv, TypeOK
  <2>3. settled' = settled
    BY <2>1, <2>2, QuietStep
  <2>4. settled.held = store
    BY <1>1, FindsSettled
  <2>5. ASSUME NEW s \in {"ok", "notFound"}, Answer(c, s, {}) PROVE Linear!Tell(c, s)
    <3>1. Linear!Answer(c, s)
      BY <1>1, <2>5, AnswerMapped DEF Status
    <3> QED
      BY <2>1, <2>3, <3>1 DEF Linear!Tell, Linear!avars, Locked
  <2>6. r \in AllRequests /\ r.op \in {"remove", "setAutoload", "setComment"}
    BY <2>1, ArrivedRequest DEF Remove, Update
  <2>7. CASE store[r.fp] = NoIdentity
    <3>1. Linear!Tell(c, "notFound")
      BY <2>1, <2>5, <2>7
    <3> QED
      BY <1>1, <1>2, <2>4, <2>6, <2>7, <3>1
         DEF Linear!Serve, Linear!Refuse, Linear!Pending, Linear!Holds
  <2>8. CASE store[r.fp] # NoIdentity
    <3>1. /\ Linear!Tell(c, "ok") /\ Updated(r) = store[r.fp]
          /\ r.op \in {"setAutoload", "setComment"}
      BY <2>1, <2>5, <2>8, ArrivedRequest DEF Update
    <3>2. r.op = "setAutoload" => store[r.fp].autoload = r.on
      <4>1. r.fp \in Fingerprint
        BY <2>6, RequestFields
      <4>2. store[r.fp] \in Identity
        BY <2>8, <4>1 DEF IInv, TypeOK, Vault
      <4> QED
        BY <3>1, <4>2 DEF Updated, Identity
    <3>3. r.op = "setComment" => store[r.fp].comment = r.comment
      <4>1. r.fp \in Fingerprint
        BY <2>6, RequestFields
      <4>2. store[r.fp] \in Identity
        BY <2>8, <4>1 DEF IInv, TypeOK, Vault
      <4> QED
        BY <3>1, <4>2 DEF Updated, Identity
    <3>4. Linear!Already(c)
      BY <1>1, <1>2, <2>4, <2>8, <3>1, <3>2, <3>3
         DEF Linear!Already, Linear!Pending, Linear!Holds
    <3> QED
      BY <3>4 DEF Linear!Serve
  <2> QED
    BY <2>7, <2>8
<1> QED
  BY <1>3, <1>4

(* The second half of a change: a.mu is given up, and the change is there. *)
LEMMA SecondHalf ==
  ASSUME IInv, IInv', SInv, SInv', Settle, NEW c \in Client, Save(c) \/ PurgeSave(c)
  PROVE  /\ settled' = Memory' /\ ~Locked /\ Locked' = Locked
         /\ store' = store /\ store \in Vault /\ call' = call
         /\ AnswerSoFar[c] = "pending" /\ call[c] # NoRequest
<1>1. /\ pc[c] \in {"save", "purgeSave"} /\ mu' = NoClient /\ store' = store /\ call' = call
      /\ masterKey' = masterKey
  BY DEF Save, PurgeSave, volatile
<1>2. \A d \in Client : pc'[d] \notin Halfway
  BY <1>1, ClientAssumption DEF IInv, HolderHoldsMu, Holding, Halfway
<1>3. masterKey = "intact" /\ store \in Vault
  BY <1>1 DEF IInv, KeyMatchesHolder, TypeOK
<1> QED
  BY <1>1, <1>2, <1>3, AnswerPends DEF Settle, Locked

LEMMA SavedAsMapped ==
  ASSUME NEW r \in SaveOutcome, SaveEffect(r), store' = store, settled'.held = store
  PROVE  Linear!SavedAs(IF r = "saved" THEN "ok" ELSE "internal")
BY DEF SaveOutcome, SaveEffect, Linear!SavedAs

LEMMA PurgeSaveMapped ==
  ASSUME IInv, IInv', SInv, SInv', Settle, NEW c \in Client, PurgeSave(c)
  PROVE  Linear!Serve(c)
<1>1. /\ settled' = Memory' /\ ~Locked /\ Locked' = Locked
      /\ store' = store /\ store \in Vault /\ call' = call
      /\ AnswerSoFar[c] = "pending" /\ call[c] # NoRequest
  BY SecondHalf
<1>2. /\ pc[c] = "purgeSave" /\ UNCHANGED <<sessionAutoload0, sessionUnloaded>>
      /\ call[c].op \in {"list", "sign"}
  BY DEF PurgeSave, volatile, IInv, CallMatchesLabel
<1>3. /\ settled'.held = store /\ settled'.shown = sessionAutoload0
      /\ settled'.hidden = sessionUnloaded
  BY <1>1, <1>2 DEF Memory
<1>4. PICK fps \in SUBSET Fingerprint :
        /\ \A fp \in fps : settled.held[fp] # NoIdentity /\ settled.held[fp].expiresAt # 0
        /\ Dropped(fps)
  BY <1>2 DEF SInv, HalfDone, PurgeIsHalf
<1>5. PICK r \in SaveOutcome : /\ SaveEffect(r)
                               /\ IF r = "saved"
                                  THEN Goto(c, AfterPurge(call[c].op)) /\ UNCHANGED reply
                                  ELSE Answer(c, "internal", {})
  BY DEF PurgeSave
<1> DEFINE status == IF r = "saved" THEN "ok" ELSE "internal"
<1>6. Linear!SavedAs(status)
  BY <1>1, <1>3, <1>5, SavedAsMapped
<1>7. \A fp \in fps : settled.held[fp] \in {id \in Identity : id.expiresAt # 0}
  BY <1>4 DEF SInv, SettledTypeOK, Vault
<1>8. Linear!Expire(fps, status)
  BY <1>1, <1>3, <1>4, <1>6, <1>7
     DEF Linear!Expire, Linear!Drop, Linear!OnlyAt, Linear!Holdings, Dropped, Vault
<1>9. Linear!Pending(c, {"list", "sign"})
  BY <1>1, <1>2 DEF Linear!Pending
<1>10. CASE r = "saved"
  <2> DEFINE l == AfterPurge(call[c].op)
  <2>1. pc' = [pc EXCEPT ![c] = l] /\ l # "signDecrypt" /\ reply' = reply
    BY <1>5, <1>10 DEF Goto, AfterPurge
  <2> HIDE DEF l
  <2>2. AnswerSoFar' = AnswerSoFar
    BY <1>2, <2>1, NoAnswerYet
  <2> QED
    BY <1>1, <1>8, <1>9, <1>10, <2>2 DEF Linear!Serve, Linear!Purge
<1>11. CASE r # "saved"
  <2>1. Linear!Answer(c, "internal")
    BY <1>1, <1>5, <1>11, AnswerMapped DEF Status
  <2> QED
    BY <1>8, <1>9, <1>11, <2>1 DEF Linear!Serve, Linear!Purge
<1> QED
  BY <1>10, <1>11

LEMMA SaveMapped ==
  ASSUME IInv, IInv', SInv, SInv', Settle, NEW c \in Client, Save(c)
  PROVE  Linear!Serve(c)
<1> DEFINE q == call[c]
<1>1. /\ settled' = Memory' /\ ~Locked /\ Locked' = Locked
      /\ store' = store /\ store \in Vault /\ call' = call
      /\ AnswerSoFar[c] = "pending" /\ call[c] # NoRequest
  BY SecondHalf
<1>2. /\ settled'.held = store /\ settled'.shown = sessionAutoload0'
      /\ settled'.hidden = sessionUnloaded'
  BY <1>1 DEF Memory
<1>3. /\ pc[c] = "save" /\ q \in AllRequests
      /\ q.op \in {"add", "remove", "removeAll", "setAutoload", "setComment"}
      /\ SaveIsHalf(c)
  BY DEF Save, IInv, CallMatchesLabel, SInv, HalfDone
<1>4. PICK r \in SaveOutcome :
        /\ SaveEffect(r)
        /\ IF r = "saved"
           THEN CommitSession(q) /\ Promise(q) /\ Answer(c, "ok", {})
           ELSE /\ Answer(c, "internal", {})
                /\ UNCHANGED <<sessionAutoload0, sessionUnloaded, acked>>
  BY DEF Save
<1>5. PICK status \in {"ok", "internal"} : status = IF r = "saved" THEN "ok" ELSE "internal"
  OBVIOUS
<1>6. Linear!SavedAs(status) /\ status \in Linear!SaveStatus
  BY <1>1, <1>2, <1>4, <1>5, SavedAsMapped DEF Linear!SaveStatus
<1>7. Linear!Answer(c, status)
  BY <1>1, <1>4, <1>5, AnswerMapped DEF Status
<1>8. /\ status = "ok" => CommitSession(q)
      /\ status # "ok" => UNCHANGED <<sessionAutoload0, sessionUnloaded>>
  BY <1>4, <1>5
<1>9. Linear!Pending(c, {q.op})
  BY <1>1 DEF Linear!Pending
<1>10. q.op # "removeAll" => q.fp \in Fingerprint
  BY <1>3, RequestFields
<1>11. Linear!Change(c, status)
  <2>1. CASE q.op = "add"
    <3>1. Added(q)
      BY <1>3, <2>1 DEF SaveIsHalf
    <3>2. Stored(q.fp) /\ store[q.fp] \in Identity
      BY <1>1, <1>3, <1>10, <2>1 DEF IInv, SaveAgreesWithStore, Vault, Stored
    <3>3. settled'.shown = IF status = "ok" /\ ~store[q.fp].autoload
                           THEN settled.shown \cup {q.fp} ELSE settled.shown
      BY <1>2, <1>8, <2>1, <3>1 DEF CommitSession, Added, SetsKept
    <3>4. settled'.hidden = settled.hidden
      BY <1>2, <1>8, <2>1, <3>1 DEF CommitSession, Added, SetsKept
    <3>5. Linear!Add(q.fp, status)
      BY <1>1, <1>2, <1>6, <3>1, <3>2, <3>3, <3>4
         DEF Linear!Add, Linear!OnlyAt, Linear!Holdings, Added, Stored, Vault
    <3>6. Linear!MadeFrom(q)
      BY <1>2, <3>1, <3>2 DEF Linear!MadeFrom, Added
    <3> QED
      BY <1>7, <1>9, <2>1, <3>5, <3>6 DEF Linear!Change
  <2>2. CASE q.op = "remove"
    <3>1. settled.held[q.fp] # NoIdentity /\ Dropped({q.fp})
      BY <1>3, <2>2 DEF SaveIsHalf
    <3>2. UNCHANGED <<sessionAutoload0, sessionUnloaded>>
      BY <1>8, <2>2 DEF CommitSession
    <3>3. Linear!Remove(q.fp, status)
      BY <1>1, <1>2, <1>6, <1>10, <2>2, <3>1, <3>2
         DEF Linear!Remove, Linear!Drop, Linear!OnlyAt, Linear!Holdings, Linear!Holds, Dropped,
             Vault
    <3> QED
      BY <1>7, <1>9, <2>2, <3>3 DEF Linear!Change
  <2>3. CASE q.op = "removeAll"
    <3>1. Dropped(Fingerprint)
      BY <1>3, <2>3 DEF SaveIsHalf
    <3>2. UNCHANGED <<sessionAutoload0, sessionUnloaded>>
      BY <1>8, <2>3 DEF CommitSession
    <3>3. Linear!RemoveAll(status)
      BY <1>1, <1>2, <1>6, <3>1, <3>2
         DEF Linear!RemoveAll, Linear!Drop, Linear!OnlyAt, Linear!Holdings, Dropped, Vault
    <3> QED
      BY <1>7, <1>9, <2>3, <3>3 DEF Linear!Change
  <2>4. CASE q.op = "setAutoload"
    <3>1. /\ settled.held[q.fp] # NoIdentity /\ settled.held[q.fp].autoload # q.on
          /\ store = [settled.held EXCEPT ![q.fp].autoload = q.on] /\ SetsKept
      BY <1>3, <2>4 DEF SaveIsHalf, Changed
    <3>2. /\ settled'.shown = IF status = "ok" /\ q.on THEN settled.shown \ {q.fp}
                                                       ELSE settled.shown
          /\ settled'.hidden = IF status = "ok" THEN settled.hidden \ {q.fp} ELSE settled.hidden
      BY <1>2, <1>8, <2>4, <3>1 DEF CommitSession, SetsKept
    <3>3. Linear!SetAutoload(q.fp, q.on, status)
      BY <1>1, <1>2, <1>6, <3>1, <3>2 DEF Linear!SetAutoload, Linear!Holds
    <3> QED
      BY <1>7, <1>9, <2>4, <3>3 DEF Linear!Change
  <2>5. CASE q.op = "setComment"
    <3>1. /\ settled.held[q.fp] # NoIdentity /\ settled.held[q.fp].comment # q.comment
          /\ store = [settled.held EXCEPT ![q.fp].comment = q.comment] /\ SetsKept
      BY <1>3, <2>5 DEF SaveIsHalf, Changed
    <3>2. settled'.shown = settled.shown /\ settled'.hidden = settled.hidden
      BY <1>2, <1>8, <2>5, <3>1 DEF CommitSession, SetsKept
    <3>3. Linear!SetComment(q.fp, q.comment, status)
      BY <1>1, <1>2, <1>6, <3>1, <3>2 DEF Linear!SetComment, Linear!Holds
    <3> QED
      BY <1>7, <1>9, <2>5, <3>3 DEF Linear!Change
  <2> QED
    BY <1>3, <2>1, <2>2, <2>3, <2>4, <2>5
<1> QED
  BY <1>6, <1>11 DEF Linear!Serve

LEMMA NextMapped ==
  IInv /\ IInv' /\ SInv /\ SInv' /\ [Next /\ Settle]_svars => [Linear!LNext]_(Linear!lvars)
<1> SUFFICES ASSUME IInv, IInv', SInv, SInv', [Next /\ Settle]_svars
             PROVE  Linear!LNext \/ UNCHANGED Linear!lvars
  OBVIOUS
<1>1. CASE UNCHANGED svars
  <2>1. UNCHANGED <<disk, masterKey, pc, call, reply, settled>>
    BY <1>1 DEF svars, vars, volatile
  <2>2. AnswerSoFar' = AnswerSoFar
    BY <2>1 DEF AnswerSoFar
  <2> QED
    BY <2>1, <2>2 DEF Linear!lvars, Linear!avars, Locked
<1>2. ASSUME NEW c \in Client, Begin(c) \/ Return(c) \/ Serve(c), Settle
      PROVE  Linear!Call(c) \/ Linear!Return(c) \/ Linear!Serve(c) \/ UNCHANGED Linear!lvars
  <2>1. CASE Begin(c) \/ Return(c)
    BY <1>2, <2>1, CallReturnMapped
  <2>2. CASE \/ NothingToPurge(c)
             \/ ListSession(c) \/ ListHidden(c) \/ ListRows(c)
             \/ SignLookup(c) \/ SignDecrypt(c)
             \/ RefusedLocked(c)
    BY <1>2, <2>2, ReadMapped
  <2>3. CASE Lock(c) \/ Unlock(c) \/ UnlockWithRecovery(c) \/ KeyWrite(c)
    BY <1>2, <2>3, LockMapped
  <2>4. CASE SessionOp(c)
    BY <1>2, <2>4, SessionOpMapped
  <2>5. CASE ChangeBegins(c)
    BY <1>2, <2>5, ChangeBeginsMapped
  <2>6. CASE Save(c) \/ PurgeSave(c)
    BY <1>2, <2>6, SaveMapped, PurgeSaveMapped
  <2> QED
    BY <1>2, <2>1, <2>2, <2>3, <2>4, <2>5, <2>6 DEF Serve, ChangeBegins
<1>3. CASE Tick /\ Settle
  <2>1. /\ UNCHANGED <<store, disk, masterKey, sessionAutoload0, sessionUnloaded, pc, call, reply>>
    BY <1>3 DEF Tick, volatile
  <2>2. settled' = settled
    BY <1>3, <2>1, QuietStep
  <2>3. AnswerSoFar' = AnswerSoFar
    BY <2>1 DEF AnswerSoFar
  <2> QED
    BY <2>1, <2>2, <2>3 DEF Linear!lvars, Linear!avars, Locked
<1>4. CASE Restart /\ Settle
  <2>1. settled' = Memory'
    BY <1>4 DEF Restart, Settle, Halfway
  <2>2. Linear!Restart
    BY <1>4, <2>1 DEF Restart, Memory, Linear!Restart, Locked
  <2>3. AnswerSoFar' = [c \in Client |-> "pending"] /\ call' = [c \in Client |-> NoRequest]
    BY <1>4 DEF Restart, AnswerSoFar, NoReply
  <2> QED
    BY <2>2, <2>3 DEF Linear!LNext, Linear!Crash
<1> QED
  BY <1>1, <1>2, <1>3, <1>4 DEF Next, Linear!LNext

LEMMA SettledInvariance == SSpec => [](IInv /\ SInv)
<1>1. SInit => IInv /\ SInv
  BY InitInvariant, InitSInv DEF SInit
<1>2. IInv /\ SInv /\ [Next /\ Settle]_svars => IInv' /\ SInv'
  <2>1. [Next /\ Settle]_svars => [Next]_vars
    BY DEF svars
  <2> QED
    BY <2>1, NextInvariant, NextSInv
<1> QED
  BY <1>1, <1>2, PTL DEF SSpec

(* Every request to the vault agent but List is atomic: it takes effect, with its answer,
   at one moment between its arrival and its answer, whatever else goes on, whatever saves
   fail and wherever the daemon stops (the critical sections of vault/agent.go). *)
THEOREM Atomicity == SSpec => RequestsAreAtomic
<1>1. IInv /\ IInv' /\ SInv /\ SInv' /\ [Next /\ Settle]_svars => [Linear!LNext]_(Linear!lvars)
  BY NextMapped
<1>2. SInit => Linear!LInit
  BY LinearInit
<1> QED
  BY <1>1, <1>2, SettledInvariance, PTL DEF SSpec, RequestsAreAtomic, Linear!LSpec

(* Without the clients, what LinearVault does to the vault is what AtomicVault does. *)
LEMMA LinearIsAtomic == IInv /\ [Linear!LNext]_(Linear!lvars) => [Linear!Next]_(Linear!avars)
<1> SUFFICES ASSUME IInv, [Linear!LNext]_(Linear!lvars)
             PROVE  Linear!Next \/ UNCHANGED Linear!avars
  OBVIOUS
<1>1. CASE UNCHANGED Linear!lvars \/ Linear!Crash
  BY <1>1 DEF Linear!lvars, Linear!Crash, Linear!Next
<1>2. ASSUME NEW c \in Client, Linear!Call(c) \/ Linear!Return(c)
      PROVE  UNCHANGED Linear!avars
  BY <1>2 DEF Linear!Call, Linear!Return
<1>3. ASSUME NEW c \in Client, Linear!Serve(c)
      PROVE  Linear!Next \/ UNCHANGED Linear!avars
  <2> DEFINE r == call[c]
  <2>1. r # NoRequest => r \in AllRequests
    BY DEF IInv, TypeOK
  <2>2. CASE Linear!Refuse(c) \/ Linear!Already(c) \/ Linear!Ask(c) \/ Linear!SignEnds(c)
    BY <2>2 DEF Linear!Refuse, Linear!Already, Linear!Ask, Linear!SignEnds, Linear!Tell
  <2>3. CASE Linear!LockOrUnlock(c)
    BY <2>3 DEF Linear!LockOrUnlock, Linear!Tell, Linear!Next
  <2>4. CASE Linear!Session(c)
    <3>1. r \in AllRequests /\ r.op \in {"sessionLoad", "sessionUnload"}
          /\ (Linear!SessionLoad(r.fp) \/ Linear!SessionUnload(r.fp))
      BY <2>1, <2>4 DEF Linear!Session, Linear!Pending
    <3>2. r.fp \in Fingerprint
      BY <3>1, RequestFields
    <3> QED
      BY <3>1, <3>2 DEF Linear!Next
  <2>5. CASE Linear!Purge(c)
    BY <2>5 DEF Linear!Purge, Linear!Next, Linear!SaveStatus
  <2>6. ASSUME NEW status \in Linear!SaveStatus, Linear!Change(c, status)
        PROVE  Linear!Next
    <3>1. r \in AllRequests
      BY <2>1, <2>6 DEF Linear!Change, Linear!Pending
    <3>2. CASE r.op = "removeAll"
      <4>1. Linear!RemoveAll(status)
        BY <2>6, <3>2 DEF Linear!Change, Linear!Pending
      <4> QED
        BY <4>1 DEF Linear!Next
    <3>3. CASE r.op \in {"add", "remove"}
      <4>1. r.fp \in Fingerprint
        BY <3>1, <3>3, RequestFields
      <4>2. Linear!Add(r.fp, status) \/ Linear!Remove(r.fp, status)
        BY <2>6, <3>3 DEF Linear!Change, Linear!Pending
      <4> QED
        BY <4>1, <4>2 DEF Linear!Next
    <3>4. CASE r.op = "setAutoload"
      <4>1. r.fp \in Fingerprint /\ r.on \in BOOLEAN
        BY <3>1, <3>4, RequestFields
      <4>2. Linear!SetAutoload(r.fp, r.on, status)
        BY <2>6, <3>4 DEF Linear!Change, Linear!Pending
      <4> QED
        BY <4>1, <4>2 DEF Linear!Next
    <3>5. CASE r.op = "setComment"
      <4>1. r.fp \in Fingerprint /\ r.comment \in Comment
        BY <3>1, <3>5, RequestFields
      <4>2. Linear!SetComment(r.fp, r.comment, status)
        BY <2>6, <3>5 DEF Linear!Change, Linear!Pending
      <4> QED
        BY <4>1, <4>2 DEF Linear!Next
    <3>6. r.op \in {"add", "remove", "removeAll", "setAutoload", "setComment"}
      BY <2>6 DEF Linear!Change, Linear!Pending
    <3> QED
      BY <3>2, <3>3, <3>4, <3>5, <3>6
  <2> QED
    BY <1>3, <2>2, <2>3, <2>4, <2>5, <2>6 DEF Linear!Serve
<1> QED
  BY <1>1, <1>2, <1>3 DEF Linear!LNext

(* With the requests left out, memory, file, lock and session sets change as if each
   operation of vault/agent.go were one step: the vault that commands.go reckons with. *)
THEOREM VaultIsAtomic == SSpec => Linear!Spec
<1>1. IInv /\ IInv' /\ SInv /\ SInv' /\ [Next /\ Settle]_svars => [Linear!Next]_(Linear!avars)
  BY NextMapped, LinearIsAtomic
<1>2. SInit => Linear!Init
  BY LinearInit DEF Linear!LInit
<1> QED
  BY <1>1, <1>2, SettledInvariance, PTL DEF SSpec, Linear!Spec
=============================================================================

------------------------------ MODULE AtomicVault ------------------------------
(***************************************************************************)
(* A vault as whoever asks something of it may think of it: every request  *)
(* takes effect at one moment, on identities that are in memory and, once  *)
(* saved, in the file; two sets live until the next start.  A save that    *)
(* fails leaves the change in memory, and the file as it was or changed    *)
(* too.  VaultAgent implements this in several steps per request, and      *)
(* ClientCommands takes it for granted.                                    *)
(***************************************************************************)

CONSTANTS Fingerprint,
          Identity,    \* records with a comment and a flag autoload
          Mortal,      \* the identities that have a lifetime
          Comment,
          NoIdentity

VARIABLES locked,
          held,        \* the identities in memory
          saved,       \* the identities in the file
          shown,       \* loaded until the next start although autoload is off
          hidden       \* unloaded until the next start although autoload is on

avars == <<locked, held, saved, shown, hidden>>

Holdings == [Fingerprint -> Identity \cup {NoIdentity}]

Holds(fp) == held[fp] # NoIdentity

Init ==
  /\ locked \in BOOLEAN
  /\ held \in Holdings /\ saved = held
  /\ shown = {} /\ hidden = {}

SaveStatus == {"ok", "internal"}

(* Memory is written as a whole, whatever an earlier save has left out. *)
SavedAs(status) ==
  \/ status = "ok" /\ saved' = held'
  \/ status = "internal" /\ saved' \in {saved, held'}

OnlyAt(fps) ==
  (\A fp \in Fingerprint \ fps : held'[fp] = held[fp]) /\ held' \in Holdings

Add(fp, status) ==
  /\ ~locked
  /\ OnlyAt({fp}) /\ held'[fp] # NoIdentity
  /\ SavedAs(status)
  /\ shown' = IF status = "ok" /\ ~held'[fp].autoload THEN shown \cup {fp} ELSE shown
  /\ UNCHANGED <<locked, hidden>>

(* Identities leave both sets when they leave memory, saved or not. *)
Drop(fps, status) ==
  /\ ~locked
  /\ OnlyAt(fps) /\ \A fp \in fps : held'[fp] = NoIdentity
  /\ SavedAs(status)
  /\ shown' = shown \ fps /\ hidden' = hidden \ fps
  /\ UNCHANGED locked

Remove(fp, status) == Holds(fp) /\ Drop({fp}, status)

RemoveAll(status) == Drop(Fingerprint, status)

Expire(fps, status) == (\A fp \in fps : held[fp] \in Mortal) /\ Drop(fps, status)

SetAutoload(fp, on, status) ==
  /\ ~locked /\ Holds(fp) /\ held[fp].autoload # on
  /\ held' = [held EXCEPT ![fp].autoload = on]
  /\ SavedAs(status)
  /\ shown' = IF status = "ok" /\ on THEN shown \ {fp} ELSE shown
  /\ hidden' = IF status = "ok" THEN hidden \ {fp} ELSE hidden
  /\ UNCHANGED locked

SetComment(fp, comment, status) ==
  /\ ~locked /\ Holds(fp) /\ held[fp].comment # comment
  /\ held' = [held EXCEPT ![fp].comment = comment]
  /\ SavedAs(status)
  /\ UNCHANGED <<locked, shown, hidden>>

SessionLoad(fp) ==
  /\ ~locked /\ Holds(fp)
  /\ hidden' = hidden \ {fp}
  /\ shown' = IF held[fp].autoload THEN shown ELSE shown \cup {fp}
  /\ UNCHANGED <<locked, held, saved>>

SessionUnload(fp) ==
  /\ ~locked /\ Holds(fp)
  /\ shown' = shown \ {fp}
  /\ hidden' = hidden \cup {fp}
  /\ UNCHANGED <<locked, held, saved>>

Lock == ~locked /\ locked' = TRUE /\ UNCHANGED <<held, saved, shown, hidden>>

Unlock == locked' = FALSE /\ UNCHANGED <<held, saved, shown, hidden>>

(* The agent comes back from the file, locked. *)
Restart ==
  /\ held' = saved /\ locked' = TRUE
  /\ shown' = {} /\ hidden' = {}
  /\ UNCHANGED saved

Next ==
  \/ \E status \in SaveStatus :
       \/ \E fp \in Fingerprint :
            \/ Add(fp, status) \/ Remove(fp, status)
            \/ \E on \in BOOLEAN : SetAutoload(fp, on, status)
            \/ \E comment \in Comment : SetComment(fp, comment, status)
       \/ RemoveAll(status)
       \/ \E fps \in SUBSET Fingerprint : Expire(fps, status)
  \/ \E fp \in Fingerprint : SessionLoad(fp) \/ SessionUnload(fp)
  \/ Lock \/ Unlock \/ Restart

Spec == Init /\ [][Next]_avars
=============================================================================

-------------------------------- MODULE FocusRing --------------------------------
(***************************************************************************)
(* FocusRing (internal/tui/focus.go), as operators: the slots of a form    *)
(* are 0 .. n - 1, and skip is the set of those that are not shown now.    *)
(***************************************************************************)
EXTENDS Integers, FiniteSetsExt

(* The first slot that is not skipped, from i onwards and round; i when there is none. *)
ClampToValid(n, skip, i) ==
  LET steps == {k \in 0 .. n - 1 : (i + k) % n \notin skip} IN
    IF steps = {} THEN i ELSE (i + Min(steps)) % n

SetIndex(n, skip, i) == ClampToValid(n, skip, IF i < 0 THEN 0 ELSE IF i >= n THEN n - 1 ELSE i)

(* Next, which comes back to i when every other slot is skipped. *)
RingNext(n, skip, i) ==
  LET steps == {k \in 1 .. n : (i + k) % n \notin skip} IN
    IF steps = {} THEN i ELSE (i + Min(steps)) % n

(* Prev: the slot, and whether there was none to go to.  The index has then been moved
   down to 0 all the same. *)
RingPrev(skip, i) ==
  LET below == (0 .. i - 1) \ skip IN
    IF below = {} THEN [slot |-> 0, leaves |-> TRUE] ELSE [slot |-> Max(below), leaves |-> FALSE]
=============================================================================

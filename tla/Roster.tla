------------------------------- MODULE Roster -------------------------------
(***************************************************************************)
(* What the pool promises the code that keeps a slot index for the length  *)
(* of a conversation: a slot, once assigned, names the same account for    *)
(* ever; no account has two; the flags At and PickExcept consult may       *)
(* change at any time.  Pool implements this specification; the modules    *)
(* about conversations are built on it instead of on Pool.                 *)
(***************************************************************************)
EXTENDS Naturals, Sequences, Functions

CONSTANT Ids

VARIABLES slots,    \* Pool.accounts
          disabled, \* the accounts At refuses and PickExcept passes over
          removed   \* the accounts PickExcept passes over as well

roster == <<slots, disabled, removed>>

RosterInit ==
    /\ slots \in Seq(Ids)
    /\ \A i, j \in 1..Len(slots) : slots[i] = slots[j] => i = j
    /\ disabled \subseteq Ids /\ removed \subseteq Ids

Assign(a) ==
    /\ a \notin Range(slots)
    /\ slots' = Append(slots, a)
    /\ UNCHANGED <<disabled, removed>>

Reflag ==
    /\ disabled' \in SUBSET Ids /\ removed' \in SUBSET Ids
    /\ UNCHANGED slots

RosterNext == Reflag \/ \E a \in Ids : Assign(a)

RosterSpec == RosterInit /\ [][RosterNext]_roster

-----------------------------------------------------------------------------
\* Pool.At, 1-based: nothing for an unassigned slot or a disabled account.
AtSlot(i) == IF i \in DOMAIN slots /\ slots[i] \notin disabled THEN {slots[i]} ELSE {}
=============================================================================

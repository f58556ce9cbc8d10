------------------------------ MODULE MCRefresh ------------------------------
(***************************************************************************)
(* Instances of Refresh for TLC.                                           *)
(***************************************************************************)
EXTENDS RefreshProperties, TLC
CONSTANTS a1, a2, t1, t2, s1

TwoAccounts   == {a1, a2}
TwoTasks      == {t1, t2}
OneSubscriber == {s1}

Symmetric == Permutations(TwoAccounts) \cup Permutations(TwoTasks)
=============================================================================

----------------------------- MODULE PoolProofs -----------------------------
(***************************************************************************)
(* Proofs about the account pool, for every number of accounts, workers,   *)
(* operations, faults and rotations.                                       *)
(***************************************************************************)
EXTENDS PoolProperties, SequenceTheorems, FiniteSetTheorems, FiniteSetsExt,
        WellFoundedInduction, TLAPS

(***************************************************************************)
(* Numbers.                                                                *)
(***************************************************************************)
\* A set of numbers that is not empty has a least element.
LEMMA MinOfNats ==
    ASSUME NEW S, S \subseteq Nat, S # {}
    PROVE  Min(S) \in S /\ \A x \in S : Min(S) <= x
<1>1. PICK x \in S : \A y \in S : ~(<<y, x>> \in OpToRel(<, Nat))
    BY NatLessThanWellFounded, WFMin, Zenon
<1>2. \A y \in S : ~(y < x)
    BY <1>1, Zenon DEF OpToRel
<1>3. \A y \in S : x <= y
    BY <1>2
<1>. QED
    BY <1>3 DEF Min

(***************************************************************************)
(* The least element of a set of ids: the next account of a loop.          *)
(***************************************************************************)
LEMMA MinIsMember ==
    ASSUME NEW S, S \subseteq Ids, S # {}
    PROVE  Min(S) \in S
<1>1. S \subseteq Nat
    BY DEF Ids
<1>. QED
    BY <1>1, MinOfNats

(***************************************************************************)
(* An increasing enumeration of a set of ids is a sequence without         *)
(* repetition.                                                             *)
(***************************************************************************)
LEMMA AscendingIsSeq ==
    ASSUME PoolAssumption, NEW S, S \subseteq Ids, NEW s \in Ascending(S)
    PROVE  /\ s \in Seq(Ids) /\ Len(s) \in Nat /\ Range(s) \subseteq S
           /\ \A i, j \in 1..Len(s) : s[i] = s[j] => i = j
<1>1. IsFiniteSet(Ids)
    BY FS_Interval DEF PoolAssumption, Ids
<1>2. Cardinality(S) \in Nat
    BY <1>1, FS_Subset, FS_CardinalityType
<1>3. s \in [1..Cardinality(S) -> S]
    BY DEF Ascending
<1>4. s \in Seq(Ids) /\ Len(s) = Cardinality(S) /\ DOMAIN s = 1..Cardinality(S)
    BY <1>2, <1>3
<1>5. Range(s) \subseteq S
    BY <1>3, <1>4 DEF Range
<1>6. ASSUME NEW i \in 1..Len(s), NEW j \in 1..Len(s), s[i] = s[j]
      PROVE  i = j
    <2>1. s[i] \in Nat /\ s[j] \in Nat
        BY <1>3, <1>4 DEF Ids
    <2>2. i < j => s[i] < s[j]
        BY <1>4 DEF Ascending
    <2>3. j < i => s[j] < s[i]
        BY <1>4 DEF Ascending
    <2>. QED
        BY <1>2, <1>4, <1>6, <2>1, <2>2, <2>3
<1>. QED
    BY <1>2, <1>4, <1>5, <1>6

\* It reaches every element: ReloadPlan makes every id of the snapshot known.
LEMMA AscendingRange ==
    ASSUME PoolAssumption, NEW S, S \subseteq Ids, NEW s \in Ascending(S)
    PROVE  Range(s) = S
<1>. DEFINE n == Cardinality(S)
<1>1. IsFiniteSet(Ids)
    BY FS_Interval DEF PoolAssumption, Ids
<1>2. IsFiniteSet(S) /\ n \in Nat
    BY <1>1, FS_Subset, FS_CardinalityType
<1>3. Len(s) = n /\ s \in [1..n -> S]
    BY AscendingIsSeq, <1>2 DEF Ascending
<1>4. \A i, j \in 1..n : s[i] = s[j] => i = j
    BY AscendingIsSeq, <1>3
<1>5. s \in Injection(1..n, S)
    BY <1>3, <1>4 DEF Injection, IsInjective
<1>6. Cardinality(1..n) = n
    BY <1>2, FS_Interval
<1>7. s \in Surjection(1..n, S)
    BY <1>2, <1>5, <1>6, FS_Injection
<1>. QED
    BY <1>3, <1>7 DEF Surjection, Range

(***************************************************************************)
(* Type correctness.                                                       *)
(***************************************************************************)
\* A goroutine that calls nothing is well typed.
LEMMA NoJobType == PoolAssumption => NoJob \in Job
    BY DEF PoolAssumption, NoJob, Job, NoSnapshot, NoRow, Row, Op, Key

\* The states New leaves are well typed.
LEMMA InitType == PoolAssumption /\ Init => TypeOK
<1>. SUFFICES ASSUME PoolAssumption, Init
              PROVE  TypeOK
    OBVIOUS
<1>. BootCount \in Nat /\ MaxId \in Nat /\ BootCount <= MaxId
    BY DEF PoolAssumption
<1>1. row \in [Ids -> Row]
    <2>1. [state: {"none", "on", "off"}, ver: {0}] \subseteq Row
        BY DEF Row
    <2>2. row \in [Ids -> [state: {"none", "on", "off"}, ver: {0}]]
        BY DEF Init
    <2>. QED
        BY <2>1, <2>2
<1>8. configured \in Seq(Ids) /\ nextId \in Nat
    <2>1. configured = [i \in 1..BootCount |-> i] /\ nextId = BootCount + 1
        BY DEF Init
    <2>2. configured \in [1..BootCount -> Ids]
        BY <2>1 DEF Ids
    <2>. QED
        BY <2>1, <2>2
<1>2. PICK ok \in SUBSET (1..BootCount), end \in 0..BootCount :
        /\ warmStart = end
        /\ acct = [a \in Ids |->
                     [newAccount(row[a]) EXCEPT
                        !.initialized = a \in ok, !.ready = a \in ok,
                        !.settings = IF a \in ok THEN 0 ELSE -1]]
        /\ accounts \in Ascending(ok)
    BY DEF Init
<1>3. ok \subseteq Ids
    BY DEF PoolAssumption, Ids
<1>4. accounts \in Seq(Ids)
    BY <1>2, <1>3, AscendingIsSeq
<1>5. ASSUME NEW a \in Ids
      PROVE  acct[a] \in Account
    <2>1. newAccount(row[a]) \in Account
        BY <1>1 DEF newAccount, KeyOf, Account, Key, Row
    <2>2. acct[a] = [newAccount(row[a]) EXCEPT
                       !.initialized = a \in ok, !.ready = a \in ok,
                       !.settings = IF a \in ok THEN 0 ELSE -1]
        BY <1>2
    <2>3. (a \in ok) \in BOOLEAN /\ (IF a \in ok THEN 0 ELSE -1) \in Nat \cup {-1}
        OBVIOUS
    <2>. QED
        BY <2>1, <2>2, <2>3 DEF Account
<1>6. acct \in [Ids -> Account]
    BY <1>2, <1>5
<1>7. job \in [Procs -> Job]
    BY NoJobType DEF Init
<1>9. pc \in [Procs -> Label] /\ warmStart \in Nat
    <2>1. "idle" \in Label
        BY DEF Label
    <2>2. pc = [p \in Procs |-> "idle"]
        BY DEF Init
    <2>3. warmStart \in 0..BootCount
        BY <1>2
    <2>. QED
        BY <2>1, <2>2, <2>3
<1>10. /\ holder \in Workers \cup {Nobody} /\ suspect \subseteq Ids
       /\ spent \in [calls: Nat, faults: Nat, rotations: Nat]
    BY DEF Init
<1>. QED
    BY <1>1, <1>4, <1>6, <1>7, <1>8, <1>9, <1>10 DEF TypeOK

(***************************************************************************)
(* Updating one field of a record keeps its type.                          *)
(***************************************************************************)
\* The updates of claimInit and of the compare-and-swap that claims.
LEMMA JobClaims ==
    ASSUME PoolAssumption, NEW j \in Job, NEW a \in Ids, NEW c \in BOOLEAN
    PROVE  /\ [j EXCEPT !.need = @ \ {a}, !.a = a] \in Job
           /\ [j EXCEPT !.tries = WarmAttempts, !.claimed = c] \in Job
           /\ [j EXCEPT !.tries = 1, !.claimed = c] \in Job
<1>1. WarmAttempts \in 0..WarmAttempts /\ 1 \in 0..WarmAttempts
    BY DEF PoolAssumption
<1>. QED
    BY <1>1 DEF Job

\* The key made from a row.
LEMMA KeyOfType == \A r \in Row : KeyOf(r) \in Key /\ r.ver \in Nat
    BY DEF KeyOf, Key, Row

\* addReady hands back to one of three places, never to a lock.
LEMMA ProceedType == \A j : Proceed(j) \in {"ok", "persist"}
    BY DEF Proceed

LEMMA ResumeType == \A j : Resume(j) \in {"need", "changed", "unlock"}
    BY DEF Resume

\* The updates of a row.
LEMMA RowFields ==
    ASSUME NEW r \in Row, NEW s \in {"none", "on", "off"}
    PROVE  [r EXCEPT !.state = s] \in Row /\ [r EXCEPT !.ver = @ + 1] \in Row
    BY DEF Row

Budget == [calls: Nat, faults: Nat, rotations: Nat]
\* The updates of the bounds.
LEMMA BudgetFields ==
    ASSUME NEW b \in Budget
    PROVE  /\ [b EXCEPT !.calls = @ + 1] \in Budget
           /\ [b EXCEPT !.faults = @ + 1] \in Budget
           /\ [b EXCEPT !.rotations = @ + 1] \in Budget
    BY DEF Budget

\* installCandidate makes an account of an account.
LEMMA InstalledType ==
    ASSUME NEW x \in Account, NEW r \in Row, NEW n \in Nat \cup {-1}
    PROVE  [x EXCEPT !.key = KeyOf(r), !.settings = n] \in Account
BY KeyOfType DEF Account

\* So does the plan of ReloadKeys.
LEMMA PlannedType ==
    ASSUME TypeOK, NEW snap \in [Ids -> Row], NEW a \in Ids
    PROVE  Planned(a, snap) \in Account
<1>1. acct[a] \in Account /\ snap[a] \in Row
    BY DEF TypeOK
<1>2. newAccount(snap[a]) \in Account
    BY <1>1, KeyOfType DEF newAccount, Account
<1>. QED
    BY ZenonT(40), <1>1, <1>2, KeyOfType DEF Planned, Account

(***************************************************************************)
(* The accounts an operation holds on to are known to the pool.  Together  *)
(* with TypeOK this is inductive.                                          *)
(***************************************************************************)
Busy == Label \ {"idle", "lock", "plan", "changed", "need", "unlock", "done"}
Located ==
    \A p \in Procs :
        /\ pc[p] \in Busy \/ job[p].claimed => job[p].a \in Known
        /\ job[p].need \subseteq Known /\ job[p].chg \subseteq Known
        /\ pc[p] = "lock" => job[p].op \in Op \ {"none", "warm"}

\* The known accounts are accounts.
LEMMA KnownAreIds == TypeOK => Known \subseteq Ids
    BY DEF TypeOK, Known, Range

(***************************************************************************)
(* How the actions' helpers change one variable.                           *)
(***************************************************************************)
\* A goroutine moves.
LEMMA GotoType ==
    ASSUME TypeOK, NEW p \in Procs, NEW l \in Label, Goto(p, l)
    PROVE  pc' \in [Procs -> Label]
BY DEF TypeOK, Goto

\* A goroutine moves with new local variables.
LEMMA StepJobType ==
    ASSUME TypeOK, NEW p \in Procs, NEW l \in Label, NEW j \in Job, Step(p, l, j)
    PROVE  pc' \in [Procs -> Label] /\ job' \in [Procs -> Job]
BY DEF TypeOK, Step, Goto

\* One account changes.
LEMMA BecomeType ==
    ASSUME TypeOK, NEW a \in Ids, NEW r \in Account, Become(a, r)
    PROVE  acct' \in [Ids -> Account]
BY DEF TypeOK, Become

\* A store write that succeeds.
LEMMA SetStateType ==
    ASSUME TypeOK, NEW a \in Ids, NEW s \in {"none", "on", "off"}, SetState(a, s)
    PROVE  row' \in [Ids -> Row]
BY DEF TypeOK, SetState, Row

\* A store write that fails.
LEMMA StoreFailsType ==
    ASSUME TypeOK, NEW a \in Ids, StoreFails(a)
    PROVE  /\ row' \in [Ids -> Row] /\ nextId' \in Nat
           /\ spent' \in [calls: Nat, faults: Nat, rotations: Nat]
           /\ suspect' \subseteq Ids
<1>1. row' = row /\ nextId' = nextId
    BY DEF StoreFails, table
<1>2. /\ spent' = spent \/ spent' = [spent EXCEPT !.faults = @ + 1]
      /\ suspect' = suspect \/ suspect' = suspect \cup {a}
    BY DEF StoreFails
<1>3. [spent EXCEPT !.faults = @ + 1] \in [calls: Nat, faults: Nat, rotations: Nat]
    BY SMTT(30) DEF TypeOK
<1>. QED
    BY <1>1, <1>2, <1>3 DEF TypeOK

\* The goroutines' part of the state, and everything else.
LocalType  == pc \in [Procs -> Label] /\ job \in [Procs -> Job]
SharedType ==
    /\ row \in [Ids -> Row] /\ nextId \in Nat
    /\ acct \in [Ids -> Account]
    /\ configured \in Seq(Ids) /\ accounts \in Seq(Ids) /\ warmStart \in Nat
    /\ holder \in Workers \cup {Nobody}
    /\ spent \in [calls: Nat, faults: Nat, rotations: Nat]
    /\ suspect \subseteq Ids

\* Steps that leave the table, the lists and the budgets alone.
LEMMA QuietType ==
    ASSUME TypeOK, UNCHANGED <<table, lists, spent, suspect>>,
           acct' \in [Ids -> Account], holder' \in Workers \cup {Nobody}
    PROVE  SharedType'
BY DEF TypeOK, SharedType, table, lists

\* Steps that change the goroutines only.
LEMMA CalmType ==
    ASSUME TypeOK, UNCHANGED <<table, acct, lists, holder, spent, suspect>>
    PROVE  SharedType'
BY DEF TypeOK, SharedType, table, lists

(***************************************************************************)
(* What the actions may rely on: the account a goroutine holds exists.     *)
(***************************************************************************)
LEMMA HeldTypes ==
    ASSUME PoolAssumption, TypeOK, Located, NEW p \in Procs
    PROVE  /\ job[p] \in Job /\ NoJob \in Job
           /\ pc[p] \in Busy \/ job[p].claimed =>
                job[p].a \in Ids /\ acct[job[p].a] \in Account /\ row[job[p].a] \in Row
<1>1. job[p] \in Job /\ NoJob \in Job
    BY NoJobType DEF TypeOK
<1>2. pc[p] \in Busy \/ job[p].claimed => job[p].a \in Ids
    BY KnownAreIds DEF Located
<1>. QED
    BY <1>1, <1>2 DEF TypeOK

\* Every step of the pool, one by one.
LEMMA StepType == PoolAssumption /\ TypeOK /\ Located /\ [Next]_vars => TypeOK'
<1>. SUFFICES ASSUME PoolAssumption, TypeOK, Located, [Next]_vars
              PROVE  LocalType' /\ SharedType'
    BY DEF TypeOK, LocalType, SharedType
<1>1. ASSUME CreateAccount
      PROVE  LocalType' /\ SharedType'
    <2>1. nextId \in Nat /\ [state |-> "on", ver |-> 0] \in Row
        BY DEF TypeOK, Row
    <2>2. row' = [row EXCEPT ![nextId] = [state |-> "on", ver |-> 0]]
        BY <1>1 DEF CreateAccount
    <2>3. row' \in [Ids -> Row]
        BY <2>1, <2>2 DEF TypeOK
    <2>4. nextId' \in Nat
        BY <1>1, <2>1 DEF CreateAccount
    <2>. QED
        BY <1>1, <2>3, <2>4 DEF CreateAccount, lists, LocalType, SharedType, TypeOK
<1>2. ASSUME NEW a \in Ids, RotateKey(a)
      PROVE  LocalType' /\ SharedType'
    <2>1. [row[a] EXCEPT !.ver = @ + 1] \in Row
        BY RowFields DEF TypeOK
    <2>2. row' = [row EXCEPT ![a] = [row[a] EXCEPT !.ver = @ + 1]]
        BY <1>2 DEF RotateKey
    <2>3. row' \in [Ids -> Row]
        BY <2>1, <2>2 DEF TypeOK
    <2>4. spent' = [spent EXCEPT !.rotations = @ + 1]
        BY <1>2 DEF RotateKey
    <2>5. spent' \in Budget
        BY <2>4, BudgetFields DEF TypeOK, Budget
    <2>. QED
        BY <1>2, <2>3, <2>5 DEF Budget, RotateKey, lists, LocalType, SharedType, TypeOK
<1>3. ASSUME NEW p \in Workers, NEW op \in Ops, NEW a \in Ids \cup {0}, Call(p, op, a)
      PROVE  LocalType' /\ SharedType'
    <2>. DEFINE j == [NoJob EXCEPT !.op = op, !.a = a,
                        !.snap = IF op = "reload" THEN row ELSE NoSnapshot]
    <2>1. op \in Op
        BY DEF PoolAssumption, Op
    <2>2. NoSnapshot \in [Ids -> Row] /\ row \in [Ids -> Row]
        BY DEF NoSnapshot, NoRow, Row, TypeOK
    <2>3. j \in Job
        BY <2>1, <2>2, NoJobType DEF Job
    <2>4. Step(p, "lock", j) /\ "lock" \in Label /\ p \in Procs
        BY <1>3 DEF Call, Label, Procs
    <2>5. LocalType'
        BY <2>3, <2>4, StepJobType DEF LocalType
    <2>6. spent' = [spent EXCEPT !.calls = @ + 1]
        BY <1>3 DEF Call
    <2>7. spent' \in Budget
        BY <2>6, BudgetFields DEF TypeOK, Budget
    <2>. QED
        BY <1>3, <2>5, <2>7 DEF Budget, Call, table, lists, SharedType, TypeOK
<1>4. ASSUME NEW p \in Workers, Lock(p)
      PROVE  LocalType' /\ SharedType'
    <2>1. p \in Procs /\ NoJob \in Job
        BY NoJobType DEF Procs
    <2>2. LocalType'
        <3>1. CASE job[p].op = "reload" \/ job[p].a \in Known
            <4>1. pc[p] = "lock"
                BY <1>4 DEF Lock, At
            <4>2. "plan" \in Label /\ job[p].op \in Op \ {"none", "warm"}
                BY <4>1, <2>1 DEF Label, Located
            <4>3. job[p].op = "reload" \/ job[p].op \in Label
                BY <4>2 DEF Op, Label
            <4>4. (IF job[p].op = "reload" THEN "plan" ELSE job[p].op) \in Label
                BY <4>2, <4>3
            <4>5. /\ Goto(p, IF job[p].op = "reload" THEN "plan" ELSE job[p].op)
                  /\ UNCHANGED job
                BY <1>4, <3>1 DEF Lock
            <4>. QED
                BY <2>1, <4>4, <4>5, GotoType DEF LocalType, TypeOK
        <3>2. CASE ~(job[p].op = "reload" \/ job[p].a \in Known)
            <4>1. Step(p, "idle", NoJob) /\ "idle" \in Label
                BY <1>4, <3>2 DEF Lock, Label
            <4>. QED
                BY <2>1, <4>1, StepJobType DEF LocalType
        <3>. QED
            BY <3>1, <3>2
    <2>3. /\ holder' \in Workers \cup {Nobody} /\ acct' \in [Ids -> Account]
          /\ UNCHANGED <<table, lists, spent, suspect>>
        BY <1>4 DEF Lock, TypeOK
    <2>. QED
        BY <2>2, <2>3, QuietType
<1>5. ASSUME NEW p \in Workers, Unlock(p)
      PROVE  LocalType' /\ SharedType'
    <2>1. p \in Procs /\ NoJob \in Job
        BY NoJobType DEF Procs
    <2>2. Step(p, "idle", NoJob) /\ "idle" \in Label
        BY <1>5 DEF Unlock, Label
    <2>3. LocalType'
        BY <2>1, <2>2, StepJobType DEF LocalType
    <2>4. acct' \in [Ids -> Account]
        <3>1. CASE job[p].claimed
            <4>1. job[p].a \in Ids /\ acct[job[p].a] \in Account
                BY <3>1, <2>1, HeldTypes
            <4>2. [acct[job[p].a] EXCEPT !.initing = FALSE] \in Account
                BY <4>1 DEF Account
            <4>3. Become(job[p].a, [acct[job[p].a] EXCEPT !.initing = FALSE])
                BY <1>5, <3>1 DEF Unlock, Become
            <4>. QED
                BY <4>1, <4>2, <4>3, BecomeType
        <3>2. CASE ~job[p].claimed
            BY <1>5, <3>2 DEF Unlock, TypeOK
        <3>. QED
            BY <3>1, <3>2
    <2>. QED
        BY <1>5, <2>3, <2>4, QuietType DEF Unlock
<1>6. ASSUME NEW p \in Procs, initializationSnapshot(p)
      PROVE  LocalType' /\ SharedType'
    <2>1. pc[p] \in Busy
        BY <1>6 DEF initializationSnapshot, At, Busy, Label
    <2>2. /\ job[p] \in Job /\ job[p].a \in Ids
          /\ acct[job[p].a] \in Account /\ row[job[p].a] \in Row
        BY <2>1, HeldTypes
    <2>3. [job[p] EXCEPT !.key = acct[job[p].a].key] \in Job
        BY <2>2 DEF Account, Job
    <2>4. /\ Step(p, "apply", [job[p] EXCEPT !.key = acct[job[p].a].key])
          /\ "apply" \in Label
        BY <1>6 DEF initializationSnapshot, Label
    <2>5. LocalType'
        BY <2>3, <2>4, StepJobType DEF LocalType
    <2>. QED
        BY <1>6, <2>5, CalmType DEF initializationSnapshot
<1>7. ASSUME NEW p \in Procs, applyInitialization(p)
      PROVE  LocalType' /\ SharedType'
    <2>1. pc[p] \in Busy
        BY <1>7 DEF applyInitialization, At, Busy, Label
    <2>2. /\ job[p] \in Job /\ job[p].a \in Ids
          /\ acct[job[p].a] \in Account /\ row[job[p].a] \in Row
        BY <2>1, HeldTypes
    <2>. DEFINE r == [acct[job[p].a] EXCEPT !.initialized = TRUE,
                                            !.settings = job[p].key.ver]
    <2>3. r \in Account
        BY <2>2 DEF Account, Job, Key
    <2>4. acct' \in [Ids -> Account]
        BY <1>7, <2>2, <2>3, BecomeType DEF applyInitialization
    <2>5. Goto(p, Proceed(job[p])) /\ Proceed(job[p]) \in Label /\ UNCHANGED job
        BY <1>7 DEF applyInitialization, Proceed, Label
    <2>6. LocalType'
        BY <2>5, GotoType DEF LocalType, TypeOK
    <2>7. UNCHANGED <<table, lists, holder, spent, suspect>>
        BY <1>7 DEF applyInitialization
    <2>. QED
        BY <2>4, <2>6, <2>7, QuietType DEF TypeOK
<1>8. ASSUME NEW p \in Procs, AttemptFails(p)
      PROVE  LocalType' /\ SharedType'
    <2>1. pc[p] \in Busy
        BY <1>8 DEF AttemptFails, At, Busy, Label
    <2>2. /\ job[p] \in Job /\ job[p].a \in Ids
          /\ acct[job[p].a] \in Account /\ row[job[p].a] \in Row
        BY <2>1, HeldTypes
    <2>3. job[p].tries > 1 => [job[p] EXCEPT !.tries = @ - 1] \in Job
        BY <2>2 DEF PoolAssumption, Job
    <2>4. /\ "init" \in Label /\ "failed" \in Label
          /\ \/ job[p].tries > 1 /\ Step(p, "init", [job[p] EXCEPT !.tries = @ - 1])
             \/ Goto(p, "failed") /\ UNCHANGED job
        BY <1>8 DEF AttemptFails, Label
    <2>5. LocalType'
        BY <2>3, <2>4, StepJobType, GotoType DEF LocalType, TypeOK
    <2>. QED
        BY <1>8, <2>5, CalmType DEF AttemptFails
<1>9. ASSUME NEW p \in Procs, InitializationFailed(p)
      PROVE  LocalType' /\ SharedType'
    <2>1. pc[p] \in Busy
        BY <1>9 DEF InitializationFailed, At, Busy, Label
    <2>2. /\ job[p] \in Job /\ job[p].a \in Ids
          /\ acct[job[p].a] \in Account /\ row[job[p].a] \in Row
        BY <2>1, HeldTypes
    <2>3. [acct[job[p].a] EXCEPT !.initing = FALSE] \in Account
        BY <2>2 DEF Account
    <2>4. /\ UNCHANGED acct \/ Become(job[p].a, [acct[job[p].a] EXCEPT !.initing = FALSE])
          /\ \E l \in {Resume(job[p]), "unlock", "rollback"} : Goto(p, l)
          /\ UNCHANGED <<table, lists, holder, job, spent, suspect>>
        BY <1>9 DEF InitializationFailed
    <2>5. acct' \in [Ids -> Account]
        BY <2>2, <2>3, <2>4, BecomeType DEF TypeOK
    <2>6. Resume(job[p]) \in Label /\ "unlock" \in Label /\ "rollback" \in Label
        BY ResumeType DEF Label
    <2>7. LocalType'
        BY <2>4, <2>6, GotoType DEF LocalType, TypeOK
    <2>. QED
        BY <2>4, <2>5, <2>7, QuietType DEF TypeOK
<1>10. ASSUME NEW p \in Procs, addReadyRelease(p)
       PROVE  LocalType' /\ SharedType'
    <2>1. pc[p] \in Busy
        BY <1>10 DEF addReadyRelease, At, Busy, Label
    <2>2. /\ job[p] \in Job /\ job[p].a \in Ids
          /\ acct[job[p].a] \in Account /\ row[job[p].a] \in Row
        BY <2>1, HeldTypes
    <2>3. [acct[job[p].a] EXCEPT !.initing = FALSE] \in Account
        BY <2>2 DEF Account
    <2>4. /\ UNCHANGED acct \/ Become(job[p].a, [acct[job[p].a] EXCEPT !.initing = FALSE])
          /\ Goto(p, "unlock") \/ Goto(p, "adding")
          /\ UNCHANGED <<table, lists, holder, job, spent, suspect>>
        BY <1>10 DEF addReadyRelease
    <2>5. acct' \in [Ids -> Account]
        BY <2>2, <2>3, <2>4, BecomeType DEF TypeOK
    <2>6. "unlock" \in Label /\ "adding" \in Label
        BY DEF Label
    <2>7. LocalType'
        BY <2>4, <2>6, GotoType DEF LocalType, TypeOK
    <2>. QED
        BY <2>4, <2>5, <2>7, QuietType DEF TypeOK
<1>11. ASSUME NEW p \in Procs, addReadySwap(p)
       PROVE  LocalType' /\ SharedType'
    <2>1. pc[p] \in Busy
        BY <1>11 DEF addReadySwap, At, Busy, Label
    <2>2. /\ job[p] \in Job /\ job[p].a \in Ids
          /\ acct[job[p].a] \in Account /\ row[job[p].a] \in Row
        BY <2>1, HeldTypes
    <2>3. [acct[job[p].a] EXCEPT !.ready = TRUE] \in Account
        BY <2>2 DEF Account
    <2>4. /\ UNCHANGED acct \/ Become(job[p].a, [acct[job[p].a] EXCEPT !.ready = TRUE])
          /\ Goto(p, "append") \/ Goto(p, Resume(job[p]))
          /\ UNCHANGED <<table, lists, holder, job, spent, suspect>>
        BY <1>11 DEF addReadySwap
    <2>5. acct' \in [Ids -> Account]
        BY <2>2, <2>3, <2>4, BecomeType DEF TypeOK
    <2>6. Resume(job[p]) \in Label /\ "append" \in Label
        BY ResumeType DEF Label
    <2>7. LocalType'
        BY <2>4, <2>6, GotoType DEF LocalType, TypeOK
    <2>. QED
        BY <2>4, <2>5, <2>7, QuietType DEF TypeOK
<1>12. ASSUME NEW p \in Procs, addReadyAppend(p)
       PROVE  LocalType' /\ SharedType'
    <2>1. pc[p] \in Busy
        BY <1>12 DEF addReadyAppend, At, Busy, Label
    <2>2. /\ job[p] \in Job /\ job[p].a \in Ids
          /\ acct[job[p].a] \in Account /\ row[job[p].a] \in Row
        BY <2>1, HeldTypes
    <2>3. /\ accounts' = Append(accounts, job[p].a)
          /\ Goto(p, Resume(job[p]))
          /\ UNCHANGED <<table, acct, configured, warmStart, holder, job, spent, suspect>>
        BY <1>12 DEF addReadyAppend
    <2>4. accounts' \in Seq(Ids)
        BY <2>2, <2>3, AppendProperties DEF TypeOK
    <2>5. Resume(job[p]) \in Label
        BY ResumeType DEF Label
    <2>6. LocalType'
        BY <2>3, <2>5, GotoType DEF LocalType, TypeOK
    <2>. QED
        BY <2>3, <2>4, <2>6 DEF SharedType, TypeOK, table
<1>13. ASSUME NEW p \in Procs, claimInit(p)
       PROVE  LocalType' /\ SharedType'
    <2>. DEFINE a == Min(job[p].need)
                next == [job[p] EXCEPT !.need = @ \ {a}, !.a = a]
    <2>1. job[p] \in Job /\ job[p].need \subseteq Ids
        BY HeldTypes DEF Job
    <2>2. a \in Ids
        BY <1>13, <2>1, MinIsMember DEF claimInit
    <2>3. \E l \in {"need", "removed?"} : Step(p, l, next)
        BY <1>13 DEF claimInit
    <2>. HIDE DEF a
    <2>4. next \in Job
        BY <2>1, <2>2, JobClaims
    <2>. HIDE DEF next
    <2>5. {"need", "removed?"} \subseteq Label
        BY DEF Label
    <2>6. LocalType'
        BY <2>3, <2>4, <2>5, StepJobType DEF LocalType
    <2>. QED
        BY <1>13, <2>6, CalmType DEF claimInit
<1>14. ASSUME WarmNext
       PROVE  LocalType' /\ SharedType'
    <2>. DEFINE end == IF warmStart + WarmBatch < Len(configured)
                       THEN warmStart + WarmBatch ELSE Len(configured)
                S == {configured[i] : i \in warmStart + 1..end}
                j == [NoJob EXCEPT !.op = "warm", !.need = S]
    <2>1. /\ warmStart' = end /\ Step(Warmer, "need", j)
          /\ UNCHANGED <<table, acct, configured, accounts, holder, spent, suspect>>
        BY <1>14 DEF WarmNext
    <2>2. /\ warmStart \in Nat /\ WarmBatch \in Nat /\ configured \in Seq(Ids)
        BY DEF TypeOK, PoolAssumption
    <2>3. Len(configured) \in Nat /\ end \in Nat /\ end <= Len(configured)
        BY <2>2
    <2>. HIDE DEF end
    <2>4. S \subseteq Ids
        BY <2>2, <2>3
    <2>. HIDE DEF S
    <2>5. j \in Job
        BY <2>4, NoJobType DEF Job, Op
    <2>. HIDE DEF j
    <2>6. Warmer \in Procs /\ "need" \in Label
        BY DEF Procs, Label
    <2>7. LocalType'
        BY <2>1, <2>5, <2>6, StepJobType DEF LocalType
    <2>. QED
        BY <2>1, <2>3, <2>7 DEF SharedType, TypeOK, table
<1>15. ASSUME WarmBatchDone \/ WarmReturn
       PROVE  LocalType' /\ SharedType'
    <2>1. /\ Step(Warmer, "idle", NoJob) \/ (Goto(Warmer, "done") /\ UNCHANGED job)
          /\ UNCHANGED <<table, acct, lists, holder, spent, suspect>>
        BY <1>15 DEF WarmBatchDone, WarmReturn
    <2>2. Warmer \in Procs /\ "idle" \in Label /\ "done" \in Label
        BY DEF Procs, Label
    <2>3. LocalType'
        BY <2>1, <2>2, NoJobType, StepJobType, GotoType DEF LocalType, TypeOK
    <2>. QED
        BY <2>1, <2>3, CalmType
<1>16. ASSUME NEW p \in Procs, ReloadPlan(p)
       PROVE  LocalType' /\ SharedType'
    <2>. DEFINE snap == job[p].snap
    <2>1. job[p] \in Job /\ snap \in [Ids -> Row]
        BY HeldTypes DEF Job
    <2>2. acct' = [a \in Ids |-> Planned(a, snap)]
        BY <1>16 DEF ReloadPlan
    <2>3. PICK new \in Ascending(Desired(snap) \ Known) : configured' = configured \o new
        BY <1>16 DEF ReloadPlan
    <2>4. PICK want \in SUBSET Ids :
            Step(p, "changed", [job[p] EXCEPT !.chg = Rotated(snap), !.need = want])
        BY <1>16 DEF ReloadPlan, Desired
    <2>5. /\ suspect' = suspect \cup {a \in Ids : snap[a].state # row[a].state}
          /\ UNCHANGED <<table, accounts, warmStart, holder, spent>>
        BY <1>16 DEF ReloadPlan
    <2>. HIDE DEF snap
    <2>6. acct' \in [Ids -> Account]
        BY <2>1, <2>2, PlannedType
    <2>7. configured' \in Seq(Ids)
        <3>1. new \in Seq(Ids)
            BY <2>3, AscendingIsSeq DEF Desired
        <3>. QED
            BY <2>3, <3>1, ConcatProperties DEF TypeOK
    <2>8. [job[p] EXCEPT !.chg = Rotated(snap), !.need = want] \in Job
        <3>1. Rotated(snap) \subseteq Ids
            BY DEF Rotated, Desired
        <3>. QED
            BY <2>1, <2>4, <3>1 DEF Job
    <2>9. LocalType'
        <3>1. "changed" \in Label
            BY DEF Label
        <3>. QED
            BY <2>4, <2>8, <3>1, StepJobType DEF LocalType
    <2>. QED
        BY <2>5, <2>6, <2>7, <2>9 DEF SharedType, TypeOK, table
<1>17. ASSUME NEW p \in Procs, installCandidate(p)
       PROVE  LocalType' /\ SharedType'
    <2>. DEFINE a == Min(job[p].chg)
                r == job[p].snap[a]
                n(ok) == IF ok THEN r.ver ELSE -1
                new(ok) == [acct[a] EXCEPT !.key = KeyOf(r), !.settings = n(ok)]
                rest(ok) == [job[p] EXCEPT !.chg = @ \ {a}, !.a = a, !.fresh = ok]
    <2>1. job[p] \in Job /\ job[p].chg \subseteq Ids /\ job[p].snap \in [Ids -> Row]
        BY HeldTypes DEF Job
    <2>2. a \in Ids
        BY <1>17, <2>1, MinIsMember DEF installCandidate
    <2>3. PICK ok \in {TRUE, FALSE} : Become(a, new(ok)) /\ Step(p, "installed", rest(ok))
        BY <1>17 DEF installCandidate
    <2>. HIDE DEF a
    <2>4. r \in Row /\ acct[a] \in Account
        BY <2>1, <2>2 DEF TypeOK
    <2>5. rest(ok) \in Job
        BY <2>1, <2>2 DEF Job
    <2>. HIDE DEF r
    <2>6. n(ok) \in Nat \cup {-1}
        BY <2>4, KeyOfType
    <2>. HIDE DEF n
    <2>7. new(ok) \in Account
        BY <2>4, <2>6, InstalledType
    <2>. HIDE DEF new, rest
    <2>8. acct' \in [Ids -> Account]
        BY <2>2, <2>3, <2>7, BecomeType
    <2>9. LocalType'
        <3>1. "installed" \in Label
            BY DEF Label
        <3>. QED
            BY <2>3, <2>5, <3>1, StepJobType DEF LocalType
    <2>10. UNCHANGED <<table, lists, holder, spent, suspect>>
        BY <1>17 DEF installCandidate
    <2>. QED
        BY <2>8, <2>9, <2>10, QuietType DEF TypeOK
<1>18. ASSUME NEW p \in Procs, ChangedDone(p) \/ ReloadDone(p)
       PROVE  LocalType' /\ SharedType'
    <2>1. job[p] \in Job
        BY HeldTypes
    <2>2. [job[p] EXCEPT !.snap = NoSnapshot] \in Job
        BY <2>1 DEF Job, NoSnapshot, NoRow, Row
    <2>3. /\ \/ Step(p, "need", [job[p] EXCEPT !.snap = NoSnapshot])
             \/ Goto(p, "unlock") /\ UNCHANGED job
          /\ UNCHANGED <<table, acct, lists, holder, spent, suspect>>
        BY <1>18 DEF ChangedDone, ReloadDone
    <2>4. "need" \in Label /\ "unlock" \in Label
        BY DEF Label
    <2>5. LocalType'
        BY <2>2, <2>3, <2>4, StepJobType, GotoType DEF LocalType, TypeOK
    <2>. QED
        BY <2>3, <2>5, CalmType
<1>19. ASSUME NEW p \in Procs, claimLoad(p) \/ claimSwap(p) \/ EnableClaim(p)
       PROVE  LocalType' /\ SharedType'
    <2>. DEFINE c == job[p].op \in {"enable", "refresh"}
    <2>1. pc[p] \in Busy
        BY <1>19 DEF claimLoad, claimSwap, EnableClaim, At, Busy, Label
    <2>2. job[p] \in Job /\ job[p].a \in Ids /\ acct[job[p].a] \in Account
        BY <2>1, HeldTypes
    <2>3. /\ UNCHANGED acct \/ Become(job[p].a, [acct[job[p].a] EXCEPT !.initing = TRUE])
          /\ \/ \E l \in {"disabled?", "persist", "swap", Resume(job[p])} :
                  Goto(p, l) /\ UNCHANGED job
             \/ Step(p, "init", [job[p] EXCEPT !.tries = WarmAttempts, !.claimed = c])
             \/ Step(p, "init", [job[p] EXCEPT !.tries = 1, !.claimed = c])
          /\ UNCHANGED <<table, lists, holder, spent, suspect>>
        BY <1>19 DEF claimLoad, claimSwap, EnableClaim
    <2>4. [acct[job[p].a] EXCEPT !.initing = TRUE] \in Account
        BY <2>2 DEF Account
    <2>5. acct' \in [Ids -> Account]
        BY <2>2, <2>3, <2>4, BecomeType DEF TypeOK
    <2>6. {"disabled?", "persist", "swap", "init", Resume(job[p])} \subseteq Label
        BY ResumeType DEF Label
    <2>7. LocalType'
        <3>1. c \in BOOLEAN
            OBVIOUS
        <3>. HIDE DEF c
        <3>. QED
            BY <2>2, <2>3, <2>6, <3>1, JobClaims, StepJobType, GotoType DEF LocalType, TypeOK
    <2>. QED
        BY <2>3, <2>5, <2>7, QuietType DEF TypeOK
<1>20. ASSUME NEW p \in Procs,
              \/ EnableRollback(p) \/ EnableApply(p) \/ DisableApply(p) \/ Remove(p)
              \/ installInitialized(p) \/ InstallChanged(p)
       PROVE  LocalType' /\ SharedType'
    <2>. DEFINE a == job[p].a
    <2>1. pc[p] \in Busy
        BY <1>20 DEF EnableRollback, EnableApply, DisableApply, Remove, installInitialized,
             InstallChanged, At, Busy, Label
    <2>2. job[p] \in Job /\ a \in Ids /\ acct[a] \in Account
        BY <2>1, HeldTypes
    <2>3. \/ UNCHANGED acct
          \/ Become(a, [acct[a] EXCEPT !.disabled = TRUE])
          \/ Become(a, [acct[a] EXCEPT !.removed = FALSE])
          \/ Become(a, [acct[a] EXCEPT !.initialized = job[p].fresh])
          \/ Become(a, [acct[a] EXCEPT !.disabled = FALSE, !.removed = FALSE])
          \/ Become(a, [acct[a] EXCEPT !.disabled = TRUE,
                                       !.removed = @ \/ pc[p] = "deleted"])
        BY <1>20 DEF EnableRollback, EnableApply, DisableApply, Remove, installInitialized,
             InstallChanged
    <2>4. /\ \E l \in {"unrow", "ok", "unlock", "removing", "flags", "changed"} : Goto(p, l)
          /\ UNCHANGED <<table, lists, holder, job, spent, suspect>>
        BY <1>20 DEF EnableRollback, EnableApply, DisableApply, Remove, installInitialized,
             InstallChanged
    <2>. HIDE DEF a
    <2>5. /\ [acct[a] EXCEPT !.disabled = TRUE] \in Account
          /\ [acct[a] EXCEPT !.removed = FALSE] \in Account
          /\ [acct[a] EXCEPT !.initialized = job[p].fresh] \in Account
          /\ [acct[a] EXCEPT !.disabled = FALSE, !.removed = FALSE] \in Account
        BY <2>2 DEF Account, Job
    <2>6. [acct[a] EXCEPT !.disabled = TRUE, !.removed = @ \/ pc[p] = "deleted"] \in Account
        <3>1. (acct[a].removed \/ pc[p] = "deleted") \in BOOLEAN
            BY Zenon
        <3>. QED
            BY <2>2, <3>1 DEF Account
    <2>7. acct' \in [Ids -> Account]
        BY <2>2, <2>3, <2>5, <2>6, BecomeType DEF TypeOK
    <2>8. LocalType'
        <3>1. {"unrow", "ok", "unlock", "removing", "flags", "changed"} \subseteq Label
            BY DEF Label
        <3>. QED
            BY <2>4, <3>1, GotoType DEF LocalType, TypeOK
    <2>. QED
        BY <2>4, <2>7, <2>8, QuietType DEF TypeOK
<1>21. ASSUME NEW p \in Procs,
              \/ EnableRollbackRow(p) \/ EnablePersist(p) \/ RemoveRow(p)
              \/ DisableRow(p) \/ DeleteRow(p)
       PROVE  LocalType' /\ SharedType'
    <2>. DEFINE a == job[p].a
    <2>1. pc[p] \in Busy
        BY <1>21 DEF EnableRollbackRow, EnablePersist, RemoveRow, DisableRow, DeleteRow,
                     StoreFirst, At, Busy, Label
    <2>2. a \in Ids /\ acct[a] \in Account
        BY <2>1, HeldTypes
    <2>3. /\ \/ StoreFails(a)
             \/ /\ \E s \in {"none", "on", "off"} : SetState(a, s)
                /\ UNCHANGED <<nextId, spent, suspect>>
          /\ \/ UNCHANGED acct
             \/ \E b \in BOOLEAN : Become(a, [acct[a] EXCEPT !.disabled = b])
          /\ \E l \in {"unlock", "enabled", "disabled", "deleted"} : Goto(p, l)
          /\ UNCHANGED <<lists, holder, job>>
        BY <1>21 DEF EnableRollbackRow, EnablePersist, RemoveRow, DisableRow, DeleteRow,
                     StoreFirst
    <2>. HIDE DEF a
    <2>4. \A b \in BOOLEAN : [acct[a] EXCEPT !.disabled = b] \in Account
        BY <2>2 DEF Account
    <2>5. acct' \in [Ids -> Account]
        BY <2>2, <2>3, <2>4, BecomeType DEF TypeOK
    <2>6. /\ row' \in [Ids -> Row] /\ nextId' \in Nat
          /\ spent' \in [calls: Nat, faults: Nat, rotations: Nat]
          /\ suspect' \subseteq Ids
        <3>1. CASE StoreFails(a)
            BY <2>2, <3>1, StoreFailsType
        <3>2. CASE /\ \E s \in {"none", "on", "off"} : SetState(a, s)
                   /\ UNCHANGED <<nextId, spent, suspect>>
            BY <2>2, <3>2, SetStateType DEF TypeOK
        <3>. QED
            BY <2>3, <3>1, <3>2
    <2>7. LocalType'
        <3>1. {"unlock", "enabled", "disabled", "deleted"} \subseteq Label
            BY DEF Label
        <3>. QED
            BY <2>3, <3>1, GotoType DEF LocalType, TypeOK
    <2>. QED
        BY <2>3, <2>5, <2>6, <2>7 DEF SharedType, TypeOK, lists
<1>22. CASE UNCHANGED vars
    BY <1>22 DEF vars, TypeOK, LocalType, SharedType
<1>23. Warmer \in Procs /\ Workers \subseteq Procs
    BY DEF Procs
<1>. QED
    BY <1>1, <1>2, <1>3, <1>4, <1>5, <1>6, <1>7, <1>8, <1>9, <1>10, <1>11, <1>12,
       <1>13, <1>14, <1>15, <1>16, <1>17, <1>18, <1>19, <1>20, <1>21, <1>22, <1>23
    DEF Next, Surroundings, Warm, Work, Initialize, Reload, SetEnabledReason

(***************************************************************************)
(* Located is preserved: Known only grows, and the goroutine that moves    *)
(* keeps the account it has or takes a known one.                          *)
(***************************************************************************)
LEMMA LocatedKept ==
    ASSUME Located, NEW p \in Procs, Known \subseteq Known',
           \A q \in Procs \ {p} : pc'[q] = pc[q] /\ job'[q] = job[q],
           pc'[p] \in Busy \/ job'[p].claimed => job'[p].a \in Known',
           job'[p].need \subseteq Known', job'[p].chg \subseteq Known',
           pc'[p] = "lock" => job'[p].op \in Op \ {"none", "warm"}
    PROVE  Located'
BY DEF Located

\* A goroutine that stays with the account it has.
LEMMA LocatedGoto ==
    ASSUME TypeOK, Located, NEW p \in Procs, NEW l \in Label \ {"lock"}, Goto(p, l),
           UNCHANGED <<job, configured>>, l \notin Busy \/ pc[p] \in Busy
    PROVE  Located'
<1>1. pc' = [pc EXCEPT ![p] = l] /\ pc \in [Procs -> Label]
    BY DEF Goto, TypeOK
<1>2. pc'[p] = l /\ \A q \in Procs \ {p} : pc'[q] = pc[q]
    BY <1>1
<1>3. Known' = Known /\ job' = job
    BY DEF Known
<1>4. /\ pc[p] \in Busy \/ job[p].claimed => job[p].a \in Known
      /\ job[p].need \subseteq Known /\ job[p].chg \subseteq Known
    BY DEF Located
<1>. QED
    BY <1>2, <1>3, <1>4, LocatedKept

\* A goroutine that takes new local variables.
LEMMA LocatedStep ==
    ASSUME TypeOK, Located, NEW p \in Procs, NEW l \in Label, NEW j \in Job, Step(p, l, j),
           Known \subseteq Known', l \in Busy \/ j.claimed => j.a \in Known',
           j.need \subseteq Known', j.chg \subseteq Known',
           l = "lock" => j.op \in Op \ {"none", "warm"}
    PROVE  Located'
<1>1. /\ pc' = [pc EXCEPT ![p] = l] /\ pc \in [Procs -> Label]
      /\ job' = [job EXCEPT ![p] = j] /\ job \in [Procs -> Job]
    BY DEF Step, Goto, TypeOK
<1>2. pc'[p] = l /\ job'[p] = j /\ \A q \in Procs \ {p} : pc'[q] = pc[q] /\ job'[q] = job[q]
    BY <1>1
<1>. QED
    BY <1>2, LocatedKept

\* Every step of the pool, one by one.
LEMMA LocatedInvariant ==
    PoolAssumption /\ TypeOK /\ Located /\ [Next]_vars => Located'
<1>. SUFFICES ASSUME PoolAssumption, TypeOK, Located, [Next]_vars
              PROVE  Located'
    OBVIOUS
<1>a. NoJob \in Job /\ ~NoJob.claimed /\ NoJob.need = {} /\ NoJob.chg = {}
    BY NoJobType DEF NoJob
<1>b. \A p \in Procs : /\ job[p] \in Job
                       /\ pc[p] \in Busy \/ job[p].claimed => job[p].a \in Known
                       /\ job[p].need \subseteq Known /\ job[p].chg \subseteq Known
    BY DEF TypeOK, Located
<1>c. UNCHANGED configured => Known' = Known
    BY DEF Known
<1>1. CASE UNCHANGED <<configured, pc, job>>
    BY <1>1, <1>c DEF Located
<1>2. ASSUME NEW p \in Workers, NEW op \in Ops, NEW a \in Ids \cup {0}, Call(p, op, a)
      PROVE  Located'
    <2>. DEFINE j == [NoJob EXCEPT !.op = op, !.a = a,
                        !.snap = IF op = "reload" THEN row ELSE NoSnapshot]
    <2>1. Step(p, "lock", j) /\ UNCHANGED configured
        BY <1>2 DEF Call, lists
    <2>2. op \in Op \ {"none", "warm"}
        BY DEF PoolAssumption, Op
    <2>3. row \in [Ids -> Row] /\ NoSnapshot \in [Ids -> Row]
        BY DEF NoSnapshot, NoRow, Row, TypeOK
    <2>4. j \in Job /\ j.op = op /\ ~j.claimed /\ j.need = {} /\ j.chg = {}
        BY <1>a, <2>2, <2>3 DEF Job
    <2>. HIDE DEF j
    <2>5. "lock" \in Label /\ "lock" \notin Busy /\ p \in Procs
        BY DEF Label, Busy, Procs
    <2>. QED
        BY <1>c, <2>1, <2>2, <2>4, <2>5, LocatedStep
<1>3. ASSUME NEW p \in Workers, Lock(p)
      PROVE  Located'
    <2>1. p \in Procs /\ UNCHANGED configured /\ pc[p] = "lock"
        BY <1>3 DEF Procs, Lock, lists, At
    <2>2. job[p].op \in Op \ {"none", "warm"}
        BY <2>1 DEF Located
    <2>3. CASE job[p].op = "reload" /\ Goto(p, "plan") /\ UNCHANGED job
        <3>1. "plan" \in Label \ {"lock"} /\ "plan" \notin Busy
            BY DEF Label, Busy
        <3>. QED
            BY <2>1, <2>3, <3>1, LocatedGoto
    <2>4. CASE job[p].a \in Known /\ Goto(p, job[p].op) /\ UNCHANGED job
               /\ job[p].op # "reload"
        <3>1. job[p].op \in Label
            BY <2>2, <2>4 DEF Op, Label
        <3>2. Step(p, job[p].op, job[p])
            BY <2>1, <2>4 DEF Step, TypeOK
        <3>3. job[p].op # "lock"
            BY <2>2 DEF Op
        <3>. QED
            BY <1>b, <1>c, <2>1, <2>4, <3>1, <3>2, <3>3, LocatedStep
    <2>5. CASE Step(p, "idle", NoJob)
        <3>1. "idle" \in Label /\ "idle" \notin Busy
            BY DEF Label, Busy
        <3>. QED
            BY <1>a, <1>c, <2>1, <2>5, <3>1, LocatedStep
    <2>. QED
        BY <1>3, <2>3, <2>4, <2>5 DEF Lock
<1>4. ASSUME NEW p \in Procs, Step(p, "idle", NoJob), UNCHANGED configured
      PROVE  Located'
    <2>1. "idle" \in Label /\ "idle" \notin Busy
        BY DEF Label, Busy
    <2>. QED
        BY <1>a, <1>c, <1>4, <2>1, LocatedStep
<1>5. ASSUME NEW p \in Procs, ReloadDone(p) \/ (p = Warmer /\ WarmReturn)
      PROVE  Located'
    <2>1. /\ Goto(p, "unlock") \/ Goto(p, "done")
          /\ UNCHANGED <<job, configured>>
        BY <1>5 DEF ReloadDone, WarmReturn, lists
    <2>2. /\ "unlock" \in Label \ {"lock"} /\ "unlock" \notin Busy
          /\ "done" \in Label \ {"lock"} /\ "done" \notin Busy
        BY DEF Label, Busy
    <2>. QED
        BY <2>1, <2>2, LocatedGoto
<1>6. ASSUME NEW p \in Procs,
             \/ applyInitialization(p) \/ InitializationFailed(p)
             \/ addReadyRelease(p) \/ addReadySwap(p) \/ addReadyAppend(p)
             \/ EnableRollback(p) \/ EnableRollbackRow(p) \/ EnablePersist(p)
             \/ EnableApply(p) \/ DisableRow(p) \/ DeleteRow(p) \/ DisableApply(p)
             \/ Remove(p) \/ RemoveRow(p)
             \/ claimLoad(p) \/ EnableClaim(p) \/ installInitialized(p) \/ InstallChanged(p)
      PROVE  Located'
    <2>1. pc[p] \in Busy
        BY <1>6 DEF applyInitialization, InitializationFailed, addReadyRelease,
             addReadySwap, addReadyAppend, EnableRollback, EnableRollbackRow,
             EnablePersist, EnableApply, DisableRow, DeleteRow, StoreFirst, DisableApply,
             Remove, RemoveRow, claimLoad, EnableClaim, installInitialized, InstallChanged, At,
             Busy, Label
    <2>2. /\ \E l \in {"unlock", "rollback", "adding", "append", "unrow", "enabled", "ok",
                       "disabled", "deleted", "removing", "disabled?", "persist", "swap",
                       "flags", "changed", Proceed(job[p]), Resume(job[p])} : Goto(p, l)
          /\ UNCHANGED <<job, configured>>
        BY <1>6 DEF applyInitialization, InitializationFailed, addReadyRelease,
             addReadySwap, addReadyAppend, EnableRollback, EnableRollbackRow,
             EnablePersist, EnableApply, DisableRow, DeleteRow, StoreFirst, DisableApply,
             Remove, RemoveRow, claimLoad, EnableClaim, installInitialized, InstallChanged, lists
    <2>3. {"unlock", "rollback", "adding", "append", "unrow", "enabled", "ok", "disabled",
           "deleted", "removing", "disabled?", "persist", "swap", "flags", "changed",
           Proceed(job[p]), Resume(job[p])} \subseteq Label \ {"lock"}
        BY ResumeType DEF Label, Proceed
    <2>. QED
        BY <2>1, <2>2, <2>3, LocatedGoto
<1>7. ASSUME NEW p \in Procs,
             \/ initializationSnapshot(p) \/ AttemptFails(p) \/ claimSwap(p)
      PROVE  Located'
    <2>1. pc[p] \in Busy
        BY <1>7 DEF initializationSnapshot, AttemptFails, claimSwap, At, Busy, Label
    <2>2. /\ job[p] \in Job /\ job[p].a \in Ids /\ acct[job[p].a] \in Account
        BY <2>1, HeldTypes
    <2>3. /\ \/ \E l \in {"failed", Resume(job[p])} : Goto(p, l) /\ UNCHANGED job
             \/ Step(p, "apply", [job[p] EXCEPT !.key = acct[job[p].a].key])
             \/ job[p].tries > 1 /\ Step(p, "init", [job[p] EXCEPT !.tries = @ - 1])
             \/ \E n \in {1, WarmAttempts}, c \in BOOLEAN :
                  /\ c => job[p].op \in {"enable", "refresh"}
                  /\ Step(p, "init", [job[p] EXCEPT !.tries = n, !.claimed = c])
          /\ UNCHANGED configured
        <3>1. CASE initializationSnapshot(p)
            BY <3>1 DEF initializationSnapshot, lists
        <3>2. CASE AttemptFails(p)
            BY <3>2 DEF AttemptFails, lists
        <3>3. CASE claimSwap(p)
            <4>. DEFINE c == job[p].op \in {"enable", "refresh"}
                        n == IF job[p].op = "refresh" THEN 1 ELSE WarmAttempts
            <4>1. /\ \/ Goto(p, Resume(job[p])) /\ UNCHANGED job
                     \/ Step(p, "init", [job[p] EXCEPT !.tries = n, !.claimed = c])
                  /\ UNCHANGED configured
                BY <3>3 DEF claimSwap, lists
            <4>2. n \in {1, WarmAttempts} /\ c \in BOOLEAN
                OBVIOUS
            <4>. HIDE DEF n
            <4>. QED
                BY <4>1, <4>2
        <3>. QED
            BY <1>7, <3>1, <3>2, <3>3
    <2>4. {"failed", Resume(job[p]), "apply", "init"} \subseteq Label \ {"lock"}
        BY ResumeType DEF Label
    <2>5. ASSUME NEW j \in Job, NEW l \in Label \ {"lock"}, Step(p, l, j),
                 j.a = job[p].a, j.need = job[p].need, j.chg = job[p].chg
          PROVE  Located'
        BY <1>b, <1>c, <2>1, <2>3, <2>5, LocatedStep
    <2>6. CASE \E l \in {"failed", Resume(job[p])} : Goto(p, l) /\ UNCHANGED job
        BY <2>1, <2>3, <2>4, <2>6, LocatedGoto
    <2>7. CASE Step(p, "apply", [job[p] EXCEPT !.key = acct[job[p].a].key])
        <3>. DEFINE j == [job[p] EXCEPT !.key = acct[job[p].a].key]
        <3>1. j \in Job /\ j.a = job[p].a /\ j.need = job[p].need /\ j.chg = job[p].chg
            BY <2>2 DEF Account, Job
        <3>. HIDE DEF j
        <3>. QED
            BY <2>4, <2>5, <2>7, <3>1 DEF j
    <2>8. CASE job[p].tries > 1 /\ Step(p, "init", [job[p] EXCEPT !.tries = @ - 1])
        <3>. DEFINE j == [job[p] EXCEPT !.tries = @ - 1]
        <3>1. j \in Job /\ j.a = job[p].a /\ j.need = job[p].need /\ j.chg = job[p].chg
            BY <2>2, <2>8 DEF PoolAssumption, Job
        <3>. HIDE DEF j
        <3>. QED
            BY <2>4, <2>5, <2>8, <3>1 DEF j
    <2>9. ASSUME NEW n \in {1, WarmAttempts}, NEW c \in BOOLEAN,
                 Step(p, "init", [job[p] EXCEPT !.tries = n, !.claimed = c])
          PROVE  Located'
        <3>. DEFINE j == [job[p] EXCEPT !.tries = n, !.claimed = c]
        <3>1. n \in 0..WarmAttempts
            BY DEF PoolAssumption
        <3>2. j \in Job /\ j.a = job[p].a /\ j.need = job[p].need /\ j.chg = job[p].chg
            BY <2>2, <3>1 DEF Job
        <3>. HIDE DEF j
        <3>. QED
            BY <2>4, <2>5, <2>9, <3>2 DEF j
    <2>. QED
        BY <2>3, <2>6, <2>7, <2>8, <2>9
<1>8. ASSUME NEW p \in Procs, claimInit(p)
      PROVE  Located'
    <2>. DEFINE a == Min(job[p].need)
                next == [job[p] EXCEPT !.need = @ \ {a}, !.a = a]
    <2>1. job[p] \in Job /\ job[p].need \subseteq Ids
        BY HeldTypes DEF Job
    <2>2. a \in job[p].need
        BY <1>8, <2>1, MinIsMember DEF claimInit
    <2>3. a \in Ids /\ a \in Known
        BY <1>b, <2>1, <2>2
    <2>4. (\E l \in {"removed?", "need"} : Step(p, l, next)) /\ UNCHANGED configured
        BY <1>8 DEF claimInit, lists
    <2>. HIDE DEF a
    <2>5. next \in Job
        BY <2>1, <2>3, JobClaims
    <2>6. next.a = a /\ next.need \subseteq job[p].need /\ next.chg = job[p].chg
        BY <2>1 DEF Job
    <2>. HIDE DEF next
    <2>7. {"removed?", "need"} \subseteq Label \ {"lock"}
        BY DEF Label
    <2>. QED
        BY <1>b, <1>c, <2>3, <2>4, <2>5, <2>6, <2>7, LocatedStep
<1>9. ASSUME WarmNext
      PROVE  Located'
    <2>. DEFINE end == IF warmStart + WarmBatch < Len(configured)
                       THEN warmStart + WarmBatch ELSE Len(configured)
                S == {configured[i] : i \in warmStart + 1..end}
                j == [NoJob EXCEPT !.op = "warm", !.need = S]
    <2>1. Step(Warmer, "need", j) /\ UNCHANGED configured
        BY <1>9 DEF WarmNext
    <2>2. /\ warmStart \in Nat /\ WarmBatch \in Nat /\ configured \in Seq(Ids)
        BY DEF TypeOK, PoolAssumption
    <2>3. Len(configured) \in Nat /\ end \in Nat /\ end <= Len(configured)
        BY <2>2
    <2>. HIDE DEF end
    <2>4. S \subseteq Known /\ S \subseteq Ids
        BY <2>2, <2>3 DEF Known, Range
    <2>. HIDE DEF S
    <2>5. j \in Job /\ ~j.claimed /\ j.need = S /\ j.chg = {}
        BY <1>a, <2>4 DEF Job, Op
    <2>. HIDE DEF j
    <2>6. Warmer \in Procs /\ "need" \in Label /\ "need" \notin Busy
        BY DEF Procs, Label, Busy
    <2>. QED
        BY <1>c, <2>1, <2>4, <2>5, <2>6, LocatedStep
<1>10. ASSUME NEW p \in Procs, ReloadPlan(p)
       PROVE  Located'
    <2>. DEFINE snap == job[p].snap
                want == {a \in Desired(snap) \ Rotated(snap) :
                           /\ snap[a].state = "on"
                           /\ a \in Known => ~acct[a].initialized}
                j == [job[p] EXCEPT !.chg = Rotated(snap), !.need = want]
    <2>1. PICK new \in Ascending(Desired(snap) \ Known) : configured' = configured \o new
        BY <1>10 DEF ReloadPlan
    <2>2. Step(p, "changed", j)
        BY <1>10 DEF ReloadPlan
    <2>3. want \subseteq Desired(snap) /\ Rotated(snap) \subseteq Desired(snap) \cap Known
        BY DEF Rotated
    <2>4. Desired(snap) \subseteq Ids
        BY DEF Desired
    <2>. HIDE DEF snap, want
    <2>5. new \in Seq(Ids) /\ Range(new) = Desired(snap) \ Known
        BY <2>1, <2>4, AscendingIsSeq, AscendingRange
    <2>6. Known' = Known \cup Desired(snap)
        BY <2>1, <2>5, RangeConcatenation DEF TypeOK, Known
    <2>7. /\ j \in Job /\ j.a = job[p].a /\ j.claimed = job[p].claimed
          /\ j.need = want /\ j.chg = Rotated(snap)
        BY <1>b, <2>3, <2>4 DEF Job
    <2>. HIDE DEF j
    <2>8. "changed" \in Label /\ "changed" \notin Busy
        BY DEF Label, Busy
    <2>. QED
        BY <1>b, <2>2, <2>3, <2>6, <2>7, <2>8, LocatedStep
<1>11. ASSUME NEW p \in Procs, installCandidate(p)
       PROVE  Located'
    <2>. DEFINE a == Min(job[p].chg)
                rest(ok) == [job[p] EXCEPT !.chg = @ \ {a}, !.a = a, !.fresh = ok]
    <2>1. job[p] \in Job /\ job[p].chg \subseteq Ids
        BY HeldTypes DEF Job
    <2>2. a \in job[p].chg
        BY <1>11, <2>1, MinIsMember DEF installCandidate
    <2>3. a \in Ids /\ a \in Known
        BY <1>b, <2>1, <2>2
    <2>4. PICK ok \in BOOLEAN : Step(p, "installed", rest(ok))
        BY <1>11 DEF installCandidate
    <2>5. UNCHANGED configured
        BY <1>11 DEF installCandidate, lists
    <2>. HIDE DEF a
    <2>6. /\ rest(ok) \in Job /\ rest(ok).a = a /\ rest(ok).need = job[p].need
          /\ rest(ok).chg \subseteq job[p].chg
        BY <2>1, <2>3 DEF Job
    <2>. HIDE DEF rest
    <2>7. "installed" \in Label \ {"lock"}
        BY DEF Label
    <2>. QED
        BY <1>b, <1>c, <2>3, <2>4, <2>5, <2>6, <2>7, LocatedStep
<1>12. ASSUME NEW p \in Procs, ChangedDone(p)
       PROVE  Located'
    <2>. DEFINE j == [job[p] EXCEPT !.snap = NoSnapshot]
    <2>1. Step(p, "need", j) /\ UNCHANGED configured
        BY <1>12 DEF ChangedDone, lists
    <2>2. /\ j \in Job /\ j.a = job[p].a /\ j.claimed = job[p].claimed
          /\ j.need = job[p].need /\ j.chg = job[p].chg
        BY <1>b DEF Job, NoSnapshot, NoRow, Row
    <2>. HIDE DEF j
    <2>3. "need" \in Label /\ "need" \notin Busy
        BY DEF Label, Busy
    <2>. QED
        BY <1>b, <1>c, <2>1, <2>2, <2>3, LocatedStep
<1>13. CASE CreateAccount \/ (\E a \in Ids : RotateKey(a)) \/ UNCHANGED vars
    BY <1>1, <1>13 DEF CreateAccount, RotateKey, vars, lists
<1>14. ASSUME NEW p \in Procs, Unlock(p) \/ (p = Warmer /\ WarmBatchDone)
       PROVE  Located'
    BY <1>4, <1>14 DEF Unlock, WarmBatchDone, lists
<1>15. Warmer \in Procs /\ Workers \subseteq Procs
    BY DEF Procs
<1>. QED
    BY <1>2, <1>3, <1>5, <1>6, <1>7, <1>8, <1>9, <1>10, <1>11, <1>12, <1>13, <1>14, <1>15
    DEF Next, Surroundings, Warm, Work, Initialize, Reload, SetEnabledReason

(***************************************************************************)
(* Slots.  OneSlotEach is not inductive: an account is appended one step   *)
(* after its ready flag was swapped, so the invariant says who may be      *)
(* about to append what, and that whatever has a slot is ready and known   *)
(* (ReloadPlan makes new Account objects of ids it does not know).         *)
(***************************************************************************)
Appending(p) == pc[p] = "append"
SlotInv ==
    /\ OneSlotEach
    /\ \A a \in Slots : a \in Known /\ acct[a].ready
    /\ \A p \in Procs : Appending(p) => job[p].a \notin Slots /\ acct[job[p].a].ready
    /\ \A p, q \in Procs : Appending(p) /\ Appending(q) /\ p # q => job[p].a # job[q].a

\* A step of a goroutine that is not about to append afterwards.
Moved(p) == /\ pc'[p] # "append"
            /\ \A q \in Procs \ {p} : pc'[q] = pc[q] /\ job'[q] = job[q]
ReadyKept == \A a \in Known : acct'[a].ready = acct[a].ready
Quiet == /\ UNCHANGED accounts /\ ReadyKept
         /\ UNCHANGED <<pc, job>> \/ \E p \in Procs : Moved(p)

\* configured only grows (ReloadKeys appends, nothing removes).
LEMMA KnownGrows ==
    ASSUME PoolAssumption, TypeOK, [Next]_vars
    PROVE  Known \subseteq Known'
<1>1. ASSUME NEW p \in Procs, ReloadPlan(p)
      PROVE  Known \subseteq Known'
    <2>1. PICK new \in Ascending(Desired(job[p].snap) \ Known) : configured' = configured \o new
        BY <1>1 DEF ReloadPlan
    <2>2. new \in Seq(Ids)
        BY <2>1, AscendingIsSeq DEF Desired
    <2>. QED
        BY <2>1, <2>2, RangeConcatenation DEF TypeOK, Known
<1>2. CASE UNCHANGED configured
    BY <1>2 DEF Known
<1>3. (\E p \in Procs : ReloadPlan(p)) \/ UNCHANGED configured
    <2>1. ASSUME NEW p \in Procs, Initialize(p)
          PROVE  UNCHANGED configured
        BY <2>1 DEF Initialize, lists, initializationSnapshot, applyInitialization, AttemptFails,
           InitializationFailed, addReadyRelease, addReadySwap, addReadyAppend, claimInit,
           claimLoad, claimSwap
    <2>2. ASSUME NEW p \in Procs, SetEnabledReason(p)
          PROVE  UNCHANGED configured
        BY <2>2 DEF SetEnabledReason, lists, EnableClaim, EnableRollback, EnableRollbackRow,
           EnablePersist, EnableApply, StoreFirst, DisableRow, DeleteRow, DisableApply
    <2>3. CASE \/ UNCHANGED vars \/ Surroundings \/ WarmNext \/ WarmBatchDone \/ WarmReturn
               \/ \E p \in Workers : \/ Lock(p) \/ Unlock(p) \/ Remove(p) \/ RemoveRow(p)
                                      \/ \E op \in Ops, a \in Ids \cup {0} : Call(p, op, a)
        BY <2>3 DEF vars, lists, Surroundings, CreateAccount, RotateKey, WarmNext, WarmBatchDone,
           WarmReturn, Lock, Unlock, Remove, RemoveRow, Call
    <2>4. ASSUME NEW p \in Procs, Reload(p)
          PROVE  (\E q \in Procs : ReloadPlan(q)) \/ UNCHANGED configured
        BY <2>4 DEF Reload, lists, installCandidate, installInitialized, InstallChanged,
           ChangedDone, ReloadDone
    <2>. QED
        BY <2>1, <2>2, <2>3, <2>4 DEF Next, Warm, Work, Procs
<1>. QED
    BY <1>1, <1>2, <1>3

\* Steps that do not lead to the append.
LEMMA GotoMoved ==
    ASSUME TypeOK, NEW p \in Procs, NEW l, l # "append", Goto(p, l), UNCHANGED job
    PROVE  Moved(p)
BY DEF TypeOK, Goto, Moved

\* The same with new local variables.
LEMMA StepMoved ==
    ASSUME TypeOK, NEW p \in Procs, NEW l, l # "append", NEW j, Step(p, l, j)
    PROVE  Moved(p)
<1>1. /\ pc' = [pc EXCEPT ![p] = l] /\ pc \in [Procs -> Label]
      /\ job' = [job EXCEPT ![p] = j] /\ job \in [Procs -> Job]
    BY DEF TypeOK, Step, Goto
<1>. QED
    BY <1>1 DEF Moved

\* Changing one account without its ready flag.
LEMMA BecomeReady ==
    ASSUME TypeOK, NEW a \in Ids, NEW r, r.ready = acct[a].ready, Become(a, r)
    PROVE  ReadyKept
BY KnownAreIds DEF TypeOK, Become, ReadyKept

\* The plan keeps the ready flag of every known account.
LEMMA PlannedReady ==
    ASSUME TypeOK, NEW snap \in [Ids -> Row], NEW a \in Known
    PROVE  Planned(a, snap).ready = acct[a].ready
<1>1. a \in Ids /\ acct[a] \in Account
    BY KnownAreIds DEF TypeOK
<1>. QED
    BY <1>1 DEF Planned, Account

\* Fields other than ready leave it alone.
LEMMA ReadyFields ==
    ASSUME NEW r \in Account, NEW b
    PROVE  [r EXCEPT !.initing = b].ready = r.ready /\ [r EXCEPT !.ready = TRUE].ready
BY DEF Account

(***************************************************************************)
(* Every step but the two halves of addReady is quiet about slots.         *)
(***************************************************************************)
LEMMA SlotStep ==
    ASSUME PoolAssumption, TypeOK, Located, [Next]_vars
    PROVE  \/ Quiet
           \/ \E p \in Procs : addReadySwap(p) \/ addReadyAppend(p)
<1>1. CASE CreateAccount \/ (\E a \in Ids : RotateKey(a)) \/ UNCHANGED vars
    BY <1>1 DEF CreateAccount, RotateKey, vars, lists, Quiet, ReadyKept
<1>2. ASSUME NEW p \in Procs,
             \/ p \in Workers /\ \E op \in Ops, a \in Ids \cup {0} : Call(p, op, a)
             \/ Lock(p) \/ initializationSnapshot(p) \/ AttemptFails(p)
             \/ ChangedDone(p) \/ ReloadDone(p)
             \/ EnableRollbackRow(p) \/ DisableRow(p) \/ DeleteRow(p)
             \/ claimInit(p) \/ claimLoad(p) \/ EnableClaim(p)
             \/ p = Warmer /\ (WarmNext \/ WarmBatchDone \/ WarmReturn)
      PROVE  Quiet
    <2>1. UNCHANGED <<acct, accounts>>
        BY <1>2 DEF Call, Lock, initializationSnapshot, AttemptFails, ChangedDone, ReloadDone,
             EnableRollbackRow, DisableRow, DeleteRow, StoreFirst, claimInit, claimLoad,
             EnableClaim, WarmNext, WarmBatchDone, WarmReturn, lists
    <2>2. CASE Lock(p)
        <3>1. pc[p] = "lock"
            BY <2>2 DEF Lock, At
        <3>2. job[p].op # "append"
            BY <3>1 DEF Located, Op
        <3>. QED
            BY <2>2, <3>2, GotoMoved, StepMoved, <2>1 DEF Lock, Quiet, ReadyKept
    <2>3. CASE ~Lock(p)
        <3>1. \/ \E l \in Label \ {"append"} : \E j : Step(p, l, j)
              \/ \E l \in Label \ {"append"} : Goto(p, l) /\ UNCHANGED job
            BY <1>2, <2>3 DEF Call, initializationSnapshot, AttemptFails, ChangedDone,
                 ReloadDone, EnableRollbackRow, DisableRow, DeleteRow, StoreFirst, claimInit,
                 claimLoad, EnableClaim, Resume, WarmNext, WarmBatchDone, WarmReturn, Label
        <3>. QED
            BY <2>1, <3>1, GotoMoved, StepMoved DEF Quiet, ReadyKept
    <2>. QED
        BY <2>2, <2>3
<1>3. ASSUME NEW p \in Procs,
             \/ applyInitialization(p) \/ InitializationFailed(p) \/ addReadyRelease(p)
             \/ claimSwap(p) \/ EnableRollback(p) \/ EnablePersist(p)
             \/ EnableApply(p) \/ DisableApply(p) \/ Remove(p) \/ RemoveRow(p)
             \/ installInitialized(p) \/ InstallChanged(p)
      PROVE  Quiet
    <2>1. pc[p] \in Busy
        BY <1>3 DEF applyInitialization, InitializationFailed, addReadyRelease, claimSwap,
             EnableRollback, EnablePersist, EnableApply, DisableApply, Remove, RemoveRow,
             installInitialized, InstallChanged, At, Busy, Label
    <2>2. job[p].a \in Ids /\ acct[job[p].a] \in Account
        BY <2>1, HeldTypes
    <2>3. /\ UNCHANGED accounts
          /\ \/ UNCHANGED acct
             \/ \E b \in {TRUE, FALSE} :
                  \/ Become(job[p].a, [acct[job[p].a] EXCEPT !.initing = b])
                  \/ Become(job[p].a, [acct[job[p].a] EXCEPT !.disabled = b])
                  \/ Become(job[p].a, [acct[job[p].a] EXCEPT !.removed = b])
             \/ \E b : Become(job[p].a, [acct[job[p].a] EXCEPT !.initialized = b])
             \/ \E b, c : Become(job[p].a, [acct[job[p].a] EXCEPT !.disabled = b, !.removed = c])
             \/ Become(job[p].a, [acct[job[p].a] EXCEPT !.initialized = TRUE,
                                                        !.settings = job[p].key.ver])
        BY <1>3 DEF applyInitialization, InitializationFailed, addReadyRelease, claimSwap,
             EnableRollback, EnablePersist, EnableApply, DisableApply, Remove, RemoveRow,
             installInitialized, InstallChanged, lists
    <2>4. ReadyKept
        <3>. DEFINE a == job[p].a
        <3>1. ASSUME NEW r, Become(a, r), r.ready = acct[a].ready
              PROVE  ReadyKept
            BY <2>2, <3>1, BecomeReady
        <3>. HIDE DEF a
        <3>2. \A b : /\ [acct[a] EXCEPT !.initing = b].ready = acct[a].ready
                     /\ [acct[a] EXCEPT !.disabled = b].ready = acct[a].ready
                     /\ [acct[a] EXCEPT !.removed = b].ready = acct[a].ready
                     /\ [acct[a] EXCEPT !.initialized = b].ready = acct[a].ready
                     /\ \A c : [acct[a] EXCEPT !.disabled = b, !.removed = c].ready
                               = acct[a].ready
                     /\ \A n : [acct[a] EXCEPT !.initialized = b, !.settings = n].ready
                               = acct[a].ready
            BY <2>2 DEF Account, a
        <3>. QED
            BY <2>3, <3>1, <3>2, Zenon DEF ReadyKept, a
    <2>5. \/ \E l \in {"ok", "unlock", "rollback", "adding", "init", "persist", "unrow",
                       "enabled", "removing", "flags", "changed", Proceed(job[p]),
                       Resume(job[p])} :
                Goto(p, l) /\ UNCHANGED job
          \/ \E j : Step(p, "init", j)
        BY <1>3 DEF applyInitialization, InitializationFailed, addReadyRelease, claimSwap,
             EnableRollback, EnablePersist, EnableApply, DisableApply, Remove, RemoveRow,
             installInitialized, InstallChanged
    <2>6. Moved(p)
        BY <2>5, ResumeType, ProceedType, GotoMoved, StepMoved
    <2>. QED
        BY <2>3, <2>4, <2>6 DEF Quiet
<1>4. ASSUME NEW p \in Procs, Unlock(p)
      PROVE  Quiet
    <2>1. CASE job[p].claimed
        <3>1. job[p].a \in Ids /\ acct[job[p].a] \in Account
            BY <2>1, HeldTypes
        <3>2. Become(job[p].a, [acct[job[p].a] EXCEPT !.initing = FALSE])
            BY <1>4, <2>1 DEF Unlock, Become
        <3>. QED
            BY <1>4, <3>1, <3>2, ReadyFields, BecomeReady, StepMoved DEF Unlock, lists, Quiet
    <2>2. CASE ~job[p].claimed
        BY <1>4, <2>2, StepMoved DEF Unlock, lists, Quiet, ReadyKept
    <2>. QED
        BY <2>1, <2>2
<1>6. ASSUME NEW p \in Procs, ReloadPlan(p)
      PROVE  Quiet
    <2>1. job[p].snap \in [Ids -> Row]
        BY HeldTypes DEF Job
    <2>2. /\ acct' = [a \in Ids |-> Planned(a, job[p].snap)]
          /\ \E j : Step(p, "changed", j)
          /\ UNCHANGED accounts
        BY <1>6 DEF ReloadPlan
    <2>3. ReadyKept
        BY <2>1, <2>2, PlannedReady, KnownAreIds DEF ReadyKept
    <2>. QED
        BY <2>2, <2>3, StepMoved DEF Quiet
<1>7. ASSUME NEW p \in Procs, installCandidate(p)
      PROVE  Quiet
    <2>. DEFINE a == Min(job[p].chg)
                k == KeyOf(job[p].snap[a])
                n(ok) == IF ok THEN job[p].snap[a].ver ELSE -1
    <2>1. job[p] \in Job /\ job[p].chg \subseteq Ids
        BY HeldTypes DEF Job
    <2>2. a \in Ids
        BY <1>7, <2>1, MinIsMember DEF installCandidate
    <2>3. PICK ok \in {TRUE, FALSE} :
            /\ Become(a, [acct[a] EXCEPT !.key = k, !.settings = n(ok)])
            /\ \E j : Step(p, "installed", j)
        BY <1>7 DEF installCandidate
    <2>4. UNCHANGED accounts
        BY <1>7 DEF installCandidate, lists
    <2>. HIDE DEF a, k, n
    <2>5. acct[a] \in Account
        BY <2>2 DEF TypeOK
    <2>6. [acct[a] EXCEPT !.key = k, !.settings = n(ok)].ready = acct[a].ready
        BY <2>5 DEF Account
    <2>7. ReadyKept
        BY <2>2, <2>3, <2>6, BecomeReady
    <2>. QED
        BY <2>3, <2>4, <2>7, StepMoved DEF Quiet
<1>8. Warmer \in Procs /\ Workers \subseteq Procs
    BY DEF Procs
<1>. QED
    BY <1>1, <1>2, <1>3, <1>4, <1>6, <1>7, <1>8
    DEF Next, Surroundings, Warm, Work, Initialize, Reload, SetEnabledReason

\* What a step may do to the slots, and to who is about to append.
LEMMA SwapStep ==
    ASSUME PoolAssumption, TypeOK, Located, NEW p \in Procs, addReadySwap(p)
    PROVE  /\ UNCHANGED accounts
           /\ \/ Quiet
              \/ /\ ~acct[job[p].a].ready /\ acct'[job[p].a].ready
                 /\ \A b \in Ids : acct[b].ready => acct'[b].ready
                 /\ pc'[p] = "append" /\ UNCHANGED job
                 /\ \A q \in Procs \ {p} : pc'[q] = pc[q]
<1>. DEFINE a == job[p].a
<1>1. pc[p] \in Busy
    BY DEF addReadySwap, At, Busy, Label
<1>2. a \in Ids /\ acct[a] \in Account /\ acct \in [Ids -> Account]
    BY <1>1, HeldTypes DEF TypeOK
<1>3. UNCHANGED <<accounts, job>>
    BY DEF addReadySwap, lists
<1>4. CASE joins(a)
    <2>1. Become(a, [acct[a] EXCEPT !.ready = TRUE]) /\ Goto(p, "append") /\ ~acct[a].ready
        BY <1>4 DEF addReadySwap, joins
    <2>. HIDE DEF a
    <2>2. [acct[a] EXCEPT !.ready = TRUE].ready
        BY <1>2, ReadyFields
    <2>3. acct'[a].ready /\ \A b \in Ids \ {a} : acct'[b] = acct[b]
        BY <1>2, <2>1, <2>2 DEF Become
    <2>4. pc'[p] = "append" /\ \A q \in Procs \ {p} : pc'[q] = pc[q]
        BY <2>1 DEF Goto, TypeOK
    <2>. QED
        BY <1>3, <2>1, <2>3, <2>4 DEF a
<1>5. CASE ~joins(a)
    <2>1. Goto(p, Resume(job[p])) /\ UNCHANGED acct
        BY <1>5 DEF addReadySwap
    <2>. QED
        BY <1>3, <2>1, ResumeType, GotoMoved DEF Quiet, ReadyKept
<1>. QED
    BY <1>4, <1>5

\* The append of addReady.
LEMMA AppendStep ==
    ASSUME TypeOK, Located, NEW p \in Procs, addReadyAppend(p)
    PROVE  /\ Appending(p) /\ job[p].a \in Known /\ Moved(p) /\ UNCHANGED <<acct, configured>>
           /\ accounts' = Append(accounts, job[p].a)
           /\ Len(accounts') = Len(accounts) + 1
           /\ \A i \in 1..Len(accounts) : accounts'[i] = accounts[i]
           /\ accounts'[Len(accounts) + 1] = job[p].a
           /\ Slots' = Slots \cup {job[p].a}
<1>1. /\ Appending(p) /\ accounts' = Append(accounts, job[p].a)
      /\ UNCHANGED <<acct, configured, job>> /\ Goto(p, Resume(job[p]))
    BY DEF addReadyAppend, At, Appending
<1>2. Moved(p)
    BY <1>1, ResumeType, GotoMoved
<1>3. job[p].a \in Known /\ job[p].a \in Ids
    BY <1>1, KnownAreIds DEF Appending, Located, Busy, Label
<1>4. accounts \in Seq(Ids)
    BY DEF TypeOK
<1>5. /\ accounts' \in Seq(Ids) /\ Len(accounts') = Len(accounts) + 1
      /\ \A i \in 1..Len(accounts) : accounts'[i] = accounts[i]
      /\ accounts'[Len(accounts) + 1] = job[p].a
    BY <1>1, <1>3, <1>4, AppendProperties
<1>6. Slots' = Slots \cup {job[p].a}
    <2>1. /\ Range(accounts) = {accounts[i] : i \in 1..Len(accounts)}
          /\ Range(accounts') = {accounts'[i] : i \in 1..Len(accounts')}
        BY <1>4, <1>5, RangeEquality
    <2>2. Len(accounts) \in Nat
        BY <1>4
    <2>. QED
        BY <1>5, <2>1, <2>2 DEF Slots
<1>. QED
    BY <1>1, <1>2, <1>3, <1>5, <1>6

\* Every step keeps the slot invariant.
LEMMA SlotInvariant ==
    ASSUME PoolAssumption, TypeOK, Located, SlotInv, [Next]_vars
    PROVE  SlotInv'
<1>1. \A p \in Procs : Appending(p) => job[p].a \in Known
    BY DEF Located, Appending, Busy, Label
<1>2. Known \subseteq Known' /\ Known \subseteq Ids
    BY KnownGrows, KnownAreIds
<1>3. CASE Quiet
    <2>1. Slots' = Slots /\ (OneSlotEach => OneSlotEach')
        BY <1>3 DEF Quiet, Slots, OneSlotEach
    <2>2. \A p \in Procs : Appending(p)' => Appending(p) /\ job'[p].a = job[p].a
        BY <1>3 DEF Quiet, Moved, Appending
    <2>3. \A a \in Known : acct'[a].ready = acct[a].ready
        BY <1>3 DEF Quiet, ReadyKept
    <2>. QED
        BY <1>1, <1>2, <2>1, <2>2, <2>3 DEF SlotInv
<1>4. ASSUME NEW p \in Procs, addReadySwap(p), ~Quiet
      PROVE  SlotInv'
    <2>1. /\ UNCHANGED <<accounts, job>>
          /\ ~acct[job[p].a].ready /\ acct'[job[p].a].ready
          /\ \A b \in Ids : acct[b].ready => acct'[b].ready
          /\ \A q \in Procs \ {p} : pc'[q] = pc[q]
        BY <1>4, SwapStep
    <2>2. Slots' = Slots /\ (OneSlotEach => OneSlotEach')
        BY <2>1 DEF Slots, OneSlotEach
    <2>3. job[p].a \notin Slots /\ \A q \in Procs : Appending(q) => job[q].a # job[p].a
        BY <2>1 DEF SlotInv
    <2>4. \A q \in Procs \ {p} : Appending(q)' <=> Appending(q)
        BY <2>1 DEF Appending
    <2>. QED
        BY <1>1, <1>2, <2>1, <2>2, <2>3, <2>4 DEF SlotInv
<1>5. ASSUME NEW p \in Procs, addReadyAppend(p)
      PROVE  SlotInv'
    <2>1. /\ Appending(p) /\ job[p].a \in Known /\ Moved(p) /\ UNCHANGED <<acct, configured>>
          /\ Len(accounts') = Len(accounts) + 1
          /\ \A i \in 1..Len(accounts) : accounts'[i] = accounts[i]
          /\ accounts'[Len(accounts) + 1] = job[p].a
          /\ Slots' = Slots \cup {job[p].a}
        BY <1>5, AppendStep
    <2>2. ~Appending(p)' /\ \A q \in Procs \ {p} : (Appending(q)' <=> Appending(q))
                                                  /\ job'[q] = job[q]
        BY <2>1 DEF Moved, Appending
    <2>3. job[p].a \notin Slots /\ Len(accounts) \in Nat
        BY <2>1 DEF SlotInv, TypeOK
    <2>4. \A i \in 1..Len(accounts) : accounts[i] \in Slots
        BY RangeEquality DEF TypeOK, Slots
    <2>5. OneSlotEach'
        <3>. SUFFICES ASSUME NEW i \in 1..Len(accounts) + 1, NEW j \in 1..Len(accounts) + 1,
                             accounts'[i] = accounts'[j]
                      PROVE  i = j
            BY <2>1 DEF OneSlotEach
        <3>1. CASE i \in 1..Len(accounts) /\ j \in 1..Len(accounts)
            BY <2>1, <3>1 DEF SlotInv, OneSlotEach
        <3>2. CASE i = Len(accounts) + 1 \/ j = Len(accounts) + 1
            BY <2>1, <2>3, <2>4, <3>2
        <3>. QED
            BY <2>3, <3>1, <3>2
    <2>6. \A a \in Slots' : (a \in Known)' /\ acct'[a].ready
        BY <1>2, <2>1 DEF SlotInv
    <2>7. \A q \in Procs : Appending(q)' => /\ job'[q].a \notin Slots'
                                            /\ acct'[job'[q].a].ready
        BY <2>1, <2>2 DEF SlotInv
    <2>8. \A q, r \in Procs : Appending(q)' /\ Appending(r)' /\ q # r => job'[q].a # job'[r].a
        BY <2>2 DEF SlotInv
    <2>. QED
        BY <2>5, <2>6, <2>7, <2>8 DEF SlotInv
<1>. QED
    BY <1>3, <1>4, <1>5, SlotStep

\* It holds after New.
LEMMA SlotInit == PoolAssumption /\ Init => SlotInv
<1>. SUFFICES ASSUME PoolAssumption, Init
              PROVE  SlotInv
    OBVIOUS
<1>1. PICK ok \in SUBSET (1..BootCount), end \in 0..BootCount :
        /\ acct = [a \in Ids |->
                     [newAccount(row[a]) EXCEPT
                        !.initialized = a \in ok, !.ready = a \in ok,
                        !.settings = IF a \in ok THEN 0 ELSE -1]]
        /\ accounts \in Ascending(ok)
    BY DEF Init
<1>2. ok \subseteq Ids
    BY DEF PoolAssumption, Ids
<1>3. OneSlotEach /\ Slots = ok
    BY <1>1, <1>2, AscendingIsSeq, AscendingRange DEF OneSlotEach, Slots
<1>4. \A a \in ok : acct[a].ready
    BY <1>1, <1>2 DEF newAccount
<1>5. Known = 1..BootCount
    <2>1. configured = [i \in 1..BootCount |-> i]
        BY DEF Init
    <2>. QED
        BY <2>1 DEF Known, Range
<1>6. \A p \in Procs : ~Appending(p)
    BY DEF Init, Appending
<1>. QED
    BY <1>3, <1>4, <1>5, <1>6 DEF SlotInv

\* The inductive invariant.
PoolInv == TypeOK /\ Located /\ SlotInv

\* The inductive invariant holds after New.
LEMMA PoolInit == Init => PoolInv
<1>1. ASSUME Init
      PROVE  Located
    <2>1. pc = [p \in Procs |-> "idle"] /\ job = [p \in Procs |-> NoJob]
        BY <1>1 DEF Init
    <2>. QED
        BY <2>1 DEF Located, Busy, NoJob
<1>. QED
    BY <1>1, PoolAssumption, InitType, SlotInit DEF PoolInv

\* It holds always.
LEMMA PoolInvariant == Spec => []PoolInv
<1>1. Init => PoolInv
    BY PoolInit
<1>2. PoolInv /\ [Next]_vars => PoolInv'
    BY PoolAssumption, StepType, LocatedInvariant, SlotInvariant DEF PoolInv
<1>. QED
    BY <1>1, <1>2, PTL DEF Spec

(***************************************************************************)
(* Type correctness of the pool: in particular no initialization is ever   *)
(* tried more than WarmAttempts times (initializeAccountWithRetry).        *)
(***************************************************************************)
THEOREM TypeCorrect == Spec => []TypeOK
<1>1. PoolInv => TypeOK
    BY DEF PoolInv
<1>. QED
    BY <1>1, PoolInvariant, PTL

(***************************************************************************)
(* No account is ever given two slots, whichever of Warm, ReloadKeys,      *)
(* SetEnabled and Refresh bring it to addReady, and in whatever order.     *)
(***************************************************************************)
THEOREM OneSlotForEach == Spec => []OneSlotEach
<1>1. PoolInv => OneSlotEach
    BY DEF PoolInv, SlotInv
<1>. QED
    BY <1>1, PoolInvariant, PTL

(***************************************************************************)
(* The pool implements Roster, the contract conversations rely on.         *)
(***************************************************************************)
THEOREM PoolImplementsRoster == Spec => ImplementsRoster
<1>1. PoolInv => R!RosterInit
    BY DEF PoolInv, SlotInv, TypeOK, OneSlotEach, R!RosterInit
<1>2. ASSUME PoolInv, [Next]_vars
      PROVE  [R!RosterNext]_(R!roster)
    <2>1. CASE UNCHANGED accounts
        BY <2>1 DEF R!RosterNext, R!Reflag
    <2>2. ASSUME NEW p \in Procs, addReadyAppend(p)
          PROVE  R!RosterNext
        <3>1. /\ job[p].a \in Known /\ UNCHANGED acct
              /\ accounts' = Append(accounts, job[p].a) /\ Appending(p)
            BY <1>2, <2>2, AppendStep DEF PoolInv
        <3>2. job[p].a \in Ids /\ job[p].a \notin Slots
            BY <1>2, <3>1, KnownAreIds DEF PoolInv, SlotInv
        <3>3. R!Assign(job[p].a)
            BY <3>1, <3>2 DEF R!Assign, R!Range, Range, Slots
        <3>. QED
            BY <3>2, <3>3 DEF R!RosterNext
    <2>3. UNCHANGED accounts \/ \E p \in Procs : addReadyAppend(p)
        BY <1>2, PoolAssumption, SlotStep, SwapStep DEF PoolInv, Quiet
    <2>. QED
        BY <2>1, <2>2, <2>3
<1>. QED
    BY <1>1, <1>2, PoolInit, PoolInvariant, PTL DEF Spec, ImplementsRoster, R!RosterSpec

(***************************************************************************)
(* What the actions' helpers do to one goroutine and one account.          *)
(***************************************************************************)
\* Everybody but p stays where it is.
Alone(p) == \A q \in Procs \ {p} : pc'[q] = pc[q] /\ job'[q] = job[q]

LEMMA GotoAlone ==
    ASSUME TypeOK, NEW p \in Procs, NEW l, Goto(p, l), UNCHANGED job
    PROVE  pc'[p] = l /\ Alone(p)
BY DEF TypeOK, Goto, Alone

LEMMA StepAlone ==
    ASSUME TypeOK, NEW p \in Procs, NEW l, NEW j, Step(p, l, j)
    PROVE  pc'[p] = l /\ job'[p] = j /\ Alone(p)
<1>1. /\ pc' = [pc EXCEPT ![p] = l] /\ pc \in [Procs -> Label]
      /\ job' = [job EXCEPT ![p] = j] /\ job \in [Procs -> Job]
    BY DEF TypeOK, Step, Goto
<1>. QED
    BY <1>1 DEF Alone

LEMMA BecomeOne ==
    ASSUME TypeOK, NEW a \in Ids, NEW r, Become(a, r)
    PROVE  acct'[a] = r /\ \A b \in Ids \ {a} : acct'[b] = acct[b]
BY DEF TypeOK, Become

\* Every action of a goroutine moves that goroutine alone.
LEMMA WorkAlone ==
    ASSUME TypeOK, NEW p \in Procs,
           \/ Work(p) \/ (p = Warmer /\ Warm)
           \/ \E op \in Ops, a \in Ids \cup {0} : Call(p, op, a)
    PROVE  Alone(p)
<1>1. CASE Initialize(p)
    <2>1. \/ \E l : Goto(p, l) /\ UNCHANGED job
          \/ \E l, j : Step(p, l, j)
        BY <1>1 DEF Initialize, initializationSnapshot, applyInitialization, AttemptFails,
           InitializationFailed, addReadyRelease, addReadySwap, addReadyAppend, claimInit,
           claimLoad, claimSwap
    <2>. QED
        BY <2>1, GotoAlone, StepAlone
<1>2. CASE Reload(p)
    <2>1. \/ \E l : Goto(p, l) /\ UNCHANGED job
          \/ \E l, j : Step(p, l, j)
        BY <1>2 DEF Reload, ReloadPlan, ChangedDone, ReloadDone, installCandidate,
           installInitialized, InstallChanged
    <2>. QED
        BY <2>1, GotoAlone, StepAlone
<1>3. CASE SetEnabledReason(p) \/ Remove(p) \/ RemoveRow(p)
    <2>1. \E l : Goto(p, l) /\ UNCHANGED job
        BY <1>3 DEF SetEnabledReason, EnableClaim, EnableRollback, EnableRollbackRow,
           EnablePersist, EnableApply, DisableRow, DeleteRow, StoreFirst, DisableApply, Remove,
           RemoveRow
    <2>. QED
        BY <2>1, GotoAlone
<1>4. CASE \/ Lock(p) \/ Unlock(p)
           \/ p = Warmer /\ (WarmNext \/ WarmBatchDone \/ WarmReturn)
           \/ \E op \in Ops, a \in Ids \cup {0} : Call(p, op, a)
    <2>1. \/ \E l : Goto(p, l) /\ UNCHANGED job
          \/ \E l, j : Step(p, l, j)
        BY <1>4 DEF Lock, Unlock, WarmNext, WarmBatchDone, WarmReturn, Call
    <2>. QED
        BY <2>1, GotoAlone, StepAlone
<1>. QED
    BY <1>1, <1>2, <1>3, <1>4 DEF Work, Warm

(***************************************************************************)
(* The settings of an initialized account are those of its key.  ReloadKeys*)
(* installs key and settings before it stores initialized, so the invariant*)
(* says what is known in between: the account is removed, and nobody but   *)
(* the holder of reconcileMu, who is busy with it, takes that back.        *)
(***************************************************************************)
Installs == {"changed", "installed", "flags", "ok", "adding", "append"}
Held(p) ==
    /\ pc[p] \notin {"idle", "lock"} => holder = p
    /\ pc[p] = "plan" => job[p].op = "reload"
    /\ job[p].chg # {} => job[p].op = "reload" /\ pc[p] \in Installs
    /\ pc[p] \in {"installed", "flags"} => job[p].a \notin job[p].chg
    /\ \A b \in job[p].chg : acct[b].removed
    /\ pc[p] = "installed" => /\ acct[job[p].a].removed
                              /\ job[p].fresh => acct[job[p].a].settings = acct[job[p].a].key.ver

Sound(r) == r.initialized => r.settings = r.key.ver
Fits(a) == Sound(acct[a]) \/ (acct[a].settings = -1 /\ Installing(a))
KeyInv == (\A p \in Workers : Held(p)) /\ (\A a \in Ids : Fits(a))

SameKey(r, s) == r.initialized = s.initialized /\ r.settings = s.settings /\ r.key = s.key
\* Nobody leaves the section between the two stores of installCandidate.
Stay == \A q \in Workers : pc[q] = "installed" => pc'[q] = "installed" /\ job'[q].a = job[q].a

\* Changing one account to a sound one, or leaving its key alone.
LEMMA BecomeFits ==
    ASSUME TypeOK, \A b \in Ids : Fits(b), NEW a \in Ids, NEW r, Become(a, r),
           Sound(r) \/ SameKey(r, acct[a]), Stay
    PROVE  \A b \in Ids : Fits(b)'
<1>1. \A b : Installing(b) => Installing(b)'
    BY DEF Stay, Installing, At
<1>2. acct'[a] = r /\ \A b \in Ids \ {a} : acct'[b] = acct[b]
    BY BecomeOne
<1>. QED
    BY <1>1, <1>2 DEF Fits, Sound, SameKey

\* Changing none.
LEMMA SameFits ==
    ASSUME \A b \in Ids : Fits(b), UNCHANGED acct, Stay
    PROVE  \A b \in Ids : Fits(b)'
<1>1. \A b : Installing(b) => Installing(b)'
    BY DEF Stay, Installing, At
<1>. QED
    BY <1>1 DEF Fits, Sound

\* The updates that leave the key, the settings and initialized alone.
LEMMA SameKeyFields ==
    ASSUME NEW r \in Account, NEW b, NEW c
    PROVE  /\ SameKey([r EXCEPT !.initing = b], r) /\ SameKey([r EXCEPT !.ready = b], r)
           /\ SameKey([r EXCEPT !.disabled = b], r) /\ SameKey([r EXCEPT !.removed = b], r)
           /\ SameKey([r EXCEPT !.disabled = b, !.removed = c], r)
BY DEF Account, SameKey

\* Whoever is not between the two stores moves without disturbing who is.
LEMMA AloneStays ==
    ASSUME NEW p \in Procs, Alone(p), p \in Workers => pc[p] # "installed"
    PROVE  Stay
BY DEF Alone, Stay, Procs

\* Steps that take no account out of removed and set no settings but with
\* the key they belong to.
Mild == \A b \in Ids :
    /\ acct[b].removed => acct'[b].removed
    /\ acct[b].settings = acct[b].key.ver => acct'[b].settings = acct'[b].key.ver

\* What Held says of the others: they wait for reconcileMu, or the step is mild.
LEMMA HeldOthers ==
    ASSUME PoolAssumption, TypeOK, Located, \A q \in Workers : Held(q), NEW p \in Procs, Alone(p),
           holder \in {p, Nobody} \/ (UNCHANGED holder /\ Mild)
    PROVE  \A q \in Workers \ {p} : Held(q)'
<1>. SUFFICES ASSUME NEW q \in Workers \ {p}
              PROVE  Held(q)'
    OBVIOUS
<1>1. pc'[q] = pc[q] /\ job'[q] = job[q] /\ Held(q) /\ q # Nobody /\ q \in Procs
    BY DEF Alone, Procs, PoolAssumption
<1>2. CASE pc[q] \in {"idle", "lock"}
    BY <1>1, <1>2 DEF Held, Installs
<1>3. CASE pc[q] \notin {"idle", "lock"}
    <2>1. holder = q /\ UNCHANGED holder /\ Mild
        BY <1>1, <1>3 DEF Held
    <2>2. job[q].chg \subseteq Ids /\ (pc[q] = "installed" => job[q].a \in Ids)
        BY <1>1, HeldTypes DEF Job, Busy, Label
    <2>3. /\ \A b \in job[q].chg : acct'[b].removed
          /\ pc[q] = "installed" => /\ acct'[job[q].a].removed
                                    /\ job[q].fresh => acct'[job[q].a].settings
                                                       = acct'[job[q].a].key.ver
        BY <1>1, <2>1, <2>2 DEF Held, Mild
    <2>. QED
        BY <1>1, <2>1, <2>3 DEF Held
<1>. QED
    BY <1>2, <1>3

\* The goroutine that moves, when it has no changed accounts left.
LEMMA HeldIdle ==
    ASSUME NEW p, job'[p].chg = {}, pc'[p] \notin {"plan", "installed", "flags"},
           pc'[p] \in {"idle", "lock"} \/ holder' = p
    PROVE  Held(p)'
BY DEF Held

\* One update of a record's fields keeps removed, or sets settings with the key.
LEMMA MildFields ==
    ASSUME TypeOK, NEW a \in Ids, NEW r, Become(a, r),
           acct[a].removed => r.removed,
           acct[a].settings = acct[a].key.ver => r.settings = r.key.ver
    PROVE  Mild
<1>1. acct'[a] = r /\ \A b \in Ids \ {a} : acct'[b] = acct[b]
    BY BecomeOne
<1>. QED
    BY <1>1 DEF Mild

\* An initialization changes one account, and mildly.
LEMMA InitializeMild ==
    ASSUME PoolAssumption, TypeOK, Located, NEW p \in Procs, Initialize(p)
    PROVE  Mild
<1>1. CASE \/ initializationSnapshot(p) \/ AttemptFails(p) \/ addReadyAppend(p)
           \/ claimInit(p) \/ claimLoad(p)
    BY <1>1 DEF initializationSnapshot, AttemptFails, addReadyAppend, claimInit, claimLoad, Mild
<1>2. CASE \/ applyInitialization(p) \/ InitializationFailed(p) \/ addReadyRelease(p)
           \/ addReadySwap(p) \/ claimSwap(p)
    <2>. DEFINE a == job[p].a
    <2>1. pc[p] \in Busy
        BY <1>2 DEF applyInitialization, InitializationFailed, addReadyRelease, addReadySwap,
           claimSwap, At, Busy, Label
    <2>2. a \in Ids /\ acct[a] \in Account
        BY <2>1, HeldTypes
    <2>3. \/ UNCHANGED acct
          \/ Become(a, [acct[a] EXCEPT !.initing = TRUE])
          \/ Become(a, [acct[a] EXCEPT !.initing = FALSE])
          \/ Become(a, [acct[a] EXCEPT !.ready = TRUE])
          \/ /\ acct[a].key = job[p].key
             /\ Become(a, [acct[a] EXCEPT !.initialized = TRUE, !.settings = job[p].key.ver])
        BY <1>2 DEF applyInitialization, InitializationFailed, addReadyRelease, addReadySwap,
           claimSwap
    <2>. HIDE DEF a
    <2>4. CASE UNCHANGED acct
        BY <2>4 DEF Mild
    <2>5. ASSUME NEW b, \/ Become(a, [acct[a] EXCEPT !.initing = b])
                        \/ Become(a, [acct[a] EXCEPT !.ready = b])
          PROVE  Mild
        <3>1. /\ [acct[a] EXCEPT !.initing = b].removed = acct[a].removed
              /\ [acct[a] EXCEPT !.initing = b].settings = acct[a].settings
              /\ [acct[a] EXCEPT !.initing = b].key = acct[a].key
              /\ [acct[a] EXCEPT !.ready = b].removed = acct[a].removed
              /\ [acct[a] EXCEPT !.ready = b].settings = acct[a].settings
              /\ [acct[a] EXCEPT !.ready = b].key = acct[a].key
            BY <2>2 DEF Account
        <3>. QED
            BY <2>2, <2>5, <3>1, MildFields
    <2>6. ASSUME acct[a].key = job[p].key,
                 Become(a, [acct[a] EXCEPT !.initialized = TRUE, !.settings = job[p].key.ver])
          PROVE  Mild
        <3>. DEFINE n == job[p].key.ver
        <3>1. n = acct[a].key.ver
            BY <2>6
        <3>. HIDE DEF n
        <3>2. /\ [acct[a] EXCEPT !.initialized = TRUE, !.settings = n].removed = acct[a].removed
              /\ [acct[a] EXCEPT !.initialized = TRUE, !.settings = n].settings = n
              /\ [acct[a] EXCEPT !.initialized = TRUE, !.settings = n].key = acct[a].key
            BY <2>2 DEF Account
        <3>. QED
            BY <2>2, <2>6, <3>1, <3>2, MildFields DEF n
    <2>. QED
        BY <2>3, <2>4, <2>5, <2>6
<1>. QED
    BY <1>1, <1>2 DEF Initialize

\* An initialization never takes changed accounts out of their loop.
LEMMA InitializeHeld ==
    ASSUME PoolAssumption, TypeOK, Located, NEW p \in Workers, Held(p), Initialize(p)
    PROVE  Held(p)'
<1>1. p \in Procs /\ job[p] \in Job /\ pc[p] \notin {"idle", "lock"}
    BY HeldTypes DEF Procs, Initialize, initializationSnapshot, applyInitialization, AttemptFails,
       InitializationFailed, addReadyRelease, addReadySwap, addReadyAppend, claimInit, claimLoad,
       claimSwap, At
<1>2. holder = p /\ holder' = p
    BY <1>1 DEF Held, Initialize, initializationSnapshot, applyInitialization, AttemptFails,
       InitializationFailed, addReadyRelease, addReadySwap, addReadyAppend, claimInit, claimLoad,
       claimSwap
<1>3. CASE addReadyRelease(p) \/ addReadySwap(p) \/ addReadyAppend(p)
    <2>1. UNCHANGED job
        BY <1>3 DEF addReadyRelease, addReadySwap, addReadyAppend
    <2>2. PICK l \in {"unlock", "adding", "append", Resume(job[p])} :
            Goto(p, l) /\ (l = "unlock" => job[p].op # "reload")
        BY <1>3 DEF addReadyRelease, addReadySwap, addReadyAppend, Resume
    <2>3. /\ pc'[p] \in {"need", "changed", "unlock", "adding", "append"}
          /\ job[p].op = "reload" => pc'[p] \in Installs
        BY <1>1, <2>2, GotoAlone DEF TypeOK, Goto, Resume, Installs
    <2>4. CASE job[p].chg = {}
        BY <1>2, <2>1, <2>3, <2>4, HeldIdle
    <2>5. CASE job[p].chg # {}
        <3>1. job[p].op = "reload" /\ job[p].chg \subseteq Ids
            BY <1>1, <2>5 DEF Held, Job
        <3>2. \A b \in job[p].chg : acct'[b].removed
            BY <1>1, <3>1, InitializeMild DEF Held, Mild
        <3>. QED
            BY <1>2, <2>1, <2>3, <3>1, <3>2 DEF Held
    <2>. QED
        BY <2>4, <2>5
<1>4. CASE ~(addReadyRelease(p) \/ addReadySwap(p) \/ addReadyAppend(p))
    <2>1. pc[p] \notin Installs
        BY <1>4 DEF Initialize, initializationSnapshot, applyInitialization, AttemptFails,
           InitializationFailed, claimInit, claimLoad, claimSwap, At, Installs
    <2>2. job[p].chg = {}
        BY <2>1 DEF Held
    <2>. DEFINE after == {"need", "removed?", "disabled?", "swap", "init", "apply", "failed",
                          "unlock", "rollback", Proceed(job[p]), Resume(job[p])}
    <2>a. after \cap {"plan", "installed", "flags"} = {}
        BY ResumeType, ProceedType
    <2>. HIDE DEF after
    <2>3. CASE claimInit(p)
        <3>. DEFINE rest == [job[p] EXCEPT !.need = @ \ {Min(job[p].need)}, !.a = Min(job[p].need)]
        <3>1. \E l \in after : Step(p, l, rest)
            BY <2>3 DEF claimInit, after
        <3>2. rest.chg = {}
            BY <1>1, <2>2 DEF Job
        <3>. HIDE DEF rest
        <3>3. pc'[p] \in after /\ job'[p].chg = {}
            BY <1>1, <3>1, <3>2, StepAlone
        <3>. QED
            BY <1>2, <2>a, <3>3, HeldIdle
    <2>4. CASE ~claimInit(p)
        <3>1. \/ \E l \in after : Goto(p, l) /\ UNCHANGED job
              \/ \E n, c : Step(p, "init", [job[p] EXCEPT !.tries = n, !.claimed = c])
              \/ \E n : Step(p, "init", [job[p] EXCEPT !.tries = n])
              \/ \E k : Step(p, "apply", [job[p] EXCEPT !.key = k])
            BY <1>4, <2>4 DEF Initialize, initializationSnapshot, applyInitialization, AttemptFails,
               InitializationFailed, claimLoad, claimSwap, after
        <3>2. /\ \A n, c : [job[p] EXCEPT !.tries = n, !.claimed = c].chg = {}
              /\ \A n : [job[p] EXCEPT !.tries = n].chg = {}
              /\ \A k : [job[p] EXCEPT !.key = k].chg = {}
            BY <1>1, <2>2 DEF Job
        <3>3. "init" \in after /\ "apply" \in after
            BY DEF after
        <3>4. \/ \E l \in after : Goto(p, l) /\ UNCHANGED job
              \/ \E l \in after : \E j : Step(p, l, j) /\ j.chg = {}
            BY <3>1, <3>2, <3>3, Zenon
        <3>5. pc'[p] \in after /\ job'[p].chg = {}
            BY <1>1, <2>2, <3>4, GotoAlone, StepAlone
        <3>. QED
            BY <1>2, <2>a, <3>5, HeldIdle
    <2>. QED
        BY <2>3, <2>4
<1>. QED
    BY <1>3, <1>4

\* Neither do ReloadKeys' own steps: only what is removed is installed.
LEMMA ReloadHeld ==
    ASSUME PoolAssumption, TypeOK, Located, NEW p \in Workers, Held(p), Reload(p)
    PROVE  Held(p)'
<1>. DEFINE j == job[p]
<1>1. p \in Procs /\ j \in Job /\ j.chg \subseteq Ids /\ pc[p] \notin {"idle", "lock"}
    BY HeldTypes DEF Procs, Job, Reload, ReloadPlan, ChangedDone, ReloadDone, installCandidate,
       installInitialized, InstallChanged, At
<1>2. holder = p /\ holder' = p
    BY <1>1 DEF Held, Reload, ReloadPlan, ChangedDone, ReloadDone, installCandidate,
       installInitialized, InstallChanged
<1>3. CASE ReloadPlan(p)
    <2>. DEFINE snap == j.snap
    <2>1. PICK want : Step(p, "changed", [j EXCEPT !.chg = Rotated(snap), !.need = want])
        BY <1>3, Zenon DEF ReloadPlan
    <2>2. acct' = [a \in Ids |-> Planned(a, snap)] /\ pc[p] = "plan"
        BY <1>3 DEF ReloadPlan, At
    <2>3. Rotated(snap) \subseteq Ids \cap Known /\ Rotated(snap) \subseteq Desired(snap)
        BY DEF Rotated, Desired
    <2>4. ASSUME NEW b \in Rotated(snap)
          PROVE  acct'[b].removed
        <3>1. acct[b] \in Account
            BY <2>3 DEF TypeOK
        <3>2. Planned(b, snap).removed
            BY <2>3, <3>1 DEF Planned, Account
        <3>. QED
            BY <2>2, <2>3, <3>2
    <2>. HIDE DEF snap
    <2>5. pc'[p] = "changed" /\ job'[p].chg = Rotated(snap) /\ job'[p].op = j.op
        <3>. DEFINE next == [j EXCEPT !.chg = Rotated(snap), !.need = want]
        <3>1. next.chg = Rotated(snap) /\ next.op = j.op
            BY <1>1 DEF Job
        <3>2. Step(p, "changed", next)
            BY <2>1
        <3>. HIDE DEF next, j
        <3>. QED
            BY <1>1, <3>1, <3>2, StepAlone
    <2>6. j.op = "reload"
        BY <2>2 DEF Held
    <2>. QED
        BY <1>2, <2>4, <2>5, <2>6 DEF Held, Installs
<1>4. CASE ChangedDone(p) \/ ReloadDone(p)
    <2>1. j.chg = {} /\ UNCHANGED acct
        BY <1>4 DEF ChangedDone, ReloadDone, At, Held, Installs
    <2>2. \/ Step(p, "need", [j EXCEPT !.snap = NoSnapshot])
          \/ Goto(p, "unlock") /\ UNCHANGED job
        BY <1>4 DEF ChangedDone, ReloadDone
    <2>3. [j EXCEPT !.snap = NoSnapshot].chg = {}
        BY <1>1, <2>1 DEF Job
    <2>4. pc'[p] \in {"need", "unlock"} /\ job'[p].chg = {}
        BY <1>1, <2>1, <2>2, <2>3, StepAlone, GotoAlone
    <2>. QED
        BY <1>2, <2>4, HeldIdle
<1>5. CASE installCandidate(p)
    <2>. DEFINE a == Min(j.chg)
                k == KeyOf(j.snap[a])
                n(ok) == IF ok THEN j.snap[a].ver ELSE -1
    <2>1. j.chg # {} /\ pc[p] = "changed"
        BY <1>5 DEF installCandidate, At
    <2>2. PICK ok \in {TRUE, FALSE} :
            /\ Become(a, [acct[a] EXCEPT !.key = k, !.settings = n(ok)])
            /\ Step(p, "installed", [j EXCEPT !.chg = @ \ {a}, !.a = a, !.fresh = ok])
        BY <1>5 DEF installCandidate
    <2>3. a \in j.chg /\ a \in Ids
        BY <1>1, <2>1, MinIsMember
    <2>4. ok => n(ok) = k.ver
        BY DEF KeyOf
    <2>. HIDE DEF a, k, n
    <2>5. /\ pc'[p] = "installed" /\ job'[p].chg = j.chg \ {a} /\ job'[p].a = a
          /\ job'[p].fresh = ok /\ job'[p].op = j.op
        <3>. DEFINE next == [j EXCEPT !.chg = @ \ {a}, !.a = a, !.fresh = ok]
        <3>1. next.chg = j.chg \ {a} /\ next.a = a /\ next.fresh = ok /\ next.op = j.op
            BY <1>1 DEF Job
        <3>2. Step(p, "installed", next)
            BY <2>2
        <3>. HIDE DEF next, j
        <3>. QED
            BY <1>1, <3>1, <3>2, StepAlone
    <2>6. acct[a] \in Account /\ \A b \in j.chg : acct[b].removed
        BY <2>3 DEF TypeOK, Held
    <2>7. /\ acct'[a].settings = n(ok) /\ acct'[a].key = k /\ acct'[a].removed
          /\ \A b \in Ids \ {a} : acct'[b] = acct[b]
        <3>1. /\ [acct[a] EXCEPT !.key = k, !.settings = n(ok)].settings = n(ok)
              /\ [acct[a] EXCEPT !.key = k, !.settings = n(ok)].key = k
              /\ [acct[a] EXCEPT !.key = k, !.settings = n(ok)].removed = acct[a].removed
            BY <2>6 DEF Account
        <3>2. acct[a].removed
            BY <2>3, <2>6
        <3>. QED
            BY <2>2, <2>3, <3>1, <3>2, BecomeOne
    <2>8. j.op = "reload"
        BY <2>1 DEF Held
    <2>. QED
        BY <1>1, <1>2, <2>4, <2>5, <2>6, <2>7, <2>8 DEF Held, Installs
<1>6. CASE installInitialized(p) \/ InstallChanged(p)
    <2>. DEFINE a == j.a
    <2>1. pc[p] \in {"installed", "flags"} /\ UNCHANGED job
        BY <1>6 DEF installInitialized, InstallChanged, At
    <2>2. a \in Ids /\ a \notin j.chg /\ \A b \in j.chg : acct[b].removed
        BY <1>1, <2>1, HeldTypes DEF Held, Busy, Label
    <2>3. \E r : Become(a, r)
        BY <1>6 DEF installInitialized, InstallChanged
    <2>4. \A b \in j.chg : acct'[b].removed
        BY <1>1, <2>2, <2>3, BecomeOne
    <2>5. pc'[p] \in {"flags", "ok", "changed"}
        BY <1>1, <1>6, GotoAlone DEF installInitialized, InstallChanged
    <2>. QED
        BY <1>2, <2>1, <2>2, <2>4, <2>5 DEF Held, Installs
<1>. QED
    BY <1>3, <1>4, <1>5, <1>6 DEF Reload

\* Every step keeps Held.
LEMMA HeldInvariant ==
    ASSUME PoolAssumption, TypeOK, Located, \A q \in Workers : Held(q), [Next]_vars
    PROVE  \A q \in Workers : Held(q)'
<1>1. CASE Surroundings \/ UNCHANGED vars
    <2>1. UNCHANGED <<acct, holder, pc, job>>
        BY <1>1 DEF Surroundings, CreateAccount, RotateKey, vars
    <2>. QED
        BY <2>1 DEF Held
<1>2. CASE Warm
    <2>1. UNCHANGED holder /\ Mild
        <3>1. CASE Initialize(Warmer)
            <4>1. Mild
                BY <3>1, InitializeMild DEF Procs
            <4>2. UNCHANGED holder
                BY <3>1 DEF Initialize, initializationSnapshot, applyInitialization, AttemptFails,
                   InitializationFailed, addReadyRelease, addReadySwap, addReadyAppend, claimInit,
                   claimLoad, claimSwap
            <4>. QED
                BY <4>1, <4>2
        <3>2. CASE WarmNext \/ WarmBatchDone \/ WarmReturn
            BY <3>2 DEF WarmNext, WarmBatchDone, WarmReturn, Mild
        <3>. QED
            BY <1>2, <3>1, <3>2 DEF Warm
    <2>2. Warmer \in Procs /\ Warmer \notin Workers /\ Alone(Warmer)
        BY <1>2, WorkAlone DEF Procs, PoolAssumption
    <2>. QED
        BY <2>1, <2>2, HeldOthers
<1>3. ASSUME NEW p \in Workers, NEW op \in Ops, NEW a \in Ids \cup {0}, Call(p, op, a)
      PROVE  \A q \in Workers : Held(q)'
    <2>1. p \in Procs /\ Alone(p)
        BY <1>3, WorkAlone DEF Procs
    <2>2. UNCHANGED holder /\ Mild
        BY <1>3 DEF Call, Mild
    <2>3. pc'[p] = "lock" /\ job'[p].chg = {}
        <3>. DEFINE j == [NoJob EXCEPT !.op = op, !.a = a,
                            !.snap = IF op = "reload" THEN row ELSE NoSnapshot]
        <3>1. Step(p, "lock", j)
            BY <1>3 DEF Call
        <3>2. j.chg = {}
            BY DEF NoJob
        <3>. HIDE DEF j
        <3>. QED
            BY <2>1, <3>1, <3>2, StepAlone
    <2>. QED
        BY <2>1, <2>2, <2>3, HeldOthers, HeldIdle
<1>4. ASSUME NEW p \in Workers, Work(p)
      PROVE  \A q \in Workers : Held(q)'
    <2>1. p \in Procs /\ Alone(p) /\ Held(p) /\ job[p] \in Job
        BY <1>4, WorkAlone DEF Procs, TypeOK
    <2>2. CASE Lock(p)
        <3>1. holder = Nobody /\ pc[p] = "lock"
            BY <2>2 DEF Lock, At
        <3>2. job[p].chg = {} /\ job[p].op \in Op \ {"none", "warm"} /\ NoJob.chg = {}
            BY <2>1, <3>1 DEF Held, Installs, Located, NoJob
        <3>3. \/ holder' = p /\ Goto(p, "plan") /\ UNCHANGED job /\ job[p].op = "reload"
              \/ holder' = p /\ Goto(p, job[p].op) /\ UNCHANGED job /\ job[p].op # "reload"
              \/ Step(p, "idle", NoJob)
            BY <2>2 DEF Lock
        <3>4. CASE holder' = p /\ Goto(p, "plan") /\ UNCHANGED job /\ job[p].op = "reload"
            <4>1. pc'[p] = "plan"
                BY <2>1, <3>4, GotoAlone
            <4>2. Held(p)'
                BY <3>2, <3>4, <4>1 DEF Held
            <4>. QED
                BY <2>1, <3>1, <4>2, HeldOthers
        <3>5. CASE holder' = p /\ Goto(p, job[p].op) /\ UNCHANGED job /\ job[p].op # "reload"
            <4>1. pc'[p] = job[p].op /\ job'[p].chg = {}
                BY <2>1, <3>2, <3>5, GotoAlone
            <4>2. pc'[p] \notin {"plan", "installed", "flags", "idle", "lock"}
                BY <3>2, <4>1 DEF Op
            <4>. QED
                BY <2>1, <3>1, <3>5, <4>1, <4>2, HeldIdle, HeldOthers
        <3>6. CASE Step(p, "idle", NoJob)
            <4>1. pc'[p] = "idle" /\ job'[p].chg = {}
                BY <2>1, <3>2, <3>6, StepAlone
            <4>. QED
                BY <2>1, <3>1, <4>1, HeldIdle, HeldOthers
        <3>. QED
            BY <3>3, <3>4, <3>5, <3>6
    <2>3. CASE ~Lock(p)
        <3>1. pc[p] \notin {"idle", "lock"}
            BY <1>4, <2>3 DEF Work, Unlock, Remove, RemoveRow, Initialize, initializationSnapshot,
               applyInitialization, AttemptFails, InitializationFailed, addReadyRelease,
               addReadySwap, addReadyAppend, claimInit, claimLoad, claimSwap, Reload, ReloadPlan,
               ChangedDone, ReloadDone, installCandidate, installInitialized, InstallChanged,
               SetEnabledReason, EnableClaim, EnableRollback, EnableRollbackRow, EnablePersist,
               EnableApply, DisableRow, DeleteRow, StoreFirst, DisableApply, At
        <3>2. holder = p
            BY <2>1, <3>1 DEF Held
        <3>3. CASE Unlock(p)
            <4>1. Step(p, "idle", NoJob) /\ NoJob.chg = {}
                BY <3>3 DEF Unlock, NoJob
            <4>2. pc'[p] = "idle" /\ job'[p].chg = {}
                BY <2>1, <4>1, StepAlone
            <4>. QED
                BY <2>1, <3>2, <4>2, HeldIdle, HeldOthers
        <3>4. CASE SetEnabledReason(p) \/ Remove(p) \/ RemoveRow(p)
            <4>1. pc[p] \notin Installs
                BY <3>4 DEF SetEnabledReason, EnableClaim, EnableRollback, EnableRollbackRow,
                   EnablePersist, EnableApply, DisableRow, DeleteRow, StoreFirst, DisableApply,
                   Remove, RemoveRow, At, Installs
            <4>2. UNCHANGED <<holder, job>> /\ job[p].chg = {}
                BY <2>1, <3>4, <4>1 DEF SetEnabledReason, EnableClaim, EnableRollback,
                   EnableRollbackRow, EnablePersist, EnableApply, DisableRow, DeleteRow,
                   StoreFirst, DisableApply, Remove, RemoveRow, Held
            <4>3. \E l \in {"persist", "swap", "unrow", "unlock", "enabled", "ok", "disabled",
                            "deleted", "removing"} : Goto(p, l)
                BY <3>4 DEF SetEnabledReason, EnableClaim, EnableRollback, EnableRollbackRow,
                   EnablePersist, EnableApply, DisableRow, DeleteRow, StoreFirst, DisableApply,
                   Remove, RemoveRow
            <4>4. pc'[p] \notin {"plan", "installed", "flags"} /\ job'[p].chg = {} /\ holder' = p
                BY <2>1, <3>2, <4>2, <4>3, GotoAlone
            <4>. QED
                BY <2>1, <3>2, <4>4, HeldIdle, HeldOthers
        <3>5. CASE Initialize(p) \/ Reload(p)
            BY <2>1, <3>2, <3>5, InitializeHeld, ReloadHeld, HeldOthers
        <3>. QED
            BY <1>4, <2>3, <3>3, <3>4, <3>5 DEF Work
    <2>. QED
        BY <2>2, <2>3
<1>. QED
    BY <1>1, <1>2, <1>3, <1>4 DEF Next

\* Every step keeps settings and keys together, or an account out of selection.
LEMMA FitsInvariant ==
    ASSUME PoolAssumption, TypeOK, Located, KeyInv, [Next]_vars
    PROVE  \A a \in Ids : Fits(a)'
<1>a. \A a \in Ids : acct[a] \in Account /\ Fits(a)
    BY DEF TypeOK, KeyInv
<1>1. ASSUME UNCHANGED acct, Stay
      PROVE  \A a \in Ids : Fits(a)'
    BY <1>a, <1>1, SameFits
<1>2. ASSUME NEW p \in Procs, applyInitialization(p), Stay
      PROVE  \A a \in Ids : Fits(a)'
    <2>. DEFINE a == job[p].a
                n == job[p].key.ver
    <2>1. pc[p] \in Busy
        BY <1>2 DEF applyInitialization, At, Busy, Label
    <2>2. a \in Ids
        BY <2>1, HeldTypes
    <2>3. n = acct[a].key.ver /\ Become(a, [acct[a] EXCEPT !.initialized = TRUE, !.settings = n])
        BY <1>2 DEF applyInitialization
    <2>. HIDE DEF a, n
    <2>4. Sound([acct[a] EXCEPT !.initialized = TRUE, !.settings = n])
        BY <1>a, <2>2, <2>3 DEF Account, Sound
    <2>. QED
        BY <1>a, <1>2, <2>2, <2>3, <2>4, BecomeFits
<1>3. ASSUME NEW p \in Procs,
             \/ InitializationFailed(p) \/ addReadyRelease(p) \/ addReadySwap(p) \/ claimSwap(p)
             \/ EnableRollback(p) \/ EnablePersist(p) \/ EnableApply(p) \/ DisableApply(p)
             \/ Remove(p) \/ RemoveRow(p) \/ InstallChanged(p),
             Stay
      PROVE  \A a \in Ids : Fits(a)'
    <2>. DEFINE a == job[p].a
    <2>1. pc[p] \in Busy
        BY <1>3 DEF InitializationFailed, addReadyRelease, addReadySwap, claimSwap,
             EnableRollback, EnablePersist, EnableApply, DisableApply, Remove, RemoveRow,
             InstallChanged, At, Busy, Label
    <2>2. a \in Ids
        BY <2>1, HeldTypes
    <2>3. \/ UNCHANGED acct
          \/ \E b \in BOOLEAN : \/ Become(a, [acct[a] EXCEPT !.initing = b])
                                \/ Become(a, [acct[a] EXCEPT !.disabled = b])
                                \/ Become(a, [acct[a] EXCEPT !.removed = b])
                                \/ Become(a, [acct[a] EXCEPT !.ready = b])
          \/ \E b, c : Become(a, [acct[a] EXCEPT !.disabled = b, !.removed = c])
        BY <1>3 DEF InitializationFailed, addReadyRelease, addReadySwap, claimSwap,
             EnableRollback, EnablePersist, EnableApply, DisableApply, Remove, RemoveRow,
             InstallChanged
    <2>. HIDE DEF a
    <2>4. ASSUME NEW b, NEW c
          PROVE  /\ SameKey([acct[a] EXCEPT !.initing = b], acct[a])
                 /\ SameKey([acct[a] EXCEPT !.disabled = b], acct[a])
                 /\ SameKey([acct[a] EXCEPT !.removed = b], acct[a])
                 /\ SameKey([acct[a] EXCEPT !.ready = b], acct[a])
                 /\ SameKey([acct[a] EXCEPT !.disabled = b, !.removed = c], acct[a])
        BY <1>a, <2>2, SameKeyFields
    <2>5. ASSUME NEW r, Become(a, r), SameKey(r, acct[a])
          PROVE  \A b \in Ids : Fits(b)'
        BY <1>a, <1>3, <2>2, <2>5, BecomeFits
    <2>6. Stay
        BY <1>3
    <2>7. CASE UNCHANGED acct
        BY <1>1, <2>6, <2>7
    <2>. QED
        BY <2>3, <2>4, <2>5, <2>7, Zenon
<1>4. ASSUME NEW p \in Procs, Unlock(p), Stay
      PROVE  \A a \in Ids : Fits(a)'
    <2>1. CASE job[p].claimed
        <3>1. job[p].a \in Ids
            BY <2>1, HeldTypes
        <3>2. Become(job[p].a, [acct[job[p].a] EXCEPT !.initing = FALSE])
            BY <1>4, <2>1 DEF Unlock, Become
        <3>. QED
            BY <1>a, <1>4, <3>1, <3>2, SameKeyFields, BecomeFits
    <2>2. CASE ~job[p].claimed
        BY <1>1, <1>4, <2>2 DEF Unlock
    <2>. QED
        BY <2>1, <2>2
<1>6. ASSUME NEW p \in Workers, ReloadPlan(p)
      PROVE  \A a \in Ids : Fits(a)'
    <2>. DEFINE snap == job[p].snap
    <2>1. snap \in [Ids -> Row] /\ pc[p] = "plan"
        BY <1>6, HeldTypes DEF Job, Procs, ReloadPlan, At
    <2>2. acct' = [a \in Ids |-> Planned(a, snap)]
        BY <1>6 DEF ReloadPlan
    <2>3. \A q \in Workers : ~At(q, "installed")
        BY <2>1 DEF KeyInv, Held, At
    <2>. HIDE DEF snap
    <2>4. ASSUME NEW a \in Ids
          PROVE  Sound(Planned(a, snap))
        <3>1. acct[a] \in Account /\ Sound(acct[a]) /\ snap[a] \in Row
            BY <1>a, <2>1, <2>3 DEF Fits, Installing
        <3>2. Sound(newAccount(snap[a]))
            BY DEF newAccount, Sound
        <3>3. /\ Sound([acct[a] EXCEPT !.removed = TRUE])
              /\ Sound([acct[a] EXCEPT !.removed = TRUE, !.disabled = (snap[a].state = "off")])
            BY <3>1 DEF Account, Sound
        <3>4. a \in Desired(snap) /\ a \in Known /\ a \notin Rotated(snap)
              => Sound([acct[a] EXCEPT !.key = KeyOf(snap[a]), !.removed = FALSE,
                                       !.disabled = (snap[a].state = "off")])
            BY <3>1 DEF Account, Sound, Rotated, KeyOf
        <3>. QED
            BY <3>1, <3>2, <3>3, <3>4 DEF Planned
    <2>5. \A a \in Ids : Sound(acct'[a])
        BY <2>2, <2>4
    <2>. QED
        BY <2>5 DEF Fits, Sound
<1>7. ASSUME NEW p \in Workers, installCandidate(p), Alone(p)
      PROVE  \A a \in Ids : Fits(a)'
    <2>. DEFINE a == Min(job[p].chg)
                k == KeyOf(job[p].snap[a])
                n(ok) == IF ok THEN job[p].snap[a].ver ELSE -1
    <2>1. job[p] \in Job /\ job[p].chg \subseteq Ids /\ p \in Procs /\ pc[p] = "changed"
        BY <1>7, HeldTypes DEF Job, Procs, installCandidate, At
    <2>2. a \in Ids
        BY <1>7, <2>1, MinIsMember DEF installCandidate
    <2>3. PICK ok \in {TRUE, FALSE} :
            /\ Become(a, [acct[a] EXCEPT !.key = k, !.settings = n(ok)])
            /\ Step(p, "installed", [job[p] EXCEPT !.chg = @ \ {a}, !.a = a, !.fresh = ok])
        BY <1>7 DEF installCandidate
    <2>4. n(ok) = k.ver \/ n(ok) = -1
        BY DEF KeyOf
    <2>. HIDE DEF a, k, n
    <2>5. pc'[p] = "installed" /\ job'[p].a = a
        <3>. DEFINE j == [job[p] EXCEPT !.chg = @ \ {a}, !.a = a, !.fresh = ok]
        <3>1. j.a = a /\ Step(p, "installed", j)
            BY <2>1, <2>3 DEF Job
        <3>. HIDE DEF j
        <3>. QED
            BY <2>1, <3>1, StepAlone
    <2>6. /\ acct'[a].settings = n(ok) /\ acct'[a].key = k
          /\ \A b \in Ids \ {a} : acct'[b] = acct[b]
        <3>1. /\ [acct[a] EXCEPT !.key = k, !.settings = n(ok)].settings = n(ok)
              /\ [acct[a] EXCEPT !.key = k, !.settings = n(ok)].key = k
            BY <1>a, <2>2 DEF Account
        <3>. QED
            BY <2>2, <2>3, <3>1, BecomeOne
    <2>7. PICK c \in Ids : c = a
        BY <2>2
    <2>8. Installing(c)' /\ \A b : Installing(b) => Installing(b)'
        BY <2>1, <2>5, <2>7, <1>7 DEF Installing, At, Alone, Procs
    <2>9. Fits(c)'
        BY <2>4, <2>6, <2>7, <2>8 DEF Fits, Sound
    <2>10. \A b \in Ids \ {c} : Fits(b)'
        BY <1>a, <2>6, <2>7, <2>8 DEF Fits, Sound
    <2>. QED
        BY <2>9, <2>10
<1>8. ASSUME NEW p \in Workers, installInitialized(p), Alone(p)
      PROVE  \A a \in Ids : Fits(a)'
    <2>. DEFINE a == job[p].a
    <2>1. p \in Procs /\ pc[p] = "installed" /\ Held(p)
        BY <1>8 DEF Procs, installInitialized, At, KeyInv
    <2>2. a \in Ids /\ acct[a] \in Account
        BY <2>1, HeldTypes DEF Busy, Label
    <2>3. Become(a, [acct[a] EXCEPT !.initialized = job[p].fresh])
        BY <1>8 DEF installInitialized
    <2>4. Sound([acct[a] EXCEPT !.initialized = job[p].fresh])
        <3>. DEFINE f == job[p].fresh
        <3>1. f => acct[a].settings = acct[a].key.ver
            BY <2>1 DEF Held
        <3>. HIDE DEF f, a
        <3>2. Sound([acct[a] EXCEPT !.initialized = f])
            BY <2>2, <3>1 DEF Account, Sound
        <3>. QED
            BY <3>2 DEF f
    <2>5. Sound(acct'[a]) /\ \A b \in Ids \ {a} : acct'[b] = acct[b]
        BY <2>2, <2>3, <2>4, BecomeOne, Zenon
    <2>6. \A b \in Ids \ {a} : Installing(b) => Installing(b)'
        BY <1>8 DEF Installing, At, Alone, Procs
    <2>. QED
        BY <1>a, <2>2, <2>5, <2>6 DEF Fits, Sound
<1>9. CASE Surroundings \/ UNCHANGED vars
    <2>1. UNCHANGED acct /\ Stay
        BY <1>9 DEF Surroundings, CreateAccount, RotateKey, vars, Stay
    <2>. QED
        BY <1>1, <2>1
<1>10. ASSUME NEW p \in Procs, Alone(p),
             \/ Lock(p) \/ initializationSnapshot(p) \/ AttemptFails(p)
             \/ addReadyAppend(p) \/ claimInit(p) \/ claimLoad(p) \/ EnableClaim(p)
             \/ ChangedDone(p) \/ ReloadDone(p)
             \/ EnableRollbackRow(p) \/ DisableRow(p) \/ DeleteRow(p)
             \/ p = Warmer /\ (WarmNext \/ WarmBatchDone \/ WarmReturn)
             \/ p \in Workers /\ \E op \in Ops, a \in Ids \cup {0} : Call(p, op, a)
      PROVE  UNCHANGED acct /\ Stay
    <2>1. UNCHANGED acct
        BY <1>10 DEF Call, Lock, initializationSnapshot, AttemptFails, addReadyAppend, claimInit,
           claimLoad, EnableClaim, ChangedDone, ReloadDone, EnableRollbackRow, DisableRow,
           DeleteRow, StoreFirst, WarmNext, WarmBatchDone, WarmReturn
    <2>2. p \in Workers => pc[p] # "installed"
        BY <1>10 DEF Call, Lock, initializationSnapshot, AttemptFails, addReadyAppend, claimInit,
           claimLoad, EnableClaim, ChangedDone, ReloadDone, EnableRollbackRow, DisableRow,
           DeleteRow, StoreFirst, PoolAssumption, At
    <2>. QED
        BY <1>10, <2>1, <2>2, AloneStays
<1>11. ASSUME NEW p \in Procs, Alone(p),
              \/ applyInitialization(p) \/ Unlock(p)
              \/ InitializationFailed(p) \/ addReadyRelease(p) \/ addReadySwap(p) \/ claimSwap(p)
              \/ EnableRollback(p) \/ EnablePersist(p) \/ EnableApply(p) \/ DisableApply(p)
              \/ Remove(p) \/ RemoveRow(p) \/ InstallChanged(p)
       PROVE  Stay
    <2>1. pc[p] # "installed"
        BY <1>11 DEF applyInitialization, Unlock, InitializationFailed, addReadyRelease,
           addReadySwap, claimSwap, EnableRollback, EnablePersist, EnableApply, DisableApply,
           Remove, RemoveRow, InstallChanged, At
    <2>. QED
        BY <1>11, <2>1, AloneStays
<1>12. ASSUME NEW p \in Workers, Work(p)
       PROVE  \A a \in Ids : Fits(a)'
    <2>1. p \in Procs /\ Alone(p)
        BY <1>12, WorkAlone DEF Procs
    <2>. QED
        BY <1>1, <1>2, <1>3, <1>4, <1>6, <1>7, <1>8, <1>10, <1>11, <1>12, <2>1
        DEF Work, Initialize, Reload, SetEnabledReason
<1>13. CASE Warm
    <2>1. Warmer \in Procs /\ Alone(Warmer)
        BY <1>13, WorkAlone DEF Procs
    <2>. QED
        BY <1>1, <1>2, <1>3, <1>10, <1>11, <1>13, <2>1 DEF Warm, Initialize
<1>14. ASSUME NEW p \in Workers, NEW op \in Ops, NEW a \in Ids \cup {0}, Call(p, op, a)
       PROVE  \A b \in Ids : Fits(b)'
    <2>1. p \in Procs /\ Alone(p)
        BY <1>14, WorkAlone DEF Procs
    <2>. QED
        BY <1>1, <1>10, <1>14, <2>1
<1>. QED
    BY <1>9, <1>12, <1>13, <1>14 DEF Next

(***************************************************************************)
(* An initialized account carries the project and agent loaded with the    *)
(* key it has now: no initialization that comes back after ReloadKeys      *)
(* replaced the key can install what it found (the comparison in           *)
(* applyInitialization).  Between the two stores of installCandidate it    *)
(* may carry none, and then it is out of selection.                        *)
(***************************************************************************)
THEOREM SettingsFollowKey == Spec => []SettingsMatchKey
<1>1. ASSUME Init
      PROVE  KeyInv
    <2>1. PICK ok \in SUBSET (1..BootCount) :
            acct = [a \in Ids |->
                      [newAccount(row[a]) EXCEPT
                         !.initialized = a \in ok, !.ready = a \in ok,
                         !.settings = IF a \in ok THEN 0 ELSE -1]]
        BY <1>1 DEF Init
    <2>2. \A a \in Ids : row[a] \in [state: {"none", "on", "off"}, ver: {0}]
        BY <1>1 DEF Init
    <2>3. \A a \in Ids : row[a].ver = 0
        BY <2>2
    <2>4. ASSUME NEW a \in Ids
          PROVE  acct[a].initialized => acct[a].settings = acct[a].key.ver
        BY <2>1, <2>3 DEF newAccount, KeyOf
    <2>5. ASSUME NEW p \in Workers
          PROVE  Held(p)
        <3>1. pc[p] = "idle" /\ job[p].chg = {}
            BY <1>1 DEF Init, Procs, NoJob
        <3>. QED
            BY <3>1 DEF Held
    <2>. QED
        BY <2>4, <2>5 DEF KeyInv, Fits, Sound
<1>2. PoolInv /\ KeyInv /\ [Next]_vars => KeyInv'
    BY PoolAssumption, HeldInvariant, FitsInvariant DEF PoolInv, KeyInv
<1>3. ASSUME PoolInv, KeyInv
      PROVE  SettingsMatchKey
    <2>1. ASSUME NEW a \in Ids, Installing(a)
          PROVE  acct[a].removed
        BY <1>3, <2>1 DEF KeyInv, Held, Installing, At
    <2>. QED
        BY <1>3, <2>1 DEF KeyInv, Fits, Sound, SettingsMatchKey, Selectable
<1>. QED
    BY <1>1, <1>2, <1>3, PoolInvariant, PTL DEF Spec

-----------------------------------------------------------------------------
(***************************************************************************)
(* The claims of the pool and its agreement with the accounts table, for a *)
(* program in which no credential is replaced under its id (MaxRotations = *)
(* 0: no store operation does it).  A replaced one breaks both: addReady   *)
(* releases the claim of its account, whoever holds it, and a failed       *)
(* installation leaves the account off.                                    *)
(***************************************************************************)

(***************************************************************************)
(* Where an operation can be.                                              *)
(***************************************************************************)
Choosing == {"removed?", "disabled?", "swap"}
Trying == {"init", "apply", "failed"}
Adding == {"ok", "adding", "append"}
Stages(op) ==
    CASE op = "none"    -> {"idle", "done"}
      [] op = "warm"    -> {"need"} \cup Choosing \cup Trying \cup Adding
      [] op = "reload"  -> {"lock", "plan", "changed", "need", "unlock"}
                           \cup Choosing \cup Trying \cup Adding
      [] op = "enable"  -> {"lock", "enable", "swap", "persist", "enabled", "rollback", "unrow",
                            "unlock"} \cup Trying \cup Adding
      [] op = "refresh" -> {"lock", "refresh", "unlock"} \cup Trying \cup Adding
      [] op = "disable" -> {"lock", "disable", "disabled", "unlock"}
      [] op = "delete"  -> {"lock", "delete", "deleted", "unlock"}
      [] op = "remove"  -> {"lock", "remove", "removing", "unlock"}
Claims(op) == op \in {"enable", "refresh"}

\* Only the holder of reconcileMu is past Lock; Warm never takes it.
Placed(p) ==
    /\ pc[p] \in Stages(job[p].op)
    /\ IF p = Warmer THEN job[p].op \in {"none", "warm"}
       ELSE /\ job[p].op # "warm" /\ pc[p] # "done"
            /\ pc[p] \notin {"idle", "lock"} => holder = p
    /\ job[p].claimed => Claims(job[p].op) /\ pc[p] \notin {"lock", "enable", "refresh", "swap"}
    /\ Claims(job[p].op) /\ pc[p] \in Trying => job[p].claimed
    /\ job[p].op = "refresh" /\ pc[p] = "ok" => job[p].claimed

\* Nothing replaces a credential.
Plain(j) == j.chg = {} /\ \A a \in Ids : j.snap[a].ver = 0
Unrotated ==
    /\ \A a \in Ids : row[a].ver = 0 /\ acct[a].key.ver = 0
    /\ \A p \in Procs : Plain(job[p])

\* The account an operation adds is initialized; the one it tries or has claimed
\* is claimed, unless it has been initialized: then its claim may be lost.
Claimed(p) ==
    LET a == job[p].a IN
    /\ pc[p] \in Adding \cup {"persist", "enabled"} => acct[a].initialized
    /\ pc[p] \in Trying \/ job[p].claimed => acct[a].initing \/ acct[a].initialized
Apart == \A p \in Workers :
            /\ pc[Warmer] \in Trying /\ (pc[p] \in Trying \/ job[p].claimed)
            /\ job[p].a = job[Warmer].a
            => acct[job[p].a].initialized

ClaimInv == (\A p \in Procs : Placed(p) /\ Claimed(p)) /\ Apart /\ ClaimOwned

\* Known ids are rows that were inserted, and so are the rows of a snapshot.
Inserted ==
    /\ nextId \in 1..MaxId + 1
    /\ \A a \in Known : a < nextId
    /\ \A a \in Ids : a >= nextId => row[a].state = "none"
    /\ \A p \in Procs, a \in Ids : a >= nextId => job[p].snap[a].state = "none"

\* Between the two writes of an operation the row and the flags may differ.
Halfway == {"disabled", "deleted", "removing", "enabled", "unrow"}
Settled(a) == \A p \in Workers : ~(job[p].a = a /\ pc[p] \in Halfway)
Gone(a) == acct[a].disabled /\ acct[a].removed
Agree(a) ==
    /\ row[a].state = "on" <=> ~acct[a].disabled /\ ~acct[a].removed
    /\ row[a].state = "none" => Gone(a)
Written(p) ==
    LET a == job[p].a IN
    /\ pc[p] = "disabled" => row[a].state = "off"
    /\ pc[p] = "deleted" => row[a].state = "none"
    /\ pc[p] = "enabled" => row[a].state = "on"
    /\ pc[p] = "removing" => acct[a].disabled /\ (a \notin suspect => row[a].state # "none")
    /\ pc[p] = "unrow" => acct[a].disabled /\ (a \notin suspect /\ row[a].state = "none" => Gone(a))
FollowInv ==
    /\ Inserted
    /\ \A p \in Workers : Written(p)
    /\ \A a \in Known \ suspect : Settled(a) => Agree(a)

\* A ready account has its slot or is being appended; so has, or is being
\* added, one that is initialized and enabled.
InHand(p) == pc[p] \in Adding \cup {"persist", "enabled"}
Coming(a) == \E p \in Procs : job[p].a = a /\ InHand(p)
Serve(a) ==
    /\ acct[a].ready => a \in Slots \/ \E p \in Procs : job[p].a = a /\ pc[p] = "append"
    /\ a \notin suspect /\ acct[a].initialized /\ ~acct[a].disabled /\ ~acct[a].removed =>
         a \in Slots \/ Coming(a)
ServedInv ==
    /\ \A a \in Slots : acct[a].initialized
    /\ \A a \in Known : Serve(a)

StoreInv == Unrotated /\ ClaimInv /\ FollowInv /\ ServedInv

(***************************************************************************)
(* The updates of a row.                                                   *)
(***************************************************************************)
\* A row that is written keeps its version.
LEMMA SetStateOne ==
    ASSUME TypeOK, NEW a \in Ids, NEW s, SetState(a, s)
    PROVE  /\ row'[a].state = s /\ \A b \in Ids : row'[b].ver = row[b].ver
           /\ \A b \in Ids \ {a} : row'[b] = row[b]
BY DEF TypeOK, SetState, Row

(***************************************************************************)
(* Nothing replaces a credential, so ReloadPlan never finds one changed.   *)
(***************************************************************************)
LEMMA UnrotatedInit == PoolAssumption /\ Init => Unrotated
<1>. SUFFICES ASSUME PoolAssumption, Init
              PROVE  Unrotated
    OBVIOUS
<1>1. \A a \in Ids : row[a].ver = 0
    <2>1. row \in [Ids -> [state: {"none", "on", "off"}, ver: {0}]]
        BY DEF Init
    <2>. QED
        BY <2>1
<1>2. ASSUME NEW a \in Ids
      PROVE  acct[a].key.ver = 0
    <2>. DEFINE r == newAccount(row[a])
    <2>1. \E b, c, n : acct[a] = [r EXCEPT !.initialized = b, !.ready = c, !.settings = n]
        <3>1. PICK ok \in SUBSET (1..BootCount) :
                acct = [b \in Ids |->
                          [newAccount(row[b]) EXCEPT
                             !.initialized = b \in ok, !.ready = b \in ok,
                             !.settings = IF b \in ok THEN 0 ELSE -1]]
            BY DEF Init
        <3>2. acct[a] = [r EXCEPT !.initialized = a \in ok, !.ready = a \in ok,
                                  !.settings = IF a \in ok THEN 0 ELSE -1]
            BY <3>1
        <3>. HIDE DEF r
        <3>. QED
            BY <3>2
    <2>2. r.key.ver = 0
        BY <1>1 DEF newAccount, KeyOf
    <2>3. DOMAIN r = {"disabled", "removed", "initing", "initialized", "ready", "key", "settings"}
        BY DEF newAccount
    <2>. HIDE DEF r
    <2>. QED
        BY <2>1, <2>2, <2>3
<1>3. \A p \in Procs : Plain(job[p])
    BY DEF Init, NoJob, NoSnapshot, NoRow, Plain
<1>. QED
    BY <1>1, <1>2, <1>3 DEF Unrotated

LEMMA RowsUnrotated ==
    ASSUME PoolAssumption, MaxRotations = 0, TypeOK, Located, Unrotated, [Next]_vars
    PROVE  \A a \in Ids : row'[a].ver = 0
<1>. DEFINE Same == \A a \in Ids : row'[a].ver = row[a].ver
<1>1. CASE CreateAccount
    <2>1. row' = [row EXCEPT ![nextId] = [state |-> "on", ver |-> 0]] /\ nextId \in Nat
        BY <1>1 DEF CreateAccount, TypeOK
    <2>. QED
        BY <2>1 DEF TypeOK, Unrotated
<1>2. CASE \E a \in Ids : RotateKey(a)
    <2>1. spent.rotations < 0 /\ spent.rotations \in Nat
        BY <1>2 DEF RotateKey, TypeOK
    <2>. QED
        BY <2>1
<1>3. ASSUME NEW p \in Procs, \/ EnableRollbackRow(p) \/ EnablePersist(p) \/ DisableRow(p)
                              \/ DeleteRow(p) \/ RemoveRow(p)
      PROVE  Same
    <2>1. pc[p] \in Busy
        BY <1>3 DEF EnableRollbackRow, EnablePersist, StoreFirst, DisableRow, DeleteRow,
           RemoveRow, At, Busy, Label
    <2>2. job[p].a \in Ids
        BY <2>1, HeldTypes
    <2>3. UNCHANGED row \/ \E s : SetState(job[p].a, s)
        BY <1>3 DEF EnableRollbackRow, EnablePersist, StoreFirst, DisableRow, DeleteRow,
           RemoveRow, StoreFails, table
    <2>. QED
        BY <2>2, <2>3, SetStateOne
<1>4. \/ CreateAccount \/ \E a \in Ids : RotateKey(a)
      \/ \E p \in Procs : \/ EnableRollbackRow(p) \/ EnablePersist(p) \/ DisableRow(p)
                          \/ DeleteRow(p) \/ RemoveRow(p)
      \/ UNCHANGED row
    <2>1. ASSUME NEW p \in Procs, Initialize(p)
          PROVE  UNCHANGED row
        BY <2>1 DEF Initialize, table, initializationSnapshot, applyInitialization, AttemptFails,
           InitializationFailed, addReadyRelease, addReadySwap, addReadyAppend, claimInit,
           claimLoad, claimSwap
    <2>2. ASSUME NEW p \in Procs, Reload(p)
          PROVE  UNCHANGED row
        BY <2>2 DEF Reload, table, ReloadPlan, ChangedDone, ReloadDone, installCandidate,
           installInitialized, InstallChanged
    <2>3. ASSUME NEW p \in Procs, EnableClaim(p) \/ EnableRollback(p) \/ EnableApply(p)
                                  \/ DisableApply(p)
          PROVE  UNCHANGED row
        BY <2>3 DEF table, EnableClaim, EnableRollback, EnableApply, DisableApply
    <2>4. CASE \/ UNCHANGED vars \/ WarmNext \/ WarmBatchDone \/ WarmReturn
               \/ \E p \in Workers : \/ Lock(p) \/ Unlock(p) \/ Remove(p)
                                      \/ \E op \in Ops, a \in Ids \cup {0} : Call(p, op, a)
        BY <2>4 DEF vars, table, WarmNext, WarmBatchDone, WarmReturn, Lock, Unlock, Remove, Call
    <2>. QED
        BY <2>1, <2>2, <2>3, <2>4 DEF Next, Surroundings, Warm, Work, SetEnabledReason, Procs
<1>. QED
    BY <1>1, <1>2, <1>3, <1>4 DEF Unrotated

\* The keys of the accounts: only the plan and the installation set one.
LEMMA KeysUnrotated ==
    ASSUME PoolAssumption, MaxRotations = 0, TypeOK, Located, Unrotated, [Next]_vars
    PROVE  \A a \in Ids : acct'[a].key.ver = 0
<1>. DEFINE Same == \A a \in Ids : acct'[a].key = acct[a].key
<1>1. ASSUME NEW p \in Procs, ReloadPlan(p), NEW a \in Ids
      PROVE  acct'[a].key.ver = 0
    <2>. DEFINE snap == job[p].snap
    <2>1. acct'[a] = Planned(a, snap)
        BY <1>1 DEF ReloadPlan
    <2>2. snap[a].ver = 0 /\ acct[a].key.ver = 0 /\ acct[a] \in Account
        BY DEF Unrotated, Plain, TypeOK
    <2>3. KeyOf(snap[a]).ver = 0 /\ newAccount(snap[a]).key.ver = 0
        BY <2>2 DEF KeyOf, newAccount
    <2>. HIDE DEF snap
    <2>. QED
        BY <2>1, <2>2, <2>3 DEF Planned, Account
<1>2. ASSUME NEW p \in Procs
      PROVE  ~installCandidate(p)
    BY DEF Unrotated, Plain, installCandidate
<1>3. ASSUME NEW p \in Procs,
             \/ applyInitialization(p) \/ InitializationFailed(p) \/ addReadyRelease(p)
             \/ addReadySwap(p) \/ claimSwap(p) \/ installInitialized(p) \/ InstallChanged(p)
             \/ EnableRollback(p) \/ EnablePersist(p)
             \/ EnableApply(p) \/ DisableApply(p) \/ Remove(p) \/ RemoveRow(p) \/ Unlock(p)
      PROVE  Same
    <2>1. \A a \in Ids : acct[a] \in Account
        BY DEF TypeOK
    <2>2. ASSUME NEW a \in Ids,
                 \E b, c : \/ Become(a, [acct[a] EXCEPT !.initing = b])
                           \/ Become(a, [acct[a] EXCEPT !.disabled = b])
                           \/ Become(a, [acct[a] EXCEPT !.removed = b])
                           \/ Become(a, [acct[a] EXCEPT !.ready = b])
                           \/ Become(a, [acct[a] EXCEPT !.initialized = b])
                           \/ Become(a, [acct[a] EXCEPT !.disabled = b, !.removed = c])
                           \/ Become(a, [acct[a] EXCEPT !.initialized = b, !.settings = c])
          PROVE  Same
        <3>1. ASSUME NEW r, Become(a, r), r.key = acct[a].key
              PROVE  Same
            BY <3>1, BecomeOne
        <3>2. \A b, c : /\ [acct[a] EXCEPT !.initing = b].key = acct[a].key
                        /\ [acct[a] EXCEPT !.disabled = b].key = acct[a].key
                        /\ [acct[a] EXCEPT !.removed = b].key = acct[a].key
                        /\ [acct[a] EXCEPT !.ready = b].key = acct[a].key
                        /\ [acct[a] EXCEPT !.initialized = b].key = acct[a].key
                        /\ [acct[a] EXCEPT !.disabled = b, !.removed = c].key = acct[a].key
                        /\ [acct[a] EXCEPT !.initialized = b, !.settings = c].key = acct[a].key
            BY <2>1 DEF Account
        <3>. HIDE DEF Same
        <3>. QED
            BY <2>2, <3>1, <3>2, Zenon
    <2>4. CASE Unlock(p)
        <3>1. CASE job[p].claimed
            <4>1. job[p].a \in Ids
                BY <3>1, HeldTypes
            <4>2. Become(job[p].a, [acct[job[p].a] EXCEPT !.initing = FALSE])
                BY <2>4, <3>1 DEF Unlock, Become
            <4>. QED
                BY <4>1, <4>2, <2>2
        <3>2. CASE ~job[p].claimed
            BY <2>4, <3>2 DEF Unlock
        <3>. QED
            BY <3>1, <3>2
    <2>5. CASE ~Unlock(p)
        <3>. DEFINE a == job[p].a
        <3>1. pc[p] \in Busy
            BY <1>3, <2>5 DEF applyInitialization, InitializationFailed, addReadyRelease,
               addReadySwap, claimSwap, installInitialized, InstallChanged, EnableRollback,
               EnablePersist, EnableApply, DisableApply, Remove, RemoveRow, At, Busy, Label
        <3>2. a \in Ids
            BY <3>1, HeldTypes
        <3>3. \/ UNCHANGED acct
              \/ \E b, c : \/ Become(a, [acct[a] EXCEPT !.initing = b])
                           \/ Become(a, [acct[a] EXCEPT !.disabled = b])
                           \/ Become(a, [acct[a] EXCEPT !.removed = b])
                           \/ Become(a, [acct[a] EXCEPT !.ready = b])
                           \/ Become(a, [acct[a] EXCEPT !.initialized = b])
                           \/ Become(a, [acct[a] EXCEPT !.disabled = b, !.removed = c])
                           \/ Become(a, [acct[a] EXCEPT !.initialized = b, !.settings = c])
            BY <1>3, <2>5 DEF applyInitialization, InitializationFailed, addReadyRelease,
               addReadySwap, claimSwap, installInitialized, InstallChanged, EnableRollback,
               EnablePersist, EnableApply, DisableApply, Remove, RemoveRow
        <3>. HIDE DEF a
        <3>. QED
            BY <3>2, <3>3, <2>2
    <2>. QED
        BY <2>4, <2>5
<1>4. ASSUME \/ UNCHANGED vars \/ Surroundings \/ WarmNext \/ WarmBatchDone \/ WarmReturn
           \/ \E p \in Procs :
                \/ initializationSnapshot(p) \/ AttemptFails(p) \/ addReadyAppend(p)
                \/ claimInit(p) \/ claimLoad(p) \/ EnableClaim(p) \/ ChangedDone(p) \/ ReloadDone(p) \/ EnableRollbackRow(p)
                \/ DisableRow(p) \/ DeleteRow(p) \/ Lock(p)
                \/ \E op \in Ops, a \in Ids \cup {0} : Call(p, op, a)
      PROVE  Same
    BY <1>4 DEF vars, Surroundings, CreateAccount, RotateKey, WarmNext, WarmBatchDone,
       WarmReturn, initializationSnapshot, AttemptFails, addReadyAppend, claimInit, claimLoad,
       EnableClaim, ChangedDone, ReloadDone, EnableRollbackRow, DisableRow, DeleteRow, StoreFirst, Lock, Call
<1>5. Same => \A a \in Ids : acct'[a].key.ver = 0
    BY DEF Unrotated
<1>. HIDE DEF Same
<1>. QED
    BY <1>1, <1>2, <1>3, <1>4, <1>5
       DEF Next, Warm, Work, Initialize, Reload, SetEnabledReason, Procs

\* The local variables: the plan finds no key changed, and the rows an
\* operation works with were read when it was called.
Like(p, j) == j.chg = {} /\ j.snap \in {job[p].snap, row, NoSnapshot}

LEMMA JobsAlike ==
    ASSUME PoolAssumption, TypeOK, Located, Unrotated, [Next]_vars
    PROVE  \A p \in Procs : Like(p, job'[p])
<1>a. \A p \in Procs : Like(p, NoJob) /\ Like(p, job[p])
    BY DEF NoJob, Unrotated, Plain, Like
<1>1. ASSUME NEW p \in Procs, NEW l, NEW j, Step(p, l, j), Like(p, j)
      PROVE  \A q \in Procs : Like(q, job'[q])
    BY <1>1, <1>a, StepAlone DEF Alone
<1>2. ASSUME NEW p \in Procs,
             \/ initializationSnapshot(p) \/ AttemptFails(p) \/ claimInit(p) \/ claimSwap(p)
      PROVE  UNCHANGED job \/ \E l, j : Step(p, l, j) /\ Like(p, j)
    <2>1. job[p] \in Job /\ Like(p, job[p])
        BY <1>a, HeldTypes
    <2>2. ASSUME NEW x, NEW y
          PROVE  /\ Like(p, [job[p] EXCEPT !.key = x])
                 /\ Like(p, [job[p] EXCEPT !.tries = x])
                 /\ Like(p, [job[p] EXCEPT !.need = x, !.a = y])
                 /\ Like(p, [job[p] EXCEPT !.tries = x, !.claimed = y])
        BY <2>1 DEF Job, Like
    <2>3. \/ UNCHANGED job
          \/ \E l, x, y :
                \/ Step(p, l, [job[p] EXCEPT !.key = x])
                \/ Step(p, l, [job[p] EXCEPT !.tries = x])
                \/ Step(p, l, [job[p] EXCEPT !.need = x, !.a = y])
                \/ Step(p, l, [job[p] EXCEPT !.tries = x, !.claimed = y])
        <3>1. CASE initializationSnapshot(p)
            BY <3>1, Zenon DEF initializationSnapshot
        <3>2. CASE AttemptFails(p)
            BY <3>2, Zenon DEF AttemptFails
        <3>3. CASE claimInit(p)
            <4>. DEFINE a == Min(job[p].need)
                        n == job[p].need \ {a}
            <4>1. [job[p] EXCEPT !.need = @ \ {a}, !.a = a] = [job[p] EXCEPT !.need = n, !.a = a]
                OBVIOUS
            <4>2. \E l : Step(p, l, [job[p] EXCEPT !.need = n, !.a = a])
                BY <3>3, <4>1, Zenon DEF claimInit
            <4>. HIDE DEF a, n
            <4>. QED
                BY <4>2, Zenon
        <3>4. CASE claimSwap(p)
            BY <3>4, Zenon DEF claimSwap
        <3>. QED
            BY <1>2, <3>1, <3>2, <3>3, <3>4
    <2>. QED
        BY <2>2, <2>3, Zenon
<1>3. ASSUME NEW p \in Procs,
             \/ p = Warmer /\ (WarmNext \/ WarmBatchDone)
             \/ Unlock(p) \/ Lock(p)
             \/ ReloadPlan(p) \/ ChangedDone(p)
             \/ \E op \in Ops, a \in Ids \cup {0} : Call(p, op, a)
      PROVE  UNCHANGED job \/ \E l, j : Step(p, l, j) /\ Like(p, j)
    <2>1. job[p] \in Job /\ Like(p, job[p]) /\ Like(p, NoJob)
        BY <1>a, HeldTypes
    <2>2. CASE WarmNext /\ p = Warmer
        <3>1. \E n : Step(p, "need", [NoJob EXCEPT !.op = "warm", !.need = n])
            BY <2>2 DEF WarmNext
        <3>2. \A n : Like(p, [NoJob EXCEPT !.op = "warm", !.need = n])
            BY <2>1 DEF Like, NoJob
        <3>. QED
            BY <3>1, <3>2
    <2>3. CASE (WarmBatchDone /\ p = Warmer) \/ Unlock(p) \/ Lock(p)
        BY <2>1, <2>3 DEF WarmBatchDone, Unlock, Lock
    <2>4. CASE ReloadPlan(p)
        <3>1. Rotated(job[p].snap) = {}
            <4>1. \A a \in Ids : job[p].snap[a].ver = 0 /\ acct[a].key.ver = 0
                BY DEF Unrotated, Plain
            <4>. QED
                BY <4>1 DEF Rotated, Desired
        <3>2. \E n : Step(p, "changed", [job[p] EXCEPT !.chg = {}, !.need = n])
            BY <2>4, <3>1 DEF ReloadPlan
        <3>3. \A n : Like(p, [job[p] EXCEPT !.chg = {}, !.need = n])
            BY <2>1 DEF Like, Job
        <3>. QED
            BY <3>2, <3>3
    <2>5. CASE ChangedDone(p)
        <3>1. Step(p, "need", [job[p] EXCEPT !.snap = NoSnapshot])
            BY <2>5 DEF ChangedDone
        <3>2. Like(p, [job[p] EXCEPT !.snap = NoSnapshot])
            BY <2>1 DEF Like, Job
        <3>. QED
            BY <3>1, <3>2
    <2>6. ASSUME NEW op \in Ops, NEW a \in Ids \cup {0}, Call(p, op, a)
          PROVE  \E l, j : Step(p, l, j) /\ Like(p, j)
        <3>. DEFINE s == IF op = "reload" THEN row ELSE NoSnapshot
        <3>1. Step(p, "lock", [NoJob EXCEPT !.op = op, !.a = a, !.snap = s])
            BY <2>6 DEF Call
        <3>2. s \in {row, NoSnapshot}
            OBVIOUS
        <3>. HIDE DEF s
        <3>3. Like(p, [NoJob EXCEPT !.op = op, !.a = a, !.snap = s])
            BY <3>2 DEF Like, NoJob
        <3>. QED
            BY <3>1, <3>3
    <2>. QED
        BY <1>3, <2>2, <2>3, <2>4, <2>5, <2>6
<1>4. ASSUME NEW p \in Procs
      PROVE  ~installCandidate(p)
    BY DEF Unrotated, Plain, installCandidate
<1>5. ASSUME NEW p \in Procs, Initialize(p) \/ SetEnabledReason(p)
      PROVE  \/ UNCHANGED job \/ initializationSnapshot(p) \/ AttemptFails(p) \/ claimInit(p)
             \/ claimSwap(p)
    BY <1>5 DEF Initialize, SetEnabledReason, applyInitialization, claimLoad, EnableClaim,
       InitializationFailed, addReadyRelease, addReadySwap, addReadyAppend, EnableRollback,
       EnableRollbackRow, EnablePersist, EnableApply, StoreFirst, DisableRow, DeleteRow, DisableApply
<1>6. \/ UNCHANGED job
      \/ \E p \in Procs :
           \/ initializationSnapshot(p) \/ AttemptFails(p) \/ claimInit(p) \/ claimSwap(p)
           \/ p = Warmer /\ (WarmNext \/ WarmBatchDone)
           \/ Unlock(p) \/ Lock(p)
           \/ ReloadPlan(p) \/ ChangedDone(p)
           \/ \E op \in Ops, a \in Ids \cup {0} : Call(p, op, a)
    <2>1. CASE UNCHANGED vars \/ Surroundings \/ WarmReturn
        BY <2>1 DEF vars, Surroundings, CreateAccount, RotateKey, WarmReturn
    <2>2. ASSUME NEW p \in Procs,
                 \/ Remove(p) \/ RemoveRow(p) \/ ReloadDone(p) \/ installInitialized(p)
                 \/ InstallChanged(p)
          PROVE  UNCHANGED job
        BY <2>2 DEF Remove, RemoveRow, ReloadDone, installInitialized, InstallChanged
    <2>. QED
        BY <1>4, <1>5, <2>1, <2>2 DEF Next, Warm, Work, Reload, Procs
<1>7. UNCHANGED job => \A q \in Procs : Like(q, job'[q])
    BY <1>a
<1>. QED
    BY <1>1, <1>2, <1>3, <1>6, <1>7

LEMMA UnrotatedKept ==
    ASSUME PoolAssumption, MaxRotations = 0, TypeOK, Located, Unrotated, [Next]_vars
    PROVE  Unrotated'
<1>1. \A p \in Procs : Like(p, job'[p])
    BY JobsAlike
<1>2. \A p \in Procs : Plain(job'[p])
    BY <1>1 DEF Like, Plain, Unrotated, NoSnapshot, NoRow
<1>3. (\A p \in Procs : Plain(job[p]))' = (\A p \in Procs : Plain(job'[p]))
    BY DEF Plain
<1>. QED
    BY <1>2, <1>3, RowsUnrotated, KeysUnrotated DEF Unrotated

(***************************************************************************)
(* Claims.  An operation is engaged with its account while it tries to     *)
(* initialize it and as long as it has claimed it.                         *)
(***************************************************************************)
Engaged(p) == pc[p] \in Trying \/ job[p].claimed
Owns(p, a) == job[p].a = a /\ pc[p] \in Claiming(p)
Same(p)    == /\ job'[p].op = job[p].op /\ job'[p].a = job[p].a
              /\ job'[p].claimed = job[p].claimed
Flags(a)   == acct'[a].initing = acct[a].initing /\ acct'[a].initialized = acct[a].initialized
\* Nobody's claim and no initialization changes, but new accounts have none.
Tame == /\ \A a \in Known : Flags(a)
        /\ \A a \in Ids : acct'[a].initing => acct[a].initing

\* Only the holder of reconcileMu and Warm are past the lock.
LEMMA OneWorker ==
    ASSUME TypeOK, \A p \in Procs : Placed(p), NEW p \in Workers, NEW q \in Workers,
           pc[p] \notin {"idle", "lock"}, pc[q] \notin {"idle", "lock"}
    PROVE  p = q
<1>1. p # Warmer /\ q # Warmer
    BY PoolAssumption DEF PoolAssumption
<1>. QED
    BY <1>1 DEF Placed, Procs

\* Warm claims nothing beyond its tries.
LEMMA WarmerTries ==
    ASSUME \A p \in Procs : Placed(p)
    PROVE  ~job[Warmer].claimed /\ (Engaged(Warmer) <=> pc[Warmer] \in Trying)
BY DEF Placed, Claims, Engaged, Procs

LEMMA ApartEngaged ==
    ASSUME \A p \in Procs : Placed(p)
    PROVE  Apart <=> \A p \in Workers :
               Engaged(Warmer) /\ Engaged(p) /\ job[p].a = job[Warmer].a =>
                   acct[job[p].a].initialized
BY WarmerTries DEF Apart, Engaged

\* A goroutine that moves alone.
LEMMA ClaimFrame ==
    ASSUME PoolAssumption, TypeOK, Located, ClaimInv, NEW p \in Procs, NEW a,
           Alone(p), \A q \in Workers \ {p} : holder = q => holder' = q,
           \A b \in Known \ {a} : Flags(b),
           \A b \in Ids \ {a} : acct'[b].initing => acct[b].initing,
           Placed(p)', Claimed(p)',
           a \in Known /\ acct[a].initialized => acct'[a].initialized,
           \A q \in Procs \ {p} : job[q].a = a => Claimed(q)',
           \A q \in Procs \ {p} : job[q].a = a /\ Engaged(q) /\ Engaged(p)' /\ job'[p].a = a
               => acct'[a].initialized,
           Engaged(p)' => job'[p].a = a \/ (job'[p].a = job[p].a /\ Engaged(p)),
           \A b \in Ids : acct'[b].initing /\ Owns(p, b) => Owns(p, b)',
           a \in Ids /\ acct'[a].initing => acct[a].initing \/ Owns(p, a)'
    PROVE  ClaimInv'
<1>1. \A q \in Procs \ {p} : pc'[q] = pc[q] /\ job'[q] = job[q]
    BY DEF Alone
<1>2. ASSUME NEW q \in Procs \ {p}
      PROVE  Placed(q)'
    <2>1. Placed(q) /\ (q # Warmer => q \in Workers)
        BY DEF ClaimInv, Procs
    <2>. QED
        BY <1>1, <2>1 DEF Placed
<1>3. ASSUME NEW q \in Procs \ {p}
      PROVE  Claimed(q)'
    <2>1. Claimed(q) /\ (pc[q] \in Busy \/ job[q].claimed => job[q].a \in Known)
        BY DEF ClaimInv, Located
    <2>2. pc[q] \in Trying \cup Adding \cup {"persist", "enabled"} => pc[q] \in Busy
        BY DEF Trying, Adding, Busy, Label
    <2>3. CASE job[q].a = a
        BY <2>3
    <2>4. CASE job[q].a # a
        BY <1>1, <2>1, <2>2, <2>4 DEF Claimed, Flags
    <2>. QED
        BY <2>3, <2>4
<1>4. Apart'
    <2>1. \A q \in Procs \ {p} : Engaged(q)' <=> Engaged(q)
        BY <1>1 DEF Engaged
    <2>2. \A q \in Workers : Engaged(Warmer) /\ Engaged(q) /\ job[q].a = job[Warmer].a =>
            acct[job[q].a].initialized
        BY ApartEngaged DEF ClaimInv
    <2>3. \A q \in Procs : Engaged(q) => job[q].a \in Known
        BY DEF Located, Engaged, Trying, Busy, Label
    <2>4. \A b \in Known : acct[b].initialized => acct'[b].initialized
        BY DEF Flags
    <2>5. ASSUME NEW q \in Workers, Engaged(Warmer)', Engaged(q)', job'[q].a = job'[Warmer].a
          PROVE  acct'[job'[q].a].initialized
        <3>1. Warmer \in Procs /\ q \in Procs /\ q # Warmer
            BY DEF Procs, PoolAssumption
        <3>2. CASE p = q
            BY <1>1, <2>1, <2>2, <2>5, <2>3, <2>4, <3>1, <3>2
        <3>3. CASE p = Warmer
            BY <1>1, <2>1, <2>2, <2>5, <2>3, <2>4, <3>1, <3>3
        <3>4. CASE p # q /\ p # Warmer
            BY <1>1, <2>1, <2>2, <2>5, <2>3, <2>4, <3>1, <3>4
        <3>. QED
            BY <3>2, <3>3, <3>4
    <2>. QED
        BY <2>5 DEF Apart, Engaged
<1>5. ClaimOwned'
    <2>1. ASSUME NEW b \in Ids, acct'[b].initing
          PROVE  \E q \in Procs : Owns(q, b)'
        <3>1. CASE ~acct[b].initing
            BY <2>1, <3>1
        <3>2. CASE acct[b].initing
            <4>1. PICK q \in Procs : Owns(q, b)
                BY <3>2 DEF ClaimInv, ClaimOwned, Owns
            <4>2. q # p => Owns(q, b)'
                BY <1>1, <4>1 DEF Owns, Claiming
            <4>. QED
                BY <2>1, <4>1, <4>2
        <3>. QED
            BY <3>1, <3>2
    <2>. QED
        BY <2>1 DEF ClaimOwned, Owns
<1>. QED
    BY <1>2, <1>3, <1>4, <1>5 DEF ClaimInv

\* A goroutine that moves without touching claims.
LEMMA ClaimQuiet ==
    ASSUME PoolAssumption, TypeOK, Located, ClaimInv, NEW p \in Procs,
           Alone(p), \A q \in Workers \ {p} : holder = q => holder' = q, Tame,
           Placed(p)', Claimed(p)',
           Engaged(p)' => job'[p].a = job[p].a /\ Engaged(p),
           pc[p] \in Claiming(p) => job'[p].a = job[p].a /\ (pc[p] \in Claiming(p))'
    PROVE  ClaimInv'
<1>1. \A q \in Procs : pc[q] \in Busy \/ job[q].claimed => job[q].a # 0
    BY KnownAreIds DEF Located, Ids
<1>2. Trying \cup Adding \cup {"persist", "enabled"} \subseteq Busy
    BY DEF Trying, Adding, Busy, Label
<1>3. \A q \in Procs : Engaged(q) => job[q].a # 0
    BY <1>1, <1>2 DEF Engaged
<1>4. ASSUME NEW q \in Procs \ {p}, job[q].a = 0, ~Engaged(q)
      PROVE  Claimed(q)'
    <2>1. pc[q] \notin Busy /\ ~job[q].claimed /\ pc'[q] = pc[q] /\ job'[q] = job[q]
        BY <1>1, <1>4 DEF Alone
    <2>. QED
        BY <1>2, <2>1 DEF Claimed
<1>5. \A b \in Ids : Owns(p, b) => Owns(p, b)'
    BY DEF Owns
<1>6. 0 \notin Ids /\ Known \subseteq Ids
    BY KnownAreIds DEF Ids
<1>. QED
    BY <1>3, <1>4, <1>5, <1>6, ClaimFrame DEF Tame

\* Where an operation goes without touching claims.
Edge(p) ==
    LET op == job[p].op
        go(from, to) == pc[p] \in from /\ pc'[p] \in to
    IN
    \/ go({"init"}, {"apply"}) \/ go({"apply"}, {"init", "failed"})
    \/ op = "refresh" /\ go({"failed", "ok"}, {"unlock"})
    \/ op = "enable" /\ go({"failed"}, {"rollback"})
    \/ go({"adding"}, {"append"}) \/ go({"adding", "append"}, {Resume(job[p])})
    \/ go({"plan"}, {"changed"}) \/ go({"changed"}, {"need"})
    \/ p # Warmer /\ go({"need"}, {"unlock"})
    \/ go({"removed?"}, {"disabled?"}) \/ go({"disabled?", "enable"}, {"swap"})
    \/ go({"removed?", "disabled?", "swap", "refresh"}, {Resume(job[p])})
    \/ acct[job[p].a].initialized /\ go({"enable"}, {"persist"})
    \/ go({"rollback"}, {"unrow"}) \/ go({"unrow"}, {"unlock"})
    \/ go({"persist"}, {"unlock", "enabled"}) \/ go({"enabled"}, {"ok"})
    \/ go({"disable"}, {"unlock", "disabled"}) \/ go({"delete"}, {"unlock", "deleted"})
    \/ go({"disabled", "deleted", "removing"}, {"unlock"})
    \/ go({"remove"}, {"unlock", "removing"})

LEMMA ClaimEdge ==
    ASSUME PoolAssumption, TypeOK, Located, ClaimInv, NEW p \in Procs,
           Alone(p), Same(p), UNCHANGED holder, Tame, Edge(p)
    PROVE  ClaimInv'
<1>. DEFINE op == job[p].op
            a == job[p].a
<1>1. Placed(p) /\ Claimed(p) /\ Resume(job[p]) \in {"need", "changed", "unlock"}
    BY ResumeType DEF ClaimInv
<1>2. pc[p] \in Stages(op) /\ pc'[p] \in Stages(op)
    <2>1. pc[p] \in Stages(op) /\ op \in Op
        BY <1>1, HeldTypes DEF Placed, Job
    <2>2. p = Warmer => op \in {"none", "warm"}
        BY <1>1 DEF Placed
    <2>3. p # Warmer => op # "warm"
        BY <1>1 DEF Placed
    <2>4. CASE op = "none"
        BY <2>1, <2>2, <2>3, <2>4 DEF Edge, Stages, Choosing, Trying, Adding, Resume
    <2>5. CASE op = "warm"
        BY <2>1, <2>2, <2>3, <2>5 DEF Edge, Stages, Choosing, Trying, Adding, Resume
    <2>6. CASE op = "reload"
        BY <2>1, <2>2, <2>3, <2>6 DEF Edge, Stages, Choosing, Trying, Adding, Resume
    <2>7. CASE op = "enable"
        BY <2>1, <2>2, <2>3, <2>7 DEF Edge, Stages, Choosing, Trying, Adding, Resume
    <2>8. CASE op = "refresh"
        BY <2>1, <2>2, <2>3, <2>8 DEF Edge, Stages, Choosing, Trying, Adding, Resume
    <2>9. CASE op = "disable"
        BY <2>1, <2>2, <2>3, <2>9 DEF Edge, Stages, Choosing, Trying, Adding, Resume
    <2>10. CASE op = "delete"
        BY <2>1, <2>2, <2>3, <2>10 DEF Edge, Stages, Choosing, Trying, Adding, Resume
    <2>11. CASE op = "remove"
        BY <2>1, <2>2, <2>3, <2>11 DEF Edge, Stages, Choosing, Trying, Adding, Resume
    <2>. QED
        BY <2>1, <2>4, <2>5, <2>6, <2>7, <2>8, <2>9, <2>10, <2>11 DEF Op
<1>3. p # Warmer => pc'[p] # "done" /\ holder = p
    BY <1>1 DEF Placed, Edge
<1>4. job[p].claimed => Claims(op) /\ pc'[p] \notin {"lock", "enable", "refresh", "swap"}
    <2>1. pc[p] = "disabled?" => ~Claims(op)
        BY <1>1, HeldTypes DEF Placed, Claims, Stages, Choosing, Trying, Adding
    <2>. QED
        BY <1>1, <2>1 DEF Placed, Edge
<1>5. Claims(op) /\ pc'[p] \in Trying => job[p].claimed
    BY <1>1 DEF Placed, Edge, Trying
<1>6. op = "refresh" /\ pc'[p] = "ok" => job[p].claimed
    BY <1>1, <1>2 DEF Placed, Edge, Stages, Choosing, Trying, Adding
<1>7. Placed(p)'
    BY <1>1, <1>2, <1>3, <1>4, <1>5, <1>6 DEF Placed, Same
<1>8. pc[p] \in Busy \/ job[p].claimed => a \in Known
    BY DEF Located
<1>9. Claimed(p)'
    <2>1. pc'[p] \in Trying => pc[p] \in Trying
        BY <1>1 DEF Edge, Trying
    <2>2. pc'[p] \in Adding \cup {"persist", "enabled"} =>
            pc[p] \in Busy /\ acct[a].initialized
        BY <1>1 DEF Edge, Adding, Claimed, Busy, Label
    <2>3. Trying \subseteq Busy
        BY DEF Trying, Busy, Label
    <2>. QED
        BY <1>1, <1>8, <2>1, <2>2, <2>3 DEF Claimed, Tame, Flags, Same
<1>10. Engaged(p)' => Engaged(p)
    BY <1>1 DEF Edge, Engaged, Same, Trying
<1>11. pc[p] \in Claiming(p) => (pc[p] \in Claiming(p))'
    BY <1>1, <1>2 DEF Edge, Claiming, Same, Placed, Claims, Trying, Resume, Stages, Choosing, Adding
<1>. QED
    BY <1>7, <1>9, <1>10, <1>11, ClaimQuiet DEF Same

\* One account changes, and no claim.
LEMMA TameBecome ==
    ASSUME TypeOK, NEW a \in Ids, NEW r, Become(a, r),
           r.initing = acct[a].initing, r.initialized = acct[a].initialized
    PROVE  Tame
<1>1. Known \subseteq Ids
    BY KnownAreIds
<1>2. acct'[a] = r /\ \A b \in Ids \ {a} : acct'[b] = acct[b]
    BY BecomeOne
<1>. QED
    BY <1>1, <1>2 DEF Tame, Flags

LEMMA TameUnchanged ==
    ASSUME UNCHANGED acct
    PROVE  Tame
BY DEF Tame, Flags

\* The steps that leave the claims alone and go on with the same account.
LEMMA EdgeGoto ==
    ASSUME PoolAssumption, TypeOK, Located, ClaimInv, NEW p \in Procs,
           \/ AttemptFails(p) /\ UNCHANGED job
           \/ addReadySwap(p) \/ addReadyAppend(p) \/ ReloadDone(p)
           \/ EnableRollback(p) \/ EnableRollbackRow(p) \/ EnablePersist(p) \/ EnableApply(p)
           \/ DisableRow(p) \/ DeleteRow(p) \/ DisableApply(p) \/ Remove(p) \/ RemoveRow(p)
    PROVE  ClaimInv'
<1>1. \E l \in Label : Goto(p, l)
    BY ResumeType DEF Label, AttemptFails, Step, addReadySwap, addReadyAppend,
       ReloadDone, EnableRollback, EnableRollbackRow, EnablePersist, EnableApply, DisableRow,
       DeleteRow, StoreFirst, DisableApply, Remove, RemoveRow
<1>2. UNCHANGED job /\ UNCHANGED holder
    BY DEF AttemptFails, addReadySwap, addReadyAppend,
       ReloadDone, EnableRollback, EnableRollbackRow, EnablePersist, EnableApply, DisableRow,
       DeleteRow, StoreFirst, DisableApply, Remove, RemoveRow
<1>3. Alone(p) /\ Same(p)
    BY <1>1, <1>2, GotoAlone DEF Same
<1>4. Tame
    <2>. DEFINE a == job[p].a
    <2>1. CASE UNCHANGED acct
        BY <2>1, TameUnchanged
    <2>2. ASSUME ~UNCHANGED acct
          PROVE  /\ pc[p] \in Busy
                 /\ \E b, c : \/ Become(a, [acct[a] EXCEPT !.disabled = b])
                              \/ Become(a, [acct[a] EXCEPT !.ready = b])
                              \/ Become(a, [acct[a] EXCEPT !.disabled = b, !.removed = c])
        BY <2>2 DEF AttemptFails, addReadySwap, addReadyAppend,
           ReloadDone, EnableRollback, EnableRollbackRow, EnablePersist, EnableApply, DisableRow,
           DeleteRow, StoreFirst, DisableApply, Remove, RemoveRow, At, Busy, Label
    <2>3. CASE ~UNCHANGED acct
        <3>1. a \in Ids /\ acct[a] \in Account
            BY <2>2, <2>3, HeldTypes
        <3>. HIDE DEF a
        <3>2. \A b, c :
                /\ [acct[a] EXCEPT !.disabled = b].initing = acct[a].initing
                /\ [acct[a] EXCEPT !.disabled = b].initialized = acct[a].initialized
                /\ [acct[a] EXCEPT !.ready = b].initing = acct[a].initing
                /\ [acct[a] EXCEPT !.ready = b].initialized = acct[a].initialized
                /\ [acct[a] EXCEPT !.disabled = b, !.removed = c].initing = acct[a].initing
                /\ [acct[a] EXCEPT !.disabled = b, !.removed = c].initialized
                   = acct[a].initialized
            BY <3>1 DEF Account
        <3>3. \A r : Become(a, r) /\ r.initing = acct[a].initing
                     /\ r.initialized = acct[a].initialized => Tame
            BY <3>1, TameBecome
        <3>. QED
            BY <2>2, <2>3, <3>2, <3>3, Zenon DEF a
    <2>. QED
        BY <2>1, <2>3
<1>5. Edge(p)
    <2>1. \A l : Goto(p, l) => pc'[p] = l
        BY <1>2, GotoAlone
    <2>2. CASE AttemptFails(p)
        BY <2>1, <2>2, <1>2 DEF AttemptFails, At, Edge, Step
    <2>3. CASE addReadySwap(p) \/ addReadyAppend(p) \/ ReloadDone(p)
        BY <2>1, <2>3 DEF addReadySwap, addReadyAppend, ReloadDone, At, Edge
    <2>4. CASE EnableRollback(p) \/ EnableRollbackRow(p) \/ EnablePersist(p) \/ EnableApply(p)
        BY <2>1, <2>4 DEF EnableRollback, EnableRollbackRow, EnablePersist, EnableApply, At, Edge
    <2>5. CASE DisableRow(p) \/ DeleteRow(p) \/ DisableApply(p) \/ Remove(p) \/ RemoveRow(p)
        BY <2>1, <2>5 DEF DisableRow, DeleteRow, StoreFirst, DisableApply, Remove, RemoveRow, At,
           Edge
    <2>. QED
        BY <2>2, <2>3, <2>4, <2>5
<1>. QED
    BY <1>2, <1>3, <1>4, <1>5, ClaimEdge

\* The same for the steps that claim, release or hand back in other cases.
LEMMA EdgeOtherwise ==
    ASSUME PoolAssumption, TypeOK, Located, ClaimInv, NEW p \in Procs,
           \/ EnableClaim(p) \/ claimLoad(p)
           \/ claimSwap(p) /\ acct[job[p].a].initing
           \/ InitializationFailed(p) /\ job[p].op \notin {"warm", "reload"}
           \/ addReadyRelease(p) /\ job[p].op = "refresh" /\ acct[job[p].a].ready
    PROVE  ClaimInv'
<1>1. \E l \in Label : Goto(p, l)
    BY ResumeType DEF Label, EnableClaim, claimLoad, claimSwap, InitializationFailed, addReadyRelease
<1>2. UNCHANGED job /\ UNCHANGED holder /\ UNCHANGED acct
    BY DEF EnableClaim, claimLoad, claimSwap, InitializationFailed, addReadyRelease
<1>3. Alone(p) /\ Same(p)
    BY <1>1, <1>2, GotoAlone DEF Same
<1>4. \A l : Goto(p, l) => pc'[p] = l
    BY <1>2, GotoAlone
<1>5. Edge(p)
    <2>1. CASE EnableClaim(p)
        BY <1>4, <2>1 DEF EnableClaim, At, Edge
    <2>2. CASE claimLoad(p)
        BY <1>4, <2>2 DEF claimLoad, At, Edge
    <2>3. CASE claimSwap(p) /\ acct[job[p].a].initing
        BY <1>4, <2>3 DEF claimSwap, Edge
    <2>4. CASE InitializationFailed(p) /\ job[p].op \notin {"warm", "reload"}
        BY <1>4, <2>4 DEF InitializationFailed, At, Edge
    <2>5. CASE addReadyRelease(p) /\ job[p].op = "refresh" /\ acct[job[p].a].ready
        BY <1>4, <2>5 DEF addReadyRelease, At, Edge
    <2>. QED
        BY <2>1, <2>2, <2>3, <2>4, <2>5
<1>. QED
    BY <1>2, <1>3, <1>5, TameUnchanged, ClaimEdge

\* The plan makes new accounts, and no claim.
LEMMA TamePlan ==
    ASSUME TypeOK, NEW p \in Procs, ReloadPlan(p), Unrotated
    PROVE  Tame
<1>. DEFINE snap == job[p].snap
<1>1. \A a \in Ids : acct'[a] = Planned(a, snap) /\ acct[a] \in Account
    BY DEF ReloadPlan, TypeOK
<1>2. Rotated(snap) = {}
    BY DEF Unrotated, Plain, Rotated, Desired
<1>. HIDE DEF snap
<1>3. ASSUME NEW a \in Known
      PROVE  Flags(a)
    <2>1. a \in Ids /\ acct[a] \in Account /\ acct'[a] = Planned(a, snap)
        BY <1>1, KnownAreIds
    <2>. DEFINE gone == [acct[a] EXCEPT !.removed = TRUE]
                kept(k, b) == [acct[a] EXCEPT !.key = k, !.removed = FALSE, !.disabled = b]
                like(r) == r.initing = acct[a].initing /\ r.initialized = acct[a].initialized
    <2>2. acct'[a] = gone \/ \E k, b : acct'[a] = kept(k, b)
        BY <1>2, <2>1 DEF Planned
    <2>3. like(gone) /\ \A k, b : like(kept(k, b))
        BY <2>1 DEF Account
    <2>. HIDE DEF gone, kept
    <2>. QED
        BY <2>2, <2>3 DEF Flags
<1>4. ASSUME NEW a \in Ids, acct'[a].initing
      PROVE  acct[a].initing
    <2>1. ~newAccount(snap[a]).initing
        BY DEF newAccount
    <2>. QED
        BY <1>1, <1>2, <1>4, <2>1 DEF Planned, Account
<1>. QED
    BY <1>3, <1>4 DEF Tame

\* The steps that change local variables.
LEMMA EdgeStep ==
    ASSUME PoolAssumption, TypeOK, Located, Unrotated, ClaimInv, NEW p \in Procs,
           \/ initializationSnapshot(p)
           \/ AttemptFails(p) /\ ~UNCHANGED job
           \/ ReloadPlan(p) \/ ChangedDone(p)
    PROVE  ClaimInv'
<1>1. \E l, x, y : \/ Step(p, l, [job[p] EXCEPT !.key = x])
                   \/ Step(p, l, [job[p] EXCEPT !.tries = x])
                   \/ Step(p, l, [job[p] EXCEPT !.snap = x])
                   \/ Step(p, l, [job[p] EXCEPT !.chg = x, !.need = y])
    <2>1. CASE initializationSnapshot(p)
        BY <2>1, Zenon DEF initializationSnapshot
    <2>2. CASE AttemptFails(p) /\ ~UNCHANGED job
        BY <2>2, Zenon DEF AttemptFails
    <2>4. CASE ReloadPlan(p)
        BY <2>4, Zenon DEF ReloadPlan
    <2>5. CASE ChangedDone(p)
        BY <2>5, Zenon DEF ChangedDone
    <2>. QED
        BY <2>1, <2>2, <2>4, <2>5
<1>2. Alone(p) /\ Same(p)
    <2>1. job[p] \in Job
        BY HeldTypes
    <2>. DEFINE Keeps(j) == /\ j.op = job[p].op /\ j.a = job[p].a
                            /\ j.claimed = job[p].claimed
    <2>2. \A l, j : Step(p, l, j) /\ Keeps(j) => Alone(p) /\ Same(p)
        BY StepAlone DEF Same
    <2>3. \A x, y : /\ Keeps([job[p] EXCEPT !.key = x]) /\ Keeps([job[p] EXCEPT !.tries = x])
                    /\ Keeps([job[p] EXCEPT !.snap = x])
                    /\ Keeps([job[p] EXCEPT !.chg = x, !.need = y])
        BY <2>1 DEF Job
    <2>. HIDE DEF Keeps
    <2>. QED
        BY <1>1, <2>2, <2>3, Zenon
<1>3. \A l, j : Step(p, l, j) => pc'[p] = l
    BY StepAlone
<1>4. Edge(p) /\ UNCHANGED holder
    <2>1. CASE initializationSnapshot(p)
        BY <1>3, <2>1 DEF initializationSnapshot, At, Edge
    <2>2. CASE AttemptFails(p) /\ ~UNCHANGED job
        BY <1>3, <2>2 DEF AttemptFails, At, Edge
    <2>4. CASE ReloadPlan(p) \/ ChangedDone(p)
        BY <1>3, <2>4 DEF ReloadPlan, ChangedDone, At, Edge
    <2>. QED
        BY <2>1, <2>2, <2>4
<1>5. Tame
    <2>1. CASE ReloadPlan(p)
        BY <2>1, TamePlan
    <2>2. CASE ~ReloadPlan(p)
        BY <2>2, TameUnchanged DEF initializationSnapshot, AttemptFails, ChangedDone
    <2>. QED
        BY <2>1, <2>2
<1>. QED
    BY <1>2, <1>4, <1>5, ClaimEdge

\* An account that nobody has claimed is claimed.
LEMMA ClaimTaken ==
    ASSUME PoolAssumption, TypeOK, Located, ClaimInv, NEW p \in Procs, NEW a \in Ids,
           ~acct[a].initing, Become(a, [acct[a] EXCEPT !.initing = TRUE]),
           Alone(p), UNCHANGED holder, pc'[p] = "init", job'[p].a = a,
           Placed(p)', pc[p] \notin Claiming(p)
    PROVE  ClaimInv'
<1>. DEFINE r == [acct[a] EXCEPT !.initing = TRUE]
<1>1. acct'[a] = r /\ \A b \in Ids \ {a} : acct'[b] = acct[b]
    BY BecomeOne
<1>2. r.initing /\ r.initialized = acct[a].initialized
    BY DEF TypeOK, Account
<1>. HIDE DEF r
<1>3. Claimed(p)'
    BY <1>1, <1>2 DEF Claimed, Adding, Trying
<1>4. ASSUME NEW q \in Procs \ {p}, job[q].a = a
      PROVE  Claimed(q)'
    <2>1. Claimed(q) /\ pc'[q] = pc[q] /\ job'[q] = job[q]
        BY DEF ClaimInv, Alone
    <2>. QED
        BY <1>1, <1>2, <1>4, <2>1 DEF Claimed
<1>5. ASSUME NEW q \in Procs \ {p}, job[q].a = a, Engaged(q)
      PROVE  acct'[a].initialized
    BY <1>1, <1>2, <1>5 DEF ClaimInv, Claimed, Engaged
<1>6. Owns(p, a)'
    BY DEF Owns, Claiming
<1>7. \A b \in Known \ {a} : Flags(b)
    BY <1>1, KnownAreIds DEF Flags
<1>8. acct[a].initialized => acct'[a].initialized
    BY <1>1, <1>2
<1>. QED
    BY <1>1, <1>3, <1>4, <1>5, <1>6, <1>7, <1>8, ClaimFrame DEF Owns

LEMMA ClaimTakenBy ==
    ASSUME PoolAssumption, TypeOK, Located, ClaimInv, NEW p \in Procs,
           claimSwap(p), ~acct[job[p].a].initing
    PROVE  ClaimInv'
<1>. DEFINE a == job[p].a
            j(n) == [job[p] EXCEPT !.tries = n, !.claimed = job[p].op \in {"enable", "refresh"}]
<1>1. job[p] \in Job /\ Placed(p)
    BY HeldTypes DEF ClaimInv
<1>2. pc[p] \in {"swap", "refresh"} /\ UNCHANGED holder
    BY DEF claimSwap
<1>3. Become(a, [acct[a] EXCEPT !.initing = TRUE]) /\ \E n : Step(p, "init", j(n))
    BY Zenon DEF claimSwap
<1>4. a \in Ids /\ ~acct[a].initing
    BY <1>2, HeldTypes DEF Busy, Label
<1>5. \A n : /\ j(n).op = job[p].op /\ j(n).a = a
             /\ j(n).claimed <=> job[p].op \in {"enable", "refresh"}
    BY <1>1 DEF Job
<1>. HIDE DEF j
<1>6. PICK n : pc'[p] = "init" /\ job'[p] = j(n) /\ Alone(p)
    BY <1>3, StepAlone
<1>7. job[p].op \in {"warm", "reload", "enable", "refresh"} /\ (p # Warmer => holder = p)
    BY <1>1, <1>2 DEF Placed, Stages, Choosing, Trying, Adding, Job, Op
<1>8. Placed(p)'
    BY <1>1, <1>2, <1>5, <1>6, <1>7 DEF Placed, Stages, Choosing, Trying, Claims
<1>9. pc[p] \notin Claiming(p)
    BY <1>2 DEF Claiming
<1>. QED
    BY <1>2, <1>3, <1>4, <1>5, <1>6, <1>8, <1>9, ClaimTaken

\* Applying the result of an initialization: the account is initialized, and
\* nobody else was trying it.
LEMMA ClaimApplied ==
    ASSUME PoolAssumption, TypeOK, Located, ClaimInv, NEW p \in Procs, applyInitialization(p)
    PROVE  ClaimInv'
<1>. DEFINE a == job[p].a
            r == [acct[a] EXCEPT !.initialized = TRUE, !.settings = job[p].key.ver]
<1>1. pc[p] = "apply" /\ Become(a, r) /\ UNCHANGED <<holder, job>>
    BY DEF applyInitialization, At
<1>2. pc'[p] = Proceed(job[p]) /\ Alone(p)
    BY GotoAlone DEF applyInitialization
<1>3. a \in Ids /\ acct[a] \in Account
    BY <1>1, HeldTypes DEF Busy, Label
<1>4. acct'[a] = r /\ \A b \in Ids \ {a} : acct'[b] = acct[b]
    BY <1>1, <1>3, BecomeOne
<1>5. r.initialized /\ r.initing = acct[a].initing
    BY <1>3 DEF Account
<1>. HIDE DEF r
<1>6. Placed(p) /\ Claimed(p) /\ pc[p] \in Trying /\ job[p].op \in Op
    BY <1>1, HeldTypes DEF ClaimInv, Trying, Job
<1>7. \/ job[p].op = "enable" /\ pc'[p] = "persist"
      \/ job[p].op \in {"warm", "reload", "refresh"} /\ pc'[p] = "ok"
    BY <1>1, <1>2, <1>6 DEF Proceed, Placed, Stages, Choosing, Op
<1>8. Placed(p)'
    BY <1>1, <1>6, <1>7 DEF Placed, Stages, Choosing, Adding, Trying, Claims
<1>9. Claimed(p)'
    BY <1>1, <1>4, <1>5, <1>7 DEF Claimed, Trying
<1>10. ASSUME NEW q \in Procs \ {p}, job[q].a = a
       PROVE  Claimed(q)'
    BY <1>2, <1>4, <1>5, <1>10 DEF Alone, Claimed
<1>11. acct'[a].initialized
    BY <1>4, <1>5
<1>12. \A b \in Ids : Owns(p, b) => Owns(p, b)'
    BY <1>1, <1>6, <1>7 DEF Owns, Claiming, Placed, Claims
<1>13. \A b \in Known \ {a} : Flags(b)
    BY <1>4, KnownAreIds DEF Flags
<1>14. \A q \in Workers \ {p} : holder = q => holder' = q
    BY <1>1
<1>15. Engaged(p)' => job'[p].a = a
    BY <1>1
<1>. HIDE DEF a
<1>. QED
    BY <1>2, <1>4, <1>5, <1>8, <1>9, <1>10, <1>11, <1>12, <1>13, <1>14, <1>15, ClaimFrame

\* A claim is released by the goroutine that has it, or that tried.
LEMMA ClaimReleased ==
    ASSUME PoolAssumption, TypeOK, Located, ClaimInv, NEW p \in Procs, NEW a \in Ids,
           job[p].a = a, Become(a, [acct[a] EXCEPT !.initing = FALSE]),
           Alone(p), \A q \in Workers \ {p} : holder = q => holder' = q,
           Engaged(p) \/ acct[a].initialized, Placed(p)', Claimed(p)',
           Engaged(p)' => job'[p].a = a,
           \A b \in Ids \ {a} : Owns(p, b) => FALSE
    PROVE  ClaimInv'
<1>. DEFINE r == [acct[a] EXCEPT !.initing = FALSE]
<1>1. acct'[a] = r /\ \A b \in Ids \ {a} : acct'[b] = acct[b]
    BY BecomeOne
<1>2. ~r.initing /\ r.initialized = acct[a].initialized
    BY DEF TypeOK, Account
<1>. HIDE DEF r
<1>a. \A q \in Procs : Placed(q) /\ Claimed(q)
    BY DEF ClaimInv
<1>b. ASSUME NEW q \in Workers, Engaged(q)
      PROVE  pc[q] \notin {"idle", "lock"}
    <2>1. Placed(q) /\ q \in Procs
        BY <1>a DEF Procs
    <2>2. CASE job[q].claimed
        <3>1. job[q].op \in {"enable", "refresh"} /\ pc[q] # "lock" /\ pc[q] \in Stages(job[q].op)
            BY <2>1, <2>2 DEF Placed, Claims
        <3>2. CASE job[q].op = "enable"
            BY <3>1, <3>2 DEF Stages, Choosing, Trying, Adding
        <3>3. CASE job[q].op = "refresh"
            BY <3>1, <3>3 DEF Stages, Choosing, Trying, Adding
        <3>. QED
            BY <3>1, <3>2, <3>3
    <2>. QED
        BY <1>b, <2>2 DEF Engaged, Trying
<1>3. ASSUME NEW q \in Procs \ {p}, job[q].a = a
      PROVE  Claimed(q)' /\ (Engaged(q) => acct'[a].initialized)
    <2>1. Claimed(q) /\ pc'[q] = pc[q] /\ job'[q] = job[q]
        BY <1>a DEF Alone
    <2>2. ASSUME Engaged(q), ~acct[a].initialized
          PROVE  FALSE
        <3>1. p \in Workers /\ q \in Workers => FALSE
            BY <1>3, <1>a, <1>b, <2>2, OneWorker
        <3>2. p \in Workers /\ q = Warmer => FALSE
            BY <1>3, <1>a, <2>2, ApartEngaged DEF ClaimInv
        <3>3. p = Warmer /\ q \in Workers => FALSE
            BY <1>3, <1>a, <2>2, ApartEngaged DEF ClaimInv
        <3>. QED
            BY <3>1, <3>2, <3>3 DEF Procs
    <2>3. acct'[a].initialized = acct[a].initialized
        BY <1>1, <1>2
    <2>. QED
        BY <1>1, <1>3, <2>1, <2>2, <2>3 DEF Claimed, Engaged
<1>4. \A b \in Known \ {a} : Flags(b)
    BY <1>1, KnownAreIds DEF Flags
<1>5. \A b \in Ids : acct'[b].initing /\ Owns(p, b) => Owns(p, b)'
    BY <1>1, <1>2
<1>. QED
    BY <1>1, <1>2, <1>3, <1>4, <1>5, ClaimFrame

LEMMA ClaimReleasedBy ==
    ASSUME PoolAssumption, TypeOK, Located, ClaimInv, NEW p \in Procs,
           \/ InitializationFailed(p) /\ job[p].op \in {"warm", "reload"}
           \/ addReadyRelease(p) /\ ~(job[p].op = "refresh" /\ acct[job[p].a].ready)
    PROVE  ClaimInv'
<1>. DEFINE a == job[p].a
<1>1. /\ Become(a, [acct[a] EXCEPT !.initing = FALSE]) /\ UNCHANGED <<holder, job>>
      /\ \/ pc[p] = "failed" /\ Goto(p, Resume(job[p])) /\ job[p].op \in {"warm", "reload"}
         \/ pc[p] = "ok" /\ Goto(p, "adding")
    BY DEF InitializationFailed, addReadyRelease, At
<1>2. Placed(p) /\ Claimed(p)
    BY DEF ClaimInv
<1>3. a \in Ids
    BY <1>1, HeldTypes DEF Busy, Label
<1>4. /\ Alone(p)
      /\ \/ pc[p] = "failed" /\ pc'[p] = Resume(job[p]) /\ job[p].op \in {"warm", "reload"}
         \/ pc[p] = "ok" /\ pc'[p] = "adding"
    <2>1. \A l : Goto(p, l) => pc'[p] = l /\ Alone(p)
        BY <1>1, GotoAlone
    <2>. QED
        BY <1>1, <2>1
<1>5. Placed(p)'
    <2>1. CASE pc[p] = "failed"
        BY <1>1, <1>2, <1>4, <2>1 DEF Placed, Stages, Choosing, Resume, Claims, Trying, Adding
    <2>2. CASE pc[p] = "ok"
        <3>1. job[p].op \in {"warm", "reload", "enable", "refresh"}
            BY <1>2, <2>2, HeldTypes DEF Placed, Stages, Choosing, Job, Op
        <3>. QED
            BY <1>1, <1>2, <1>4, <2>2, <3>1 DEF Placed, Stages, Choosing, Claims, Trying, Adding
    <2>. QED
        BY <1>4, <2>1, <2>2
<1>6. Engaged(p) \/ acct[a].initialized
    BY <1>2, <1>4 DEF Engaged, Trying, Claimed, Adding
<1>8. Claimed(p)'
    <2>1. acct'[a] = [acct[a] EXCEPT !.initing = FALSE] /\ acct[a] \in Account
        BY <1>1, <1>3, BecomeOne DEF TypeOK
    <2>2. acct'[a].initialized = acct[a].initialized
        BY <2>1 DEF Account
    <2>3. CASE pc[p] = "failed"
        <3>1. ~job[p].claimed /\ pc'[p] \in {"need", "changed", "unlock"}
            BY <1>2, <1>4, <2>3, ResumeType DEF Placed, Claims
        <3>. QED
            BY <1>1, <3>1 DEF Claimed, Trying, Adding
    <2>4. CASE pc[p] = "ok"
        BY <1>1, <1>2, <1>4, <2>2, <2>4 DEF Claimed, Trying, Adding
    <2>. QED
        BY <1>4, <2>3, <2>4
<1>. QED
    BY <1>1, <1>3, <1>4, <1>5, <1>6, <1>8, ClaimReleased DEF Owns

\* Operations begin and end without a claim.
LEMMA ClaimRestart ==
    ASSUME PoolAssumption, TypeOK, Located, ClaimInv, NEW p \in Procs,
           Alone(p), \A q \in Workers \ {p} : holder = q => holder' = q,
           UNCHANGED acct, pc[p] \in {"idle", "lock", "need", "unlock"}, ~job[p].claimed,
           pc'[p] \notin Trying \cup Adding \cup {"persist", "enabled"}, ~job'[p].claimed,
           Placed(p)'
    PROVE  ClaimInv'
<1>1. pc[p] \notin Claiming(p)
    BY DEF Claiming
<1>2. ~Engaged(p)' /\ Claimed(p)'
    BY DEF Engaged, Claimed
<1>. QED
    BY <1>1, <1>2, TameUnchanged, ClaimQuiet

\* The next account of a loop.
LEMMA ClaimChosen ==
    ASSUME PoolAssumption, TypeOK, Located, ClaimInv, NEW p \in Procs, claimInit(p)
    PROVE  ClaimInv'
<1>. DEFINE a == Min(job[p].need)
            n == job[p].need \ {a}
            j == [job[p] EXCEPT !.need = n, !.a = a]
<1>1. job[p] \in Job /\ Placed(p)
    BY HeldTypes DEF ClaimInv
<1>2. pc[p] = "need" /\ UNCHANGED <<acct, holder>>
    BY DEF claimInit, At
<1>3. \E l \in {"need", "removed?"} : Step(p, l, j)
    BY Zenon DEF claimInit
<1>. HIDE DEF a, n
<1>4. j.op = job[p].op /\ j.claimed = job[p].claimed
    BY <1>1 DEF Job
<1>. HIDE DEF j
<1>5. pc'[p] \in {"need", "removed?"} /\ job'[p] = j /\ Alone(p)
    BY <1>3, StepAlone
<1>6. job[p].op \in {"warm", "reload"} /\ ~job[p].claimed
    BY <1>1, <1>2 DEF Placed, Stages, Choosing, Trying, Adding, Claims, Job, Op
<1>7. Placed(p)'
    BY <1>1, <1>2, <1>4, <1>5, <1>6 DEF Placed, Stages, Choosing, Trying, Claims
<1>. QED
    BY <1>2, <1>4, <1>5, <1>6, <1>7, ClaimRestart DEF Trying, Adding

\* An operation waits for the lock only if it is one of the workers'.
LEMMA ClaimCall ==
    ASSUME PoolAssumption, TypeOK, Located, ClaimInv, NEW p \in Workers, NEW op \in Ops,
           NEW a, Call(p, op, a)
    PROVE  ClaimInv'
<1>. DEFINE s == IF op = "reload" THEN row ELSE NoSnapshot
            j == [NoJob EXCEPT !.op = op, !.a = a, !.snap = s]
<1>1. /\ Step(p, "lock", j) /\ pc[p] = "idle" /\ p \in Procs /\ p # Warmer
      /\ UNCHANGED <<acct, holder>>
    BY DEF Call, At, Procs, PoolAssumption
<1>. HIDE DEF s
<1>2. j.op = op /\ ~j.claimed
    BY DEF NoJob
<1>. HIDE DEF j
<1>3. pc'[p] = "lock" /\ job'[p] = j /\ Alone(p)
    BY <1>1, StepAlone
<1>4. op \in {"reload", "enable", "disable", "delete", "remove", "refresh"}
    BY DEF PoolAssumption
<1>5. Placed(p)'
    BY <1>1, <1>2, <1>3, <1>4 DEF Placed, Stages, Choosing, Claims, Trying, Adding
<1>6. ~job[p].claimed
    <2>1. Placed(p)
        BY <1>1 DEF ClaimInv
    <2>. QED
        BY <1>1, <2>1 DEF Placed, Claims, Stages, Choosing, Trying, Adding
<1>. QED
    BY <1>1, <1>2, <1>3, <1>5, <1>6, ClaimRestart DEF Trying, Adding

\* Nothing to do: back to idle.
LEMMA PlacedIdle ==
    ASSUME NEW p \in Procs, pc'[p] \in {"idle", "done"}, job'[p].op = "none", ~job'[p].claimed,
           p = Warmer \/ pc'[p] = "idle"
    PROVE  Placed(p)'
BY DEF Placed, Stages, Choosing, Claims, Trying, Adding

LEMMA ClaimLock ==
    ASSUME PoolAssumption, TypeOK, Located, ClaimInv, NEW p \in Workers, Lock(p)
    PROVE  ClaimInv'
<1>1. p \in Procs /\ p # Warmer /\ pc[p] = "lock" /\ holder = Nobody /\ UNCHANGED acct
    BY DEF Lock, At, Procs, PoolAssumption
<1>2. Placed(p)
    BY <1>1 DEF ClaimInv
<1>3. ~job[p].claimed /\ job[p].op \in Op \ {"none", "warm"}
    BY <1>1, <1>2 DEF Placed, Located
<1>4. \A q \in Workers : holder # q
    BY <1>1 DEF PoolAssumption
<1>5. CASE UNCHANGED job /\ holder' = p
    <2>1. Goto(p, IF job[p].op = "reload" THEN "plan" ELSE job[p].op)
        BY <1>4, <1>5 DEF Lock
    <2>2. pc'[p] = (IF job[p].op = "reload" THEN "plan" ELSE job[p].op) /\ Alone(p)
        BY <1>1, <1>5, <2>1, GotoAlone
    <2>3. Placed(p)'
        BY <1>1, <1>3, <1>5, <2>2 DEF Placed, Stages, Choosing, Claims, Trying, Adding, Op
    <2>. QED
        BY <1>1, <1>3, <1>4, <1>5, <2>2, <2>3, ClaimRestart DEF Trying, Adding, Op
<1>6. CASE Step(p, "idle", NoJob)
    <2>1. pc'[p] = "idle" /\ job'[p] = NoJob /\ Alone(p)
        BY <1>1, <1>6, StepAlone
    <2>2. ~NoJob.claimed /\ NoJob.op = "none"
        BY DEF NoJob
    <2>. QED
        BY <1>1, <1>3, <1>4, <2>1, <2>2, PlacedIdle, ClaimRestart DEF Trying, Adding
<1>. QED
    BY <1>5, <1>6 DEF Lock

LEMMA ClaimWarm ==
    ASSUME PoolAssumption, TypeOK, Located, ClaimInv, WarmNext \/ WarmBatchDone \/ WarmReturn
    PROVE  ClaimInv'
<1>. DEFINE p == Warmer
<1>1. p \in Procs /\ UNCHANGED <<acct, holder>> /\ pc[p] \in {"idle", "need"}
    BY DEF WarmNext, WarmBatchDone, WarmReturn, At, Procs
<1>2. ~job[p].claimed /\ ~NoJob.claimed /\ NoJob.op = "none"
    BY WarmerTries DEF NoJob, ClaimInv
<1>3. CASE WarmNext
    <2>1. PICK n : Step(p, "need", [NoJob EXCEPT !.op = "warm", !.need = n])
        BY <1>3 DEF WarmNext
    <2>. DEFINE j == [NoJob EXCEPT !.op = "warm", !.need = n]
    <2>2. j.op = "warm" /\ ~j.claimed
        BY DEF NoJob
    <2>. HIDE DEF j
    <2>3. pc'[p] = "need" /\ job'[p] = j /\ Alone(p)
        BY <1>1, <2>1, StepAlone DEF j
    <2>4. Placed(p)'
        BY <2>2, <2>3 DEF Placed, Stages, Choosing, Claims, Trying, Adding
    <2>. QED
        BY <1>1, <1>2, <2>2, <2>3, <2>4, ClaimRestart DEF Trying, Adding
<1>4. CASE WarmBatchDone
    <2>1. pc'[p] = "idle" /\ job'[p] = NoJob /\ Alone(p)
        BY <1>1, <1>4, StepAlone DEF WarmBatchDone
    <2>. QED
        BY <1>1, <1>2, <2>1, PlacedIdle, ClaimRestart DEF Trying, Adding
<1>5. CASE WarmReturn
    <2>1. pc'[p] = "done" /\ Alone(p) /\ UNCHANGED job /\ pc[p] = "idle"
        BY <1>1, <1>5, GotoAlone DEF WarmReturn, At
    <2>2. Placed(p)
        BY <1>1 DEF ClaimInv
    <2>3. job[p].op = "none"
        BY <2>1, <2>2 DEF Placed, Stages, Choosing, Trying, Adding
    <2>. QED
        BY <1>1, <1>2, <2>1, <2>3, PlacedIdle, ClaimRestart DEF Trying, Adding
<1>. QED
    BY <1>3, <1>4, <1>5

LEMMA ClaimUnlock ==
    ASSUME PoolAssumption, TypeOK, Located, ClaimInv, NEW p \in Workers, Unlock(p)
    PROVE  ClaimInv'
<1>1. p \in Procs /\ p # Warmer /\ pc[p] = "unlock" /\ Step(p, "idle", NoJob)
    BY DEF Unlock, At, Procs, PoolAssumption
<1>2. pc'[p] = "idle" /\ job'[p] = NoJob /\ Alone(p)
    BY <1>1, StepAlone
<1>3. ~NoJob.claimed /\ NoJob.op = "none"
    BY DEF NoJob
<1>4. Placed(p)' /\ ~Engaged(p)' /\ Claimed(p)'
    BY <1>1, <1>2, <1>3, PlacedIdle DEF Engaged, Claimed, Trying, Adding
<1>5. holder = p
    BY <1>1 DEF ClaimInv, Placed
<1>6. CASE job[p].claimed
    <2>. DEFINE a == job[p].a
    <2>1. a \in Ids
        BY <1>1, <1>6, HeldTypes
    <2>2. Become(a, [acct[a] EXCEPT !.initing = FALSE])
        BY <1>6 DEF Unlock, Become
    <2>3. Engaged(p)
        BY <1>6 DEF Engaged
    <2>4. \A b \in Ids \ {a} : Owns(p, b) => FALSE
        BY DEF Owns
    <2>. QED
        BY <1>1, <1>2, <1>4, <1>5, <2>1, <2>2, <2>3, <2>4, ClaimReleased
<1>7. CASE ~job[p].claimed
    BY <1>1, <1>2, <1>3, <1>4, <1>5, <1>7, ClaimRestart DEF Unlock, Trying, Adding
<1>. QED
    BY <1>6, <1>7

\* No key changes, so none is installed.
LEMMA NoInstall ==
    ASSUME TypeOK, Unrotated, ClaimInv, NEW p \in Procs
    PROVE  ~installCandidate(p) /\ ~installInitialized(p) /\ ~InstallChanged(p)
<1>1. job[p].chg = {} /\ pc[p] \in Stages(job[p].op) /\ job[p].op \in Op
    <2>1. job[p] \in Job
        BY DEF TypeOK
    <2>. QED
        BY <2>1 DEF Unrotated, Plain, ClaimInv, Placed, Job
<1>2. pc[p] \notin {"installed", "flags"}
    BY <1>1 DEF Stages, Choosing, Trying, Adding, Op
<1>. QED
    BY <1>1, <1>2 DEF installCandidate, installInitialized, InstallChanged, At

\* Every step keeps the claims apart.
LEMMA ClaimInvariant ==
    ASSUME PoolAssumption, TypeOK, Located, Unrotated, ClaimInv, [Next]_vars
    PROVE  ClaimInv'
<1>1. ASSUME NEW p \in Procs, Initialize(p)
      PROVE  ClaimInv'
    <2>1. CASE initializationSnapshot(p) \/ AttemptFails(p)
        <3>1. CASE UNCHANGED job /\ AttemptFails(p)
            BY <3>1, EdgeGoto
        <3>2. CASE ~UNCHANGED job /\ AttemptFails(p)
            BY <3>2, EdgeStep
        <3>3. CASE initializationSnapshot(p)
            BY <3>3, EdgeStep
        <3>. QED
            BY <2>1, <3>1, <3>2, <3>3
    <2>2. CASE addReadySwap(p) \/ addReadyAppend(p)
        BY <2>2, EdgeGoto
    <2>3. CASE InitializationFailed(p) \/ addReadyRelease(p)
        BY <2>3, EdgeOtherwise, ClaimReleasedBy
    <2>4. CASE claimInit(p)
        BY <2>4, ClaimChosen
    <2>5. CASE claimLoad(p) \/ claimSwap(p)
        BY <2>5, EdgeOtherwise, ClaimTakenBy
    <2>6. CASE applyInitialization(p)
        BY <2>6, ClaimApplied
    <2>. QED
        BY <1>1, <2>1, <2>2, <2>3, <2>4, <2>5, <2>6 DEF Initialize
<1>2. ASSUME NEW p \in Workers, Reload(p)
      PROVE  ClaimInv'
    <2>1. p \in Procs
        BY DEF Procs
    <2>. QED
        BY <1>2, <2>1, NoInstall, EdgeStep, EdgeGoto DEF Reload
<1>3. ASSUME NEW p \in Workers, SetEnabledReason(p)
      PROVE  ClaimInv'
    <2>1. p \in Procs
        BY DEF Procs
    <2>2. CASE EnableClaim(p)
        BY <2>1, <2>2, EdgeOtherwise
    <2>. QED
        BY <1>3, <2>1, <2>2, EdgeGoto DEF SetEnabledReason
<1>4. ASSUME NEW p \in Workers, Remove(p) \/ RemoveRow(p)
      PROVE  ClaimInv'
    <2>1. p \in Procs
        BY DEF Procs
    <2>. QED
        BY <1>4, <2>1, EdgeGoto
<1>5. CASE Surroundings \/ UNCHANGED vars
    BY <1>5 DEF Surroundings, CreateAccount, RotateKey, vars, ClaimInv, Placed, Claimed, Apart,
       ClaimOwned, Claiming
<1>6. Warmer \in Procs
    BY DEF Procs
<1>. QED
    BY <1>1, <1>2, <1>3, <1>4, <1>5, <1>6, ClaimWarm, ClaimLock, ClaimUnlock, ClaimCall
       DEF Next, Warm, Work, Procs

LEMMA ClaimInit == PoolAssumption /\ Init => ClaimInv
<1>. SUFFICES ASSUME PoolAssumption, Init
              PROVE  ClaimInv
    OBVIOUS
<1>1. ASSUME NEW p \in Procs
      PROVE  pc[p] = "idle" /\ job[p].op = "none" /\ ~job[p].claimed
    BY DEF Init, NoJob
<1>2. \A p \in Procs : Placed(p) /\ Claimed(p)
    BY <1>1 DEF Placed, Claimed, Stages, Choosing, Claims, Trying, Adding
<1>3. Apart
    BY <1>1 DEF Apart, Procs, Trying
<1>4. ASSUME NEW a \in Ids
      PROVE  ~acct[a].initing
    <2>. DEFINE r == newAccount(row[a])
    <2>1. \E b, c, n : acct[a] = [r EXCEPT !.initialized = b, !.ready = c, !.settings = n]
        <3>1. PICK ok \in SUBSET (1..BootCount) :
                acct = [b \in Ids |->
                          [newAccount(row[b]) EXCEPT
                             !.initialized = b \in ok, !.ready = b \in ok,
                             !.settings = IF b \in ok THEN 0 ELSE -1]]
            BY DEF Init
        <3>2. acct[a] = [r EXCEPT !.initialized = a \in ok, !.ready = a \in ok,
                                  !.settings = IF a \in ok THEN 0 ELSE -1]
            BY <3>1
        <3>. HIDE DEF r
        <3>. QED
            BY <3>2
    <2>2. ~r.initing /\ "initing" \in DOMAIN r
        BY DEF newAccount
    <2>. HIDE DEF r
    <2>. QED
        BY <2>1, <2>2
<1>. QED
    BY <1>2, <1>3, <1>4 DEF ClaimInv, ClaimOwned

LEMMA ClaimInvariantHolds ==
    MaxRotations = 0 => (Spec => [](PoolInv /\ Unrotated /\ ClaimInv))
<1>. SUFFICES ASSUME MaxRotations = 0
              PROVE  Spec => [](PoolInv /\ Unrotated /\ ClaimInv)
    OBVIOUS
<1>1. Init => Unrotated /\ ClaimInv
    BY PoolAssumption, UnrotatedInit, ClaimInit
<1>2. PoolInv /\ Unrotated /\ ClaimInv /\ [Next]_vars => Unrotated' /\ ClaimInv'
    BY PoolAssumption, UnrotatedKept, ClaimInvariant DEF PoolInv
<1>. QED
    BY <1>1, <1>2, PoolInvariant, PTL DEF Spec

(***************************************************************************)
(* Two goroutines never initialize an account at a time that has not been  *)
(* initialized, and every claim belongs to an operation under way, as long *)
(* as no credential is replaced under its id: although claimInit swaps     *)
(* initing after loads that may be old by then, and the deferred           *)
(* releaseInit of SetEnabledReason and Refresh releases whatever claim it  *)
(* finds.                                                                  *)
(***************************************************************************)
THEOREM ClaimsStayExclusive == MaxRotations = 0 => (Spec => []ClaimsExclusive)
<1>1. ASSUME PoolInv, ClaimInv
      PROVE  ClaimsExclusive
    <2>1. \A p \in Procs : Placed(p)
        BY <1>1 DEF ClaimInv
    <2>2. ASSUME NEW p \in Procs, NEW q \in Procs, NEW a \in Ids,
                 Initializing(p, a), Initializing(q, a)
          PROVE  p = q \/ acct[a].initialized
        <3>1. /\ pc[p] \in Trying /\ pc[q] \in Trying /\ job[p].a = job[q].a
              /\ pc[p] \notin {"idle", "lock"} /\ pc[q] \notin {"idle", "lock"} /\ job[p].a = a
            BY <2>2 DEF Initializing, Trying
        <3>2. p \in Workers /\ q \in Workers => p = q
            BY <1>1, <2>1, <3>1, OneWorker DEF PoolInv
        <3>. QED
            BY <1>1, <3>1, <3>2 DEF ClaimInv, Apart, Procs
    <2>. QED
        BY <1>1, <2>2 DEF ClaimsExclusive, SingleInitializer, ClaimInv
<1>2. MaxRotations = 0 => (Spec => [](PoolInv /\ Unrotated /\ ClaimInv))
    BY ClaimInvariantHolds
<1>. QED
    BY <1>1, <1>2, PTL

(***************************************************************************)
(* The table and the flags, and the slots.                                 *)
(***************************************************************************)
Alike(b) == /\ acct'[b].ready = acct[b].ready /\ acct'[b].initialized = acct[b].initialized
            /\ acct'[b].disabled = acct[b].disabled /\ acct'[b].removed = acct[b].removed
Rows(j) == \A b \in Ids : b >= nextId => j.snap[b].state = "none"

\* Only the holder of reconcileMu is between two writes.
LEMMA OnlyHolder ==
    ASSUME TypeOK, ClaimInv, NEW p \in Workers, pc[p] \notin {"idle", "lock"},
           NEW q \in Procs \ {p}
    PROVE  q = Warmer \/ pc[q] \in {"idle", "lock"}
BY OneWorker DEF ClaimInv, Procs

LEMMA WarmerBusy ==
    ASSUME ClaimInv
    PROVE  pc[Warmer] \in {"idle", "done", "need"} \cup Choosing \cup Trying \cup Adding
BY DEF ClaimInv, Placed, Procs, Stages, Choosing

\* Between operations the holder finds every account settled.
LEMMA AgreeNow ==
    ASSUME TypeOK, ClaimInv, FollowInv, NEW p \in Workers,
           pc[p] \notin {"idle", "lock"} \cup Halfway, NEW a \in Known, a \notin suspect
    PROVE  Agree(a)
<1>1. \A q \in Workers : pc[q] \notin Halfway
    BY OneWorker DEF ClaimInv, Halfway, Procs
<1>. QED
    BY <1>1 DEF FollowInv, Settled

\* Steps that do not touch rows and flags.
LEMMA FollowCalm ==
    ASSUME PoolAssumption, TypeOK, Located, ClaimInv, FollowInv, NEW p \in Procs, Alone(p),
           UNCHANGED <<row, nextId, configured, suspect>>,
           \A b \in Ids : acct'[b].disabled = acct[b].disabled /\ acct'[b].removed = acct[b].removed,
           pc[p] \notin Halfway, pc'[p] \notin Halfway, Rows(job'[p])
    PROVE  FollowInv'
<1>1. Known' = Known /\ Known \subseteq Ids
    BY KnownAreIds DEF Known
<1>2. Inserted'
    BY <1>1 DEF FollowInv, Inserted, Alone, Rows
<1>3. ASSUME NEW q \in Workers
      PROVE  Written(q)'
    <2>1. Written(q) /\ q \in Procs
        BY DEF FollowInv, Procs
    <2>2. CASE q = p
        BY <2>2 DEF Written, Halfway
    <2>3. CASE q # p /\ pc[q] \in Halfway
        <3>1. pc'[q] = pc[q] /\ job'[q] = job[q]
            BY <2>1, <2>3 DEF Alone
        <3>2. pc[q] = "removing" \/ pc[q] = "unrow" => job[q].a \in Ids
            BY <2>1, HeldTypes DEF Busy, Label
        <3>. QED
            BY <2>1, <3>1, <3>2 DEF Written, Gone
    <2>4. CASE q # p /\ pc[q] \notin Halfway
        BY <2>1, <2>4 DEF Alone, Written, Halfway
    <2>. QED
        BY <2>2, <2>3, <2>4
<1>4. ASSUME NEW a \in Known \ suspect, Settled(a)'
      PROVE  Agree(a)'
    <2>1. Settled(a)
        BY <1>4 DEF Settled, Alone, Procs
    <2>2. Agree(a) /\ a \in Ids
        BY <1>1, <2>1 DEF FollowInv
    <2>. QED
        BY <2>2 DEF Agree, Gone
<1>. QED
    BY <1>1, <1>2, <1>3, <1>4 DEF FollowInv

\* A step of the holder that touches its account or the row of it.
LEMMA FollowOne ==
    ASSUME PoolAssumption, TypeOK, Located, ClaimInv, FollowInv, NEW p \in Workers, NEW a \in Ids,
           job[p].a = a, pc[p] \in Busy, Alone(p), UNCHANGED <<job, nextId, configured>>,
           suspect \subseteq suspect',
           \A b \in Ids \ {a} : row'[b] = row[b] /\ acct'[b] = acct[b],
           Written(p)',
           a \in Known /\ a \notin suspect' /\ pc'[p] \notin Halfway => Agree(a)'
    PROVE  FollowInv'
<1>1. Known' = Known /\ Known \subseteq Ids /\ a \in Known
    BY KnownAreIds DEF Known, Located, Procs
<1>2. pc[p] \notin {"idle", "lock"} /\ p \in Procs
    BY DEF Busy, Procs
<1>3. Inserted'
    <2>1. a < nextId
        BY <1>1 DEF FollowInv, Inserted
    <2>. QED
        BY <1>1, <2>1 DEF FollowInv, Inserted, Ids
<1>4. ASSUME NEW q \in Workers \ {p}
      PROVE  pc[q] \in {"idle", "lock"} /\ pc'[q] = pc[q]
    BY <1>2, OneWorker DEF ClaimInv, Alone, Procs
<1>5. ASSUME NEW q \in Workers
      PROVE  Written(q)'
    BY <1>4 DEF Written
<1>6. ASSUME NEW b \in Known, b \notin suspect', Settled(b)'
      PROVE  Agree(b)'
    <2>1. CASE b = a
        BY <1>6, <2>1 DEF Settled
    <2>2. CASE b # a
        <3>1. Settled(b)
            BY <1>4, <2>2 DEF Settled, Halfway
        <3>2. Agree(b) /\ b \in Ids
            BY <1>1, <1>6, <3>1 DEF FollowInv
        <3>. QED
            BY <2>2, <3>2 DEF Agree, Gone
    <2>. QED
        BY <2>1, <2>2
<1>. QED
    BY <1>1, <1>3, <1>5, <1>6 DEF FollowInv

\* Slots: steps that leave what is served alone, and steps on one account.
LEMMA ServedCalm ==
    ASSUME TypeOK, ServedInv, \A a \in Slots : a \in Known, NEW p \in Procs, Alone(p),
           UNCHANGED <<accounts, configured>>, suspect \subseteq suspect',
           \A b \in Known : Alike(b),
           InHand(p) => InHand(p)' /\ job'[p].a = job[p].a, pc[p] # "append"
    PROVE  ServedInv'
<1>1. Known' = Known /\ Slots' = Slots
    BY DEF Known, Slots
<1>2. ASSUME NEW b \in Known
      PROVE  Serve(b)'
    <2>1. Serve(b) /\ Alike(b)
        BY DEF ServedInv
    <2>2. Coming(b) => Coming(b)'
        BY DEF Coming, InHand, Alone
    <2>3. (\E q \in Procs : job[q].a = b /\ pc[q] = "append") =>
            \E q \in Procs : job'[q].a = b /\ pc'[q] = "append"
        BY DEF Alone
    <2>. QED
        BY <1>1, <2>1, <2>2, <2>3 DEF Serve, Alike
<1>. QED
    BY <1>1, <1>2 DEF ServedInv, Alike

LEMMA ServedOne ==
    ASSUME TypeOK, ServedInv, \A a \in Slots : a \in Known, NEW p \in Procs, NEW a \in Ids,
           job[p].a = a, Alone(p), UNCHANGED <<job, configured>>, suspect \subseteq suspect',
           Slots \subseteq Slots', Slots' \subseteq Slots \cup {a},
           \A b \in Known \ {a} : acct'[b] = acct[b],
           a \in Slots' => acct'[a].initialized, a \in Known => Serve(a)'
    PROVE  ServedInv'
<1>1. Known' = Known
    BY DEF Known
<1>2. ASSUME NEW b \in Known \ {a}
      PROVE  Serve(b)'
    <2>1. Serve(b) /\ acct'[b] = acct[b]
        BY DEF ServedInv
    <2>2. Coming(b) => Coming(b)'
        BY DEF Coming, InHand, Alone
    <2>3. (\E q \in Procs : job[q].a = b /\ pc[q] = "append") =>
            \E q \in Procs : job'[q].a = b /\ pc'[q] = "append"
        BY DEF Alone
    <2>. QED
        BY <1>1, <2>1, <2>2, <2>3 DEF Serve
<1>. QED
    BY <1>1, <1>2 DEF ServedInv

(***************************************************************************)
(* The steps, one group after another.                                     *)
(***************************************************************************)
LEMMA StoreCalm ==
    ASSUME PoolAssumption, TypeOK, Located, SlotInv, Unrotated, ClaimInv, FollowInv, ServedInv,
           [Next]_vars, NEW p \in Procs, Alone(p),
           UNCHANGED <<row, nextId, configured, suspect, accounts>>,
           \A b \in Ids : Alike(b),
           InHand(p) => InHand(p)' /\ job'[p].a = job[p].a, pc[p] # "append",
           pc[p] \notin Halfway, pc'[p] \notin Halfway
    PROVE  FollowInv' /\ ServedInv'
<1>1. Rows(job'[p])
    <2>1. Like(p, job'[p])
        BY JobsAlike
    <2>2. \A b \in Ids : b >= nextId =>
            /\ job[p].snap[b].state = "none" /\ row[b].state = "none"
            /\ NoSnapshot[b].state = "none"
        BY DEF FollowInv, Inserted, NoSnapshot, NoRow
    <2>. QED
        BY <2>1, <2>2 DEF Like, Rows
<1>2. FollowInv'
    BY <1>1, FollowCalm DEF Alike
<1>3. ServedInv'
    BY KnownAreIds, ServedCalm DEF SlotInv
<1>. QED
    BY <1>2, <1>3

\* Claims do not count here.
LEMMA AlikeClaims ==
    ASSUME TypeOK, \/ UNCHANGED acct
                   \/ \E a \in Ids, b \in BOOLEAN : Become(a, [acct[a] EXCEPT !.initing = b])
    PROVE  \A b \in Ids : Alike(b)
<1>1. CASE UNCHANGED acct
    BY <1>1 DEF Alike
<1>2. ASSUME NEW a \in Ids, NEW c \in BOOLEAN, Become(a, [acct[a] EXCEPT !.initing = c])
      PROVE  \A b \in Ids : Alike(b)
    <2>. DEFINE r == [acct[a] EXCEPT !.initing = c]
    <2>1. /\ r.ready = acct[a].ready /\ r.initialized = acct[a].initialized
          /\ r.disabled = acct[a].disabled /\ r.removed = acct[a].removed
        BY DEF TypeOK, Account
    <2>2. acct'[a] = r /\ \A b \in Ids \ {a} : acct'[b] = acct[b]
        BY <1>2, BecomeOne
    <2>. HIDE DEF r
    <2>. QED
        BY <2>1, <2>2 DEF Alike
<1>. QED
    BY <1>1, <1>2

\* The steps that only move, claim or release.
Calming(p) ==
    \/ initializationSnapshot(p) \/ AttemptFails(p) \/ InitializationFailed(p)
    \/ claimInit(p) \/ claimLoad(p) \/ claimSwap(p) \/ EnableClaim(p)
    \/ addReadyRelease(p) /\ ~(job[p].op = "refresh" /\ acct[job[p].a].ready)
    \/ ChangedDone(p) \/ ReloadDone(p)
    \/ Lock(p) \/ Unlock(p)
    \/ p = Warmer /\ (WarmNext \/ WarmBatchDone \/ WarmReturn)
    \/ \E op \in Ops, a \in Ids \cup {0} : Call(p, op, a)

LEMMA StoreCalming ==
    ASSUME PoolAssumption, TypeOK, Located, SlotInv, Unrotated, ClaimInv, FollowInv, ServedInv,
           [Next]_vars, NEW p \in Procs, Calming(p)
    PROVE  FollowInv' /\ ServedInv'
<1>1. UNCHANGED <<row, nextId, configured, suspect, accounts>>
    BY DEF Calming, table, lists, initializationSnapshot, AttemptFails, InitializationFailed,
       claimInit, claimLoad, claimSwap, EnableClaim, addReadyRelease, ChangedDone, ReloadDone, Lock,
       Unlock, WarmNext, WarmBatchDone, WarmReturn, Call
<1>2. \A b \in Ids : Alike(b)
    <2>2. CASE Unlock(p)
        <3>1. CASE job[p].claimed
            <4>1. job[p].a \in Ids
                BY <3>1, HeldTypes
            <4>2. Become(job[p].a, [acct[job[p].a] EXCEPT !.initing = FALSE])
                BY <2>2, <3>1 DEF Unlock, Become
            <4>. QED
                BY <4>1, <4>2, AlikeClaims
        <3>2. CASE ~job[p].claimed
            BY <2>2, <3>2, AlikeClaims DEF Unlock
        <3>. QED
            BY <3>1, <3>2
    <2>3. CASE InitializationFailed(p) \/ addReadyRelease(p) \/ claimSwap(p)
        <3>1. pc[p] \in Busy
            BY <2>3 DEF InitializationFailed, addReadyRelease, claimSwap, At, Busy, Label
        <3>2. job[p].a \in Ids
            BY <3>1, HeldTypes
        <3>3. \/ UNCHANGED acct
              \/ \E b \in BOOLEAN : Become(job[p].a, [acct[job[p].a] EXCEPT !.initing = b])
            BY <2>3 DEF InitializationFailed, addReadyRelease, claimSwap
        <3>. QED
            BY <3>2, <3>3, AlikeClaims
    <2>4. CASE \/ initializationSnapshot(p) \/ AttemptFails(p) \/ ChangedDone(p) \/ ReloadDone(p)
               \/ claimInit(p) \/ claimLoad(p) \/ EnableClaim(p)
               \/ Lock(p) \/ WarmNext \/ WarmBatchDone \/ WarmReturn
               \/ \E op \in Ops, a \in Ids \cup {0} : Call(p, op, a)
        <3>1. UNCHANGED acct
            BY <2>4 DEF initializationSnapshot, AttemptFails, ChangedDone, ReloadDone, claimInit,
               claimLoad, EnableClaim, Lock, Call, WarmNext, WarmBatchDone, WarmReturn
        <3>. QED
            BY <3>1, AlikeClaims
    <2>. QED
        BY <2>2, <2>3, <2>4 DEF Calming
<1>3. /\ Alone(p)
      /\ \/ /\ pc[p] \in {"idle", "lock", "init", "apply", "failed", "need", "removed?",
                          "disabled?", "swap", "changed", "enable", "refresh", "unlock"}
            /\ pc'[p] \notin Halfway
         \/ pc[p] = "ok" /\ pc'[p] = "adding" /\ UNCHANGED job
    <2>a. \A l : Goto(p, l) /\ UNCHANGED job => pc'[p] = l /\ Alone(p)
        BY GotoAlone
    <2>b. \A l, j : Step(p, l, j) => pc'[p] = l /\ Alone(p)
        BY StepAlone
    <2>1. CASE initializationSnapshot(p) \/ AttemptFails(p) \/ InitializationFailed(p)
        BY <2>1, <2>a, <2>b, ResumeType
           DEF initializationSnapshot, AttemptFails, InitializationFailed, At, Halfway
    <2>2. CASE claimInit(p) \/ ChangedDone(p) \/ ReloadDone(p)
        BY <2>2, <2>a, <2>b DEF claimInit, ChangedDone, ReloadDone, At, Halfway
    <2>3. CASE addReadyRelease(p) /\ ~(job[p].op = "refresh" /\ acct[job[p].a].ready)
        BY <2>3, <2>a DEF addReadyRelease, At
    <2>4. CASE EnableClaim(p) \/ claimLoad(p) \/ claimSwap(p)
        <3>1. /\ pc'[p] \in {"persist", "disabled?", "swap", "init", "need", "changed", "unlock"}
              /\ Alone(p)
            BY <2>4, <2>a, <2>b, ResumeType DEF EnableClaim, claimLoad, claimSwap
        <3>. QED
            BY <2>4, <3>1 DEF EnableClaim, claimLoad, claimSwap, At, Halfway
    <2>5. CASE Lock(p)
        <3>1. pc[p] = "lock" /\ job[p].op \in Op
            BY <2>5, HeldTypes DEF Lock, At, Job
        <3>2. pc'[p] \in {"idle", "plan", job[p].op} /\ Alone(p)
            BY <2>5, <2>a, <2>b DEF Lock
        <3>. QED
            BY <3>1, <3>2 DEF Halfway, Op
    <2>6. CASE Unlock(p) \/ (p = Warmer /\ (WarmNext \/ WarmBatchDone \/ WarmReturn))
        BY <2>6, <2>a, <2>b DEF Unlock, WarmNext, WarmBatchDone, WarmReturn, At, Halfway
    <2>7. CASE \E op \in Ops, a \in Ids \cup {0} : Call(p, op, a)
        BY <2>7, <2>b DEF Call, At, Halfway
    <2>. QED
        BY <2>1, <2>2, <2>3, <2>4, <2>5, <2>6, <2>7 DEF Calming
<1>. QED
    BY <1>1, <1>2, <1>3, StoreCalm DEF InHand, Adding, Halfway

\* Serving goes on when others serve.
LEMMA OthersServe ==
    ASSUME NEW p \in Procs, Alone(p), UNCHANGED job, NEW a
    PROVE  /\ ~InHand(p) /\ Coming(a) => Coming(a)'
           /\ pc[p] # "append" /\ (\E q \in Procs : job[q].a = a /\ pc[q] = "append") =>
                \E q \in Procs : job'[q].a = a /\ pc'[q] = "append"
           /\ (\E q \in Procs : job'[q].a = a /\ pc'[q] = "append") => Coming(a)'
           /\ InHand(p)' /\ job[p].a = a => Coming(a)'
BY DEF Alone, Coming, InHand, Adding

\* A step on one account that gives no slot.
LEMMA ServedSame ==
    ASSUME PoolAssumption, TypeOK, SlotInv, ServedInv, NEW p \in Procs, NEW a \in Ids,
           job[p].a = a, Alone(p), UNCHANGED <<job, configured, accounts>>,
           suspect \subseteq suspect', \A b \in Ids \ {a} : acct'[b] = acct[b],
           acct'[a].ready = acct[a].ready, acct[a].initialized => acct'[a].initialized,
           pc[p] # "append",
           (/\ a \in Known /\ a \notin suspect' /\ acct'[a].initialized
            /\ ~acct'[a].disabled /\ ~acct'[a].removed) => a \in Slots \/ Coming(a)'
    PROVE  ServedInv'
<1>1. Slots' = Slots /\ Known \subseteq Ids
    BY KnownAreIds DEF Slots
<1>2. a \in Known => Serve(a)'
    BY <1>1, OthersServe DEF ServedInv, Serve
<1>. QED
    BY <1>1, <1>2, ServedOne DEF ServedInv, SlotInv

\* What a goroutine holds.
LEMMA Holding ==
    ASSUME PoolAssumption, TypeOK, Located, NEW p \in Procs, pc[p] \in Busy
    PROVE  job[p].a \in Ids /\ job[p].a \in Known /\ acct[job[p].a] \in Account
BY HeldTypes DEF Located

LEMMA StoreApplied ==
    ASSUME PoolAssumption, TypeOK, Located, SlotInv, ClaimInv, FollowInv, ServedInv,
           NEW p \in Procs, applyInitialization(p)
    PROVE  FollowInv' /\ ServedInv'
<1>. DEFINE a == job[p].a
            r == [acct[a] EXCEPT !.initialized = TRUE, !.settings = job[p].key.ver]
<1>1. /\ pc[p] = "apply" /\ Become(a, r) /\ UNCHANGED job
      /\ UNCHANGED <<row, nextId, configured, suspect, accounts>>
    BY DEF applyInitialization, At, table, lists
<1>2. pc'[p] \in {"ok", "persist"} /\ Alone(p)
    BY GotoAlone, ProceedType DEF applyInitialization
<1>3. a \in Ids /\ acct[a] \in Account
    BY <1>1, Holding DEF Busy, Label
<1>4. acct'[a] = r /\ \A b \in Ids \ {a} : acct'[b] = acct[b]
    BY <1>1, <1>3, BecomeOne
<1>5. /\ r.initialized /\ r.ready = acct[a].ready
      /\ r.disabled = acct[a].disabled /\ r.removed = acct[a].removed
    BY <1>3 DEF Account
<1>. HIDE DEF r
<1>6. Rows(job'[p])
    BY <1>1 DEF FollowInv, Inserted, Rows
<1>7. FollowInv'
    BY <1>1, <1>2, <1>4, <1>5, <1>6, FollowCalm DEF Halfway
<1>8. InHand(p)'
    BY <1>2 DEF InHand, Adding
<1>9. Coming(a)'
    BY <1>1, <1>2, <1>8, OthersServe
<1>. HIDE DEF a
<1>10. ServedInv'
    BY <1>1, <1>2, <1>3, <1>4, <1>5, <1>9, ServedSame DEF a
<1>. QED
    BY <1>7, <1>10

\* addReady: whatever does not join is ready already, or switched off.
LEMMA StoreAdded ==
    ASSUME PoolAssumption, TypeOK, Located, SlotInv, ClaimInv, FollowInv, ServedInv,
           NEW p \in Procs,
           \/ addReadyRelease(p) /\ job[p].op = "refresh" /\ acct[job[p].a].ready
           \/ addReadySwap(p)
    PROVE  FollowInv' /\ ServedInv'
<1>. DEFINE a == job[p].a
            r == [acct[a] EXCEPT !.ready = TRUE]
<1>1. /\ pc[p] \in {"ok", "adding"} /\ UNCHANGED <<row, nextId, configured, suspect, accounts, job>>
      /\ \/ Become(a, r) /\ Goto(p, "append")
         \/ /\ UNCHANGED acct
            /\ acct[a].ready \/ acct[a].removed \/ acct[a].disabled
            /\ \E l \in {"unlock", "need", "changed"} : Goto(p, l)
    BY ResumeType DEF addReadyRelease, addReadySwap, joins, At, table, lists
<1>2. Alone(p) /\ \A l : Goto(p, l) => pc'[p] = l
    BY <1>1, GotoAlone
<1>3. a \in Ids /\ a \in Known /\ acct[a] \in Account
    BY <1>1, Holding DEF Busy, Label
<1>4. /\ r.ready /\ r.initialized = acct[a].initialized
      /\ r.disabled = acct[a].disabled /\ r.removed = acct[a].removed
    BY <1>3 DEF Account
<1>5. \A b \in Ids \ {a} : acct'[b] = acct[b]
    BY <1>1, <1>3, BecomeOne
<1>6. Become(a, r) => acct'[a] = r
    BY <1>3, BecomeOne
<1>. HIDE DEF r
<1>7. acct'[a].initialized = acct[a].initialized /\ acct'[a].disabled = acct[a].disabled
      /\ acct'[a].removed = acct[a].removed
    BY <1>1, <1>4, <1>6
<1>8. Rows(job'[p])
    BY <1>1 DEF FollowInv, Inserted, Rows
<1>9. FollowInv'
    BY <1>1, <1>2, <1>5, <1>7, <1>8, FollowCalm DEF Halfway
<1>10. ASSUME Become(a, r), Goto(p, "append")
       PROVE  Serve(a)'
    <2>1. pc'[p] = "append" /\ job'[p].a = a
        BY <1>1, <1>2, <1>10
    <2>2. Coming(a)'
        BY <2>1 DEF Coming, InHand, Adding
    <2>. QED
        BY <2>1, <2>2 DEF Serve
<1>11. ASSUME UNCHANGED acct, acct[a].ready \/ acct[a].removed \/ acct[a].disabled
       PROVE  Serve(a)'
    BY <1>1, <1>2, <1>3, <1>11, OthersServe DEF ServedInv, Serve, Slots
<1>12. Slots' = Slots
    BY <1>1 DEF Slots
<1>. HIDE DEF a
<1>13. ServedInv'
    BY <1>1, <1>2, <1>3, <1>5, <1>7, <1>10, <1>11, <1>12, KnownAreIds, ServedOne
       DEF a, ServedInv, SlotInv
<1>. QED
    BY <1>9, <1>13

LEMMA StoreAppended ==
    ASSUME PoolAssumption, TypeOK, Located, SlotInv, ClaimInv, FollowInv, ServedInv,
           NEW p \in Procs, addReadyAppend(p)
    PROVE  FollowInv' /\ ServedInv'
<1>. DEFINE a == job[p].a
<1>1. /\ pc[p] = "append" /\ UNCHANGED <<row, nextId, acct, configured, suspect, job>>
      /\ accounts' = Append(accounts, a) /\ Goto(p, Resume(job[p]))
    BY DEF addReadyAppend, At, table
<1>2. Alone(p) /\ pc'[p] \in {"unlock", "need", "changed"}
    BY <1>1, GotoAlone, ResumeType
<1>3. a \in Ids /\ a \in Known /\ acct[a].initialized
    BY <1>1, Holding DEF Busy, Label, ClaimInv, Claimed, Adding
<1>4. Rows(job'[p])
    BY <1>1 DEF FollowInv, Inserted, Rows
<1>5. FollowInv'
    BY <1>1, <1>2, <1>4, FollowCalm DEF Halfway
<1>6. Slots' = Slots \cup {a}
    BY AppendStep
<1>7. Serve(a)'
    BY <1>1, <1>6 DEF Serve
<1>. HIDE DEF a
<1>8. ServedInv'
    BY <1>1, <1>2, <1>3, <1>6, <1>7, ServedOne DEF a, ServedInv, SlotInv
<1>. QED
    BY <1>5, <1>8

(***************************************************************************)
(* The writes of the holder.                                               *)
(***************************************************************************)
\* What a write, or its failure, does to the table.
LEMMA WriteFails ==
    ASSUME TypeOK, NEW a \in Ids, StoreFails(a)
    PROVE  /\ UNCHANGED <<row, nextId>> /\ suspect \subseteq suspect'
           /\ row[a].state = "none" \/ a \in suspect'
BY DEF StoreFails, table

\* One account, or the row of it, changes under the lock.
LEMMA StoreOne ==
    ASSUME PoolAssumption, TypeOK, Located, SlotInv, ClaimInv, FollowInv, ServedInv,
           NEW p \in Workers, NEW a \in Ids, job[p].a = a, pc[p] \in Busy, pc[p] # "append",
           NEW l, Goto(p, l), UNCHANGED <<job, nextId, configured, accounts>>,
           suspect \subseteq suspect',
           \A b \in Ids \ {a} : row'[b] = row[b] /\ acct'[b] = acct[b],
           acct'[a].ready = acct[a].ready, acct'[a].initialized = acct[a].initialized,
           Written(p)',
           (a \in Known /\ a \notin suspect' /\ l \notin Halfway) => Agree(a)',
           (a \in Known /\ a \notin suspect' /\ ~acct'[a].disabled /\ ~acct'[a].removed) =>
              \/ ~acct[a].disabled /\ ~acct[a].removed /\ ~InHand(p)
              \/ l \in {"ok", "enabled"}
    PROVE  FollowInv' /\ ServedInv'
<1>1. p \in Procs /\ Alone(p) /\ pc'[p] = l
    BY GotoAlone DEF Procs
<1>2. FollowInv'
    BY <1>1, FollowOne
<1>3. (/\ a \in Known /\ a \notin suspect' /\ acct'[a].initialized
       /\ ~acct'[a].disabled /\ ~acct'[a].removed) => a \in Slots \/ Coming(a)'
    <2>1. l \in {"ok", "enabled"} => InHand(p)'
        BY <1>1 DEF InHand, Adding
    <2>2. ASSUME a \in Known, a \notin suspect', acct'[a].initialized,
                 ~acct[a].disabled, ~acct[a].removed, ~InHand(p)
          PROVE  a \in Slots \/ Coming(a)'
        <3>1. Serve(a) /\ a \notin suspect /\ acct[a].initialized
            BY <2>2 DEF ServedInv
        <3>2. a \in Slots \/ Coming(a)
            BY <2>2, <3>1 DEF Serve
        <3>. QED
            BY <1>1, <2>2, <3>2, OthersServe
    <2>. QED
        BY <1>1, <2>1, <2>2, OthersServe
<1>4. ServedInv'
    BY <1>1, <1>3, ServedSame
<1>. QED
    BY <1>2, <1>4

\* The flags that are set.
LEMMA FlagSet ==
    ASSUME TypeOK, NEW a \in Ids, NEW c \in BOOLEAN,
           Become(a, [acct[a] EXCEPT !.disabled = c])
    PROVE  /\ \A b \in Ids \ {a} : acct'[b] = acct[b]
           /\ acct'[a].disabled = c /\ acct'[a].removed = acct[a].removed
           /\ acct'[a].ready = acct[a].ready /\ acct'[a].initialized = acct[a].initialized
<1>1. acct'[a] = [acct[a] EXCEPT !.disabled = c] /\ \A b \in Ids \ {a} : acct'[b] = acct[b]
    BY BecomeOne
<1>. QED
    BY <1>1 DEF TypeOK, Account

LEMMA FlagsSet ==
    ASSUME TypeOK, NEW a \in Ids, NEW c \in BOOLEAN, NEW d \in BOOLEAN,
           Become(a, [acct[a] EXCEPT !.disabled = c, !.removed = d])
    PROVE  /\ \A b \in Ids \ {a} : acct'[b] = acct[b]
           /\ acct'[a].disabled = c /\ acct'[a].removed = d
           /\ acct'[a].ready = acct[a].ready /\ acct'[a].initialized = acct[a].initialized
<1>1. /\ acct'[a] = [acct[a] EXCEPT !.disabled = c, !.removed = d]
      /\ \A b \in Ids \ {a} : acct'[b] = acct[b]
    BY BecomeOne
<1>. QED
    BY <1>1 DEF TypeOK, Account

\* SetEnabled: the rollback of a failed initialization.
LEMMA StoreRolledBack ==
    ASSUME PoolAssumption, TypeOK, Located, SlotInv, ClaimInv, FollowInv, ServedInv,
           NEW p \in Workers, EnableRollback(p) \/ EnableRollbackRow(p)
    PROVE  FollowInv' /\ ServedInv'
<1>. DEFINE a == job[p].a
<1>1. pc[p] \in {"rollback", "unrow"} /\ p \in Procs
    BY DEF EnableRollback, EnableRollbackRow, At, Procs
<1>2. a \in Ids /\ a \in Known /\ acct[a] \in Account
    BY <1>1, Holding DEF Busy, Label
<1>3. pc[p] \in Busy /\ pc[p] # "append"
    BY <1>1 DEF Busy, Label
<1>4. CASE EnableRollback(p)
    <2>1. /\ pc[p] = "rollback" /\ Become(a, [acct[a] EXCEPT !.disabled = TRUE])
          /\ Goto(p, "unrow")
          /\ UNCHANGED <<row, nextId, configured, accounts, job, suspect>>
        BY <1>4 DEF EnableRollback, At, table, lists
    <2>2. /\ \A b \in Ids \ {a} : acct'[b] = acct[b]
          /\ acct'[a].disabled /\ acct'[a].removed = acct[a].removed
          /\ acct'[a].ready = acct[a].ready /\ acct'[a].initialized = acct[a].initialized
        BY <1>2, <2>1, FlagSet
    <2>3. a \notin suspect => Agree(a)
        BY <1>2, <2>1, AgreeNow DEF Halfway
    <2>4. pc'[p] = "unrow"
        BY <1>1, <2>1, GotoAlone
    <2>5. Written(p)'
        BY <2>1, <2>2, <2>3, <2>4 DEF Written, Agree, Gone
    <2>. HIDE DEF a
    <2>. QED
        BY <1>2, <1>3, <2>1, <2>2, <2>5, StoreOne DEF a, Halfway
<1>5. CASE EnableRollbackRow(p)
    <2>1. /\ pc[p] = "unrow" /\ Goto(p, "unlock") /\ UNCHANGED <<acct, configured, accounts, job>>
          /\ \/ StoreFails(a)
             \/ SetState(a, "off") /\ UNCHANGED <<nextId, suspect>>
        BY <1>5 DEF EnableRollbackRow, At, lists
    <2>2. Written(p)
        BY DEF FollowInv
    <2>3. pc'[p] = "unlock"
        BY <1>1, <2>1, GotoAlone
    <2>4. Written(p)'
        BY <2>3 DEF Written
    <2>5. CASE StoreFails(a)
        <3>1. /\ UNCHANGED <<row, nextId>> /\ suspect \subseteq suspect'
              /\ row[a].state = "none" \/ a \in suspect'
            BY <1>2, <2>5, WriteFails
        <3>2. acct[a].disabled /\ (a \notin suspect' => Agree(a)')
            BY <2>1, <2>2, <3>1 DEF Written, Agree, Gone
        <3>. HIDE DEF a
        <3>. QED
            BY <1>2, <1>3, <2>1, <2>4, <3>1, <3>2, StoreOne DEF a
    <2>6. CASE SetState(a, "off") /\ UNCHANGED <<nextId, suspect>>
        <3>1. row'[a].state = "off" /\ \A b \in Ids \ {a} : row'[b] = row[b]
            BY <1>2, <2>6, SetStateOne
        <3>2. acct[a].disabled /\ Agree(a)'
            BY <2>1, <2>2, <3>1 DEF Written, Agree, Gone
        <3>. HIDE DEF a
        <3>. QED
            BY <1>2, <1>3, <2>1, <2>4, <2>6, <3>1, <3>2, StoreOne DEF a
    <2>. QED
        BY <2>1, <2>5, <2>6
<1>. QED
    BY <1>4, <1>5

\* SetEnabled: the row, then the flags.
LEMMA StoreEnabled ==
    ASSUME PoolAssumption, TypeOK, Located, SlotInv, ClaimInv, FollowInv, ServedInv,
           NEW p \in Workers, EnablePersist(p) \/ EnableApply(p)
    PROVE  FollowInv' /\ ServedInv'
<1>. DEFINE a == job[p].a
<1>1. pc[p] \in {"persist", "enabled"} /\ p \in Procs
    BY DEF EnablePersist, EnableApply, At, Procs
<1>2. a \in Ids /\ a \in Known /\ acct[a] \in Account
    BY <1>1, Holding DEF Busy, Label
<1>3. pc[p] \in Busy /\ pc[p] # "append"
    BY <1>1 DEF Busy, Label
<1>4. CASE EnablePersist(p)
    <2>1. /\ pc[p] = "persist" /\ UNCHANGED <<configured, accounts, job>>
          /\ \/ /\ StoreFails(a) /\ Become(a, [acct[a] EXCEPT !.disabled = TRUE])
                /\ Goto(p, "unlock")
             \/ /\ SetState(a, "on") /\ Goto(p, "enabled") /\ UNCHANGED <<nextId, acct, suspect>>
        BY <1>4 DEF EnablePersist, At, lists
    <2>2. a \notin suspect => Agree(a)
        BY <1>2, <2>1, AgreeNow DEF Halfway
    <2>3. CASE StoreFails(a) /\ Become(a, [acct[a] EXCEPT !.disabled = TRUE]) /\ Goto(p, "unlock")
        <3>1. /\ UNCHANGED <<row, nextId>> /\ suspect \subseteq suspect'
              /\ row[a].state = "none" \/ a \in suspect'
            BY <1>2, <2>3, WriteFails
        <3>2. /\ \A b \in Ids \ {a} : acct'[b] = acct[b]
              /\ acct'[a].disabled /\ acct'[a].removed = acct[a].removed
              /\ acct'[a].ready = acct[a].ready /\ acct'[a].initialized = acct[a].initialized
            BY <1>2, <2>3, FlagSet
        <3>3. pc'[p] = "unlock"
            BY <1>1, <2>1, <2>3, GotoAlone
        <3>4. Written(p)' /\ (a \notin suspect' => Agree(a)')
            BY <2>1, <2>2, <3>1, <3>2, <3>3 DEF Written, Agree, Gone
        <3>. HIDE DEF a
        <3>. QED
            BY <1>2, <1>3, <2>1, <2>3, <3>1, <3>2, <3>4, StoreOne DEF a
    <2>4. CASE SetState(a, "on") /\ Goto(p, "enabled") /\ UNCHANGED <<nextId, acct, suspect>>
        <3>1. row'[a].state = "on" /\ \A b \in Ids \ {a} : row'[b] = row[b]
            BY <1>2, <2>4, SetStateOne
        <3>2. pc'[p] = "enabled"
            BY <1>1, <2>1, <2>4, GotoAlone
        <3>3. Written(p)'
            BY <2>1, <3>1, <3>2 DEF Written
        <3>. HIDE DEF a
        <3>. QED
            BY <1>2, <1>3, <2>1, <2>4, <3>1, <3>3, StoreOne DEF a, Halfway
    <2>. QED
        BY <2>1, <2>3, <2>4
<1>5. CASE EnableApply(p)
    <2>1. /\ pc[p] = "enabled" /\ Goto(p, "ok")
          /\ UNCHANGED <<row, nextId, configured, accounts, job, suspect>>
          /\ Become(a, [acct[a] EXCEPT !.disabled = FALSE, !.removed = FALSE])
        BY <1>5 DEF EnableApply, At, table, lists
    <2>2. /\ \A b \in Ids \ {a} : acct'[b] = acct[b]
          /\ ~acct'[a].disabled /\ ~acct'[a].removed
          /\ acct'[a].ready = acct[a].ready /\ acct'[a].initialized = acct[a].initialized
        BY <1>2, <2>1, FlagsSet
    <2>3. row[a].state = "on"
        BY <2>1 DEF FollowInv, Written
    <2>4. pc'[p] = "ok"
        BY <1>1, <2>1, GotoAlone
    <2>5. Written(p)' /\ Agree(a)'
        BY <2>1, <2>2, <2>3, <2>4 DEF Written, Agree
    <2>. HIDE DEF a
    <2>. QED
        BY <1>2, <1>3, <2>1, <2>2, <2>5, StoreOne DEF a
<1>. QED
    BY <1>4, <1>5

\* SetEnabled(false) and DeleteByID: the row, then the flags.
LEMMA StoreDisabledRow ==
    ASSUME PoolAssumption, TypeOK, Located, SlotInv, ClaimInv, FollowInv, ServedInv,
           NEW p \in Workers, DisableRow(p) \/ DeleteRow(p)
    PROVE  FollowInv' /\ ServedInv'
<1>. DEFINE a == job[p].a
<1>1. PICK s, l :
          /\ \/ s = "off" /\ l = "disabled" /\ pc[p] = "disable"
             \/ s = "none" /\ l = "deleted" /\ pc[p] = "delete"
          /\ \/ StoreFails(a) /\ Goto(p, "unlock")
             \/ SetState(a, s) /\ Goto(p, l) /\ UNCHANGED <<nextId, suspect>>
          /\ UNCHANGED <<acct, configured, accounts, job>>
    BY DEF DisableRow, DeleteRow, StoreFirst, At, lists
<1>2. p \in Procs /\ pc[p] \in Busy /\ pc[p] # "append" /\ ~InHand(p)
    BY <1>1 DEF Procs, Busy, Label, InHand, Adding
<1>3. a \in Ids /\ a \in Known
    BY <1>2, Holding
<1>4. a \notin suspect => Agree(a)
    BY <1>1, <1>3, AgreeNow DEF Halfway
<1>5. CASE StoreFails(a) /\ Goto(p, "unlock")
    <2>1. /\ UNCHANGED <<row, nextId>> /\ suspect \subseteq suspect'
          /\ row[a].state = "none" \/ a \in suspect'
        BY <1>3, <1>5, WriteFails
    <2>2. pc'[p] = "unlock"
        BY <1>1, <1>2, <1>5, GotoAlone
    <2>3. Written(p)' /\ (a \notin suspect' => Agree(a)')
        BY <1>1, <1>4, <2>1, <2>2 DEF Written, Agree, Gone
    <2>. HIDE DEF a
    <2>. QED
        BY <1>1, <1>2, <1>3, <1>5, <2>1, <2>3, StoreOne DEF a
<1>6. CASE SetState(a, s) /\ Goto(p, l) /\ UNCHANGED <<nextId, suspect>>
    <2>1. row'[a].state = s /\ \A b \in Ids \ {a} : row'[b] = row[b]
        BY <1>3, <1>6, SetStateOne
    <2>2. pc'[p] = l
        BY <1>1, <1>2, <1>6, GotoAlone
    <2>3. Written(p)'
        BY <1>1, <2>1, <2>2 DEF Written
    <2>. HIDE DEF a
    <2>. QED
        BY <1>1, <1>2, <1>3, <1>6, <2>1, <2>3, StoreOne DEF a, Halfway
<1>. QED
    BY <1>1, <1>5, <1>6

LEMMA StoreDisabledFlags ==
    ASSUME PoolAssumption, TypeOK, Located, SlotInv, ClaimInv, FollowInv, ServedInv,
           NEW p \in Workers, DisableApply(p)
    PROVE  FollowInv' /\ ServedInv'
<1>. DEFINE a == job[p].a
            d == acct[a].removed \/ pc[p] = "deleted"
<1>1. /\ pc[p] \in {"disabled", "deleted"} /\ Goto(p, "unlock")
      /\ UNCHANGED <<row, nextId, configured, accounts, job, suspect>>
      /\ Become(a, [acct[a] EXCEPT !.disabled = TRUE, !.removed = d])
    BY DEF DisableApply, table, lists
<1>2. p \in Procs /\ pc[p] \in Busy /\ pc[p] # "append"
    BY <1>1 DEF Procs, Busy, Label
<1>3. a \in Ids /\ a \in Known /\ d \in BOOLEAN
    BY <1>2, Holding DEF Account
<1>. HIDE DEF d
<1>4. /\ \A b \in Ids \ {a} : acct'[b] = acct[b]
      /\ acct'[a].disabled /\ acct'[a].removed = d
      /\ acct'[a].ready = acct[a].ready /\ acct'[a].initialized = acct[a].initialized
    BY <1>1, <1>3, FlagsSet
<1>5. \/ pc[p] = "disabled" /\ row[a].state = "off"
      \/ pc[p] = "deleted" /\ row[a].state = "none" /\ d
    BY <1>1 DEF FollowInv, Written, d
<1>6. pc'[p] = "unlock"
    BY <1>1, <1>2, GotoAlone
<1>7. Written(p)' /\ Agree(a)'
    BY <1>1, <1>4, <1>5, <1>6 DEF Written, Agree, Gone
<1>. HIDE DEF a
<1>. QED
    BY <1>1, <1>2, <1>3, <1>4, <1>7, StoreOne DEF a

\* Remove: the flag, then the row, and the flag back if the row stays.
LEMMA StoreRemoved ==
    ASSUME PoolAssumption, TypeOK, Located, SlotInv, ClaimInv, FollowInv, ServedInv,
           NEW p \in Workers, Remove(p) \/ RemoveRow(p)
    PROVE  FollowInv' /\ ServedInv'
<1>. DEFINE a == job[p].a
<1>1. pc[p] \in {"remove", "removing"}
    BY DEF Remove, RemoveRow, At
<1>2. p \in Procs /\ pc[p] \in Busy /\ pc[p] # "append" /\ ~InHand(p)
    BY <1>1 DEF Procs, Busy, Label, InHand, Adding
<1>3. a \in Ids /\ a \in Known /\ acct[a] \in Account
    BY <1>2, Holding
<1>4. CASE Remove(p)
    <2>1. /\ pc[p] = "remove"
          /\ UNCHANGED <<row, nextId, configured, accounts, job, suspect>>
          /\ \/ acct[a].disabled /\ Goto(p, "unlock") /\ UNCHANGED acct
             \/ /\ ~acct[a].disabled /\ Become(a, [acct[a] EXCEPT !.disabled = TRUE])
                /\ Goto(p, "removing")
        BY <1>4 DEF Remove, At, table, lists
    <2>2. a \notin suspect => Agree(a)
        BY <1>3, <2>1, AgreeNow DEF Halfway
    <2>3. CASE acct[a].disabled /\ Goto(p, "unlock") /\ UNCHANGED acct
        <3>1. pc'[p] = "unlock"
            BY <1>2, <2>1, <2>3, GotoAlone
        <3>2. Written(p)' /\ (a \notin suspect => Agree(a)')
            BY <2>1, <2>2, <2>3, <3>1 DEF Written, Agree, Gone
        <3>. HIDE DEF a
        <3>. QED
            BY <1>2, <1>3, <2>1, <2>3, <3>2, StoreOne DEF a
    <2>4. CASE /\ ~acct[a].disabled /\ Become(a, [acct[a] EXCEPT !.disabled = TRUE])
               /\ Goto(p, "removing")
        <3>1. /\ \A b \in Ids \ {a} : acct'[b] = acct[b]
              /\ acct'[a].disabled /\ acct'[a].removed = acct[a].removed
              /\ acct'[a].ready = acct[a].ready /\ acct'[a].initialized = acct[a].initialized
            BY <1>3, <2>4, FlagSet
        <3>2. pc'[p] = "removing"
            BY <1>2, <2>1, <2>4, GotoAlone
        <3>3. Written(p)'
            BY <2>1, <2>2, <2>4, <3>1, <3>2 DEF Written, Agree, Gone
        <3>. HIDE DEF a
        <3>. QED
            BY <1>2, <1>3, <2>1, <2>4, <3>1, <3>3, StoreOne DEF a, Halfway
    <2>. QED
        BY <2>1, <2>3, <2>4
<1>5. CASE RemoveRow(p)
    <2>1. /\ pc[p] = "removing" /\ Goto(p, "unlock") /\ UNCHANGED <<configured, accounts, job>>
          /\ \/ StoreFails(a) /\ Become(a, [acct[a] EXCEPT !.disabled = FALSE])
             \/ SetState(a, "off") /\ UNCHANGED <<nextId, acct, suspect>>
        BY <1>5 DEF RemoveRow, At, lists
    <2>2. acct[a].disabled /\ (a \notin suspect => row[a].state # "none")
        BY <2>1 DEF FollowInv, Written
    <2>3. pc'[p] = "unlock"
        BY <1>2, <2>1, GotoAlone
    <2>4. Written(p)'
        BY <2>3 DEF Written
    <2>5. CASE StoreFails(a) /\ Become(a, [acct[a] EXCEPT !.disabled = FALSE])
        <3>1. /\ UNCHANGED <<row, nextId>> /\ suspect \subseteq suspect'
              /\ row[a].state = "none" \/ a \in suspect'
            BY <1>3, <2>5, WriteFails
        <3>2. a \in suspect'
            BY <2>2, <3>1
        <3>3. /\ \A b \in Ids \ {a} : acct'[b] = acct[b]
              /\ acct'[a].ready = acct[a].ready /\ acct'[a].initialized = acct[a].initialized
            BY <1>3, <2>5, FlagSet
        <3>. HIDE DEF a
        <3>. QED
            BY <1>2, <1>3, <2>1, <2>4, <3>1, <3>2, <3>3, StoreOne DEF a
    <2>6. CASE SetState(a, "off") /\ UNCHANGED <<nextId, acct, suspect>>
        <3>1. row'[a].state = "off" /\ \A b \in Ids \ {a} : row'[b] = row[b]
            BY <1>3, <2>6, SetStateOne
        <3>2. Agree(a)'
            BY <2>1, <2>2, <2>6, <3>1 DEF Agree, Gone
        <3>. HIDE DEF a
        <3>. QED
            BY <1>2, <1>3, <2>1, <2>2, <2>4, <2>6, <3>1, <3>2, StoreOne DEF a
    <2>. QED
        BY <2>1, <2>5, <2>6
<1>. QED
    BY <1>4, <1>5

(***************************************************************************)
(* The plan of ReloadKeys, which sets every account from the rows it read. *)
(***************************************************************************)
LEMMA PlannedFlags ==
    ASSUME TypeOK, NEW snap \in [Ids -> Row], Rotated(snap) = {}, NEW a \in Ids
    PROVE  LET r == Planned(a, snap) IN
           /\ a \notin Known /\ a \in Desired(snap) =>
                /\ ~r.ready /\ ~r.initialized /\ ~r.removed
                /\ r.disabled <=> snap[a].state = "off"
           /\ a \in Known =>
                /\ r.ready = acct[a].ready /\ r.initialized = acct[a].initialized
                /\ r.removed <=> a \notin Desired(snap)
                /\ a \notin Desired(snap) => r.disabled = acct[a].disabled
                /\ a \in Desired(snap) => (r.disabled <=> snap[a].state = "off")
<1>. DEFINE off == snap[a].state = "off"
            gone == [acct[a] EXCEPT !.removed = TRUE]
            kept == [acct[a] EXCEPT !.key = KeyOf(snap[a]), !.removed = FALSE, !.disabled = off]
            new == newAccount(snap[a])
            like(r) == r.ready = acct[a].ready /\ r.initialized = acct[a].initialized
<1>1. acct[a] \in Account
    BY DEF TypeOK
<1>2. /\ a \notin Known /\ a \in Desired(snap) => Planned(a, snap) = new
      /\ a \in Known /\ a \notin Desired(snap) => Planned(a, snap) = gone
      /\ a \in Known /\ a \in Desired(snap) => Planned(a, snap) = kept
    BY DEF Planned
<1>3. ~new.ready /\ ~new.initialized /\ ~new.removed /\ (new.disabled <=> off)
    BY DEF newAccount
<1>4. like(gone) /\ gone.removed /\ gone.disabled = acct[a].disabled
    BY <1>1 DEF Account
<1>5. like(kept) /\ ~kept.removed /\ (kept.disabled <=> off)
    BY <1>1 DEF Account
<1>. HIDE DEF gone, kept, new
<1>. QED
    BY <1>2, <1>3, <1>4, <1>5

LEMMA StorePlanned ==
    ASSUME PoolAssumption, TypeOK, Located, SlotInv, Unrotated, ClaimInv, FollowInv, ServedInv,
           NEW p \in Workers, ReloadPlan(p)
    PROVE  FollowInv' /\ ServedInv'
<1>. DEFINE snap == job[p].snap
<1>1. /\ pc[p] = "plan" /\ UNCHANGED <<row, nextId, accounts>>
      /\ \A a \in Ids : acct'[a] = Planned(a, snap)
      /\ suspect' = suspect \cup {a \in Ids : snap[a].state # row[a].state}
      /\ p \in Procs
    BY DEF ReloadPlan, At, table, Procs
<1>2. snap \in [Ids -> Row] /\ job[p] \in Job
    BY <1>1, HeldTypes DEF Job
<1>3. Rotated(snap) = {}
    BY <1>1 DEF Unrotated, Plain, Rotated, Desired
<1>4. PICK n : Step(p, "changed", [job[p] EXCEPT !.chg = Rotated(snap), !.need = n])
    BY DEF ReloadPlan
<1>5. pc'[p] = "changed" /\ Alone(p) /\ job'[p].snap = snap
    <2>. DEFINE j == [job[p] EXCEPT !.chg = Rotated(snap), !.need = n]
    <2>1. j.snap = job[p].snap
        BY <1>2 DEF Job
    <2>2. Step(p, "changed", j)
        BY <1>4
    <2>. HIDE DEF j
    <2>. QED
        BY <1>1, <2>1, <2>2, StepAlone
<1>6. Known' = Known \cup Desired(snap) /\ Known \subseteq Ids /\ Desired(snap) \subseteq Ids
    <2>1. PICK new \in Ascending(Desired(snap) \ Known) : configured' = configured \o new
        BY DEF ReloadPlan
    <2>2. Desired(snap) \ Known \subseteq Ids
        BY DEF Desired
    <2>3. new \in Seq(Ids) /\ Range(new) = Desired(snap) \ Known
        BY <2>2, AscendingIsSeq, AscendingRange
    <2>4. Range(configured \o new) = Range(configured) \cup Range(new)
        BY <2>3, RangeConcatenation DEF TypeOK
    <2>. QED
        BY <2>1, <2>3, <2>4, KnownAreIds DEF Known, Desired
<1>7. \A a \in Desired(snap) : snap[a].state \in {"on", "off"}
    BY <1>2 DEF Desired, Row
<1>8. \A q \in Workers : pc'[q] \notin Halfway
    BY <1>1, <1>5, OneWorker DEF ClaimInv, Alone, Halfway, Procs
<1>9. \A a \in Known : a \notin suspect => Agree(a)
    BY <1>1, AgreeNow DEF Halfway
<1>. HIDE DEF snap
<1>10. Inserted'
    <2>1. \A a \in Ids : a >= nextId => snap[a].state = "none"
        BY <1>1 DEF FollowInv, Inserted, snap
    <2>2. \A a \in Desired(snap) : a < nextId
        BY <1>6, <2>1 DEF Desired, FollowInv, Inserted, Ids, PoolAssumption
    <2>3. \A q \in Procs, a \in Ids : a >= nextId => job'[q].snap[a].state = "none"
        BY <1>5, <2>1 DEF FollowInv, Inserted, Alone
    <2>. QED
        BY <1>1, <1>6, <2>2, <2>3 DEF FollowInv, Inserted
<1>11. \A q \in Workers : Written(q)'
    BY <1>8 DEF Written, Halfway
<1>12. ASSUME NEW a \in Known', a \notin suspect'
       PROVE  Agree(a)'
    <2>1. a \in Ids /\ acct'[a] = Planned(a, snap) /\ snap[a].state = row[a].state
          /\ row'[a] = row[a] /\ a \notin suspect
        BY <1>1, <1>6, <1>12
    <2>2. CASE a \in Desired(snap)
        <3>1. ~acct'[a].removed /\ (acct'[a].disabled <=> row[a].state = "off")
            BY <1>2, <1>3, <2>1, <2>2, PlannedFlags
        <3>. QED
            BY <1>7, <2>1, <2>2, <3>1 DEF Agree
    <2>3. CASE a \notin Desired(snap)
        <3>1. a \in Known /\ Agree(a) /\ row[a].state = "none"
            BY <1>6, <1>9, <1>12, <2>1, <2>3 DEF Desired
        <3>2. acct'[a].removed /\ acct'[a].disabled = acct[a].disabled
            BY <1>2, <1>3, <2>1, <2>3, <3>1, PlannedFlags
        <3>. QED
            BY <2>1, <3>1, <3>2 DEF Agree, Gone
    <2>. QED
        BY <2>2, <2>3
<1>13. Slots' = Slots /\ Slots \subseteq Known
    BY <1>1 DEF Slots, SlotInv
<1>14. ASSUME NEW a \in Known
       PROVE  Serve(a)'
    <2>1. a \in Ids /\ acct'[a] = Planned(a, snap)
        BY <1>1, <1>6
    <2>2. /\ acct'[a].ready = acct[a].ready /\ acct'[a].initialized = acct[a].initialized
          /\ acct'[a].removed <=> a \notin Desired(snap)
          /\ a \in Desired(snap) => (acct'[a].disabled <=> snap[a].state = "off")
        BY <1>2, <1>3, <2>1, PlannedFlags
    <2>3. /\ Coming(a) => Coming(a)'
          /\ (\E q \in Procs : job[q].a = a /\ pc[q] = "append") =>
                \E q \in Procs : job'[q].a = a /\ pc'[q] = "append"
        BY <1>1, <1>5 DEF Coming, InHand, Adding, Alone
    <2>4. Serve(a)
        BY DEF ServedInv
    <2>5. ASSUME a \notin suspect', acct'[a].initialized, ~acct'[a].disabled, ~acct'[a].removed
          PROVE  a \in Slots' \/ Coming(a)'
        <3>1. /\ a \in Desired(snap) /\ snap[a].state = row[a].state /\ a \notin suspect
              /\ snap[a].state # "off"
            BY <1>1, <2>1, <2>2, <2>5
        <3>2. row[a].state = "on" /\ Agree(a)
            BY <1>7, <1>9, <3>1
        <3>3. ~acct[a].disabled /\ ~acct[a].removed /\ acct[a].initialized
            BY <2>2, <2>5, <3>2 DEF Agree
        <3>. QED
            BY <1>13, <2>3, <2>4, <3>1, <3>3 DEF Serve
    <2>6. acct'[a].ready => a \in Slots' \/ \E q \in Procs : job'[q].a = a /\ pc'[q] = "append"
        BY <1>13, <2>2, <2>3, <2>4 DEF Serve
    <2>. QED
        BY <2>5, <2>6 DEF Serve
<1>15. ASSUME NEW a \in Desired(snap) \ Known
       PROVE  Serve(a)'
    <2>1. a \in Ids /\ acct'[a] = Planned(a, snap)
        BY <1>1, <1>6
    <2>2. ~acct'[a].ready /\ ~acct'[a].initialized
        BY <1>2, <1>3, <1>15, <2>1, PlannedFlags
    <2>. QED
        BY <2>2 DEF Serve
<1>16. \A a \in Slots' : acct'[a].initialized
    <2>1. ASSUME NEW a \in Slots
          PROVE  acct'[a].initialized
        <3>1. a \in Known /\ a \in Ids /\ acct[a].initialized
            BY <1>6, <1>13 DEF ServedInv
        <3>. QED
            BY <1>1, <1>2, <1>3, <3>1, PlannedFlags
    <2>. QED
        BY <1>13, <2>1
<1>. QED
    BY <1>6, <1>10, <1>11, <1>12, <1>14, <1>15, <1>16 DEF FollowInv, ServedInv

(***************************************************************************)
(* A row is inserted; the pool does not know it yet.                       *)
(***************************************************************************)
LEMMA StoreCreated ==
    ASSUME PoolAssumption, TypeOK, Located, SlotInv, ClaimInv, FollowInv, ServedInv, CreateAccount
    PROVE  FollowInv' /\ ServedInv'
<1>1. /\ UNCHANGED <<acct, configured, accounts, pc, job, suspect>>
      /\ nextId <= MaxId /\ nextId' = nextId + 1
      /\ row' = [row EXCEPT ![nextId] = [state |-> "on", ver |-> 0]]
    BY DEF CreateAccount, lists
<1>2. nextId \in Ids /\ nextId \in Int /\ MaxId \in Int
    BY <1>1 DEF FollowInv, Inserted, Ids, PoolAssumption
<1>3. \A b \in Ids \ {nextId} : row'[b] = row[b]
    BY <1>1 DEF TypeOK
<1>4. Known' = Known /\ Known \subseteq Ids /\ Slots' = Slots /\ nextId \notin Known
    BY <1>1, <1>2, KnownAreIds DEF Known, Slots, FollowInv, Inserted
<1>5. Inserted'
    <2>1. \A a \in Ids : a >= nextId' => a >= nextId /\ a # nextId
        BY <1>1, <1>2 DEF Ids
    <2>2. nextId' \in 1..MaxId + 1
        BY <1>1, <1>2 DEF FollowInv, Inserted
    <2>3. \A a \in Known' : a < nextId'
        BY <1>1, <1>2, <1>4 DEF FollowInv, Inserted, Ids
    <2>. QED
        BY <1>1, <1>3, <2>1, <2>2, <2>3 DEF FollowInv, Inserted
<1>6. ASSUME NEW q \in Workers
      PROVE  Written(q)'
    <2>1. Written(q) /\ q \in Procs
        BY DEF FollowInv, Procs
    <2>2. CASE pc[q] \in Halfway
        <3>1. job[q].a \in Ids \ {nextId}
            BY <1>4, <2>1, <2>2, Holding DEF Halfway, Busy, Label
        <3>. QED
            BY <1>1, <1>3, <2>1, <3>1 DEF Written, Gone
    <2>3. CASE pc[q] \notin Halfway
        BY <1>1, <2>3 DEF Written, Halfway
    <2>. QED
        BY <2>2, <2>3
<1>7. ASSUME NEW a \in Known \ suspect, Settled(a)'
      PROVE  Agree(a)'
    BY <1>1, <1>3, <1>4, <1>7 DEF FollowInv, Settled, Agree, Gone
<1>8. ServedInv'
    BY <1>1, <1>4 DEF ServedInv, Serve, Coming, InHand
<1>. QED
    BY <1>1, <1>4, <1>5, <1>6, <1>7, <1>8 DEF FollowInv

(***************************************************************************)
(* Every step.                                                             *)
(***************************************************************************)
LEMMA StoreInvariant ==
    ASSUME PoolAssumption, MaxRotations = 0, TypeOK, Located, SlotInv, Unrotated, ClaimInv,
           FollowInv, ServedInv, [Next]_vars
    PROVE  FollowInv' /\ ServedInv'
<1>. USE DEF Calming
<1>1. ASSUME NEW p \in Procs, Initialize(p)
      PROVE  FollowInv' /\ ServedInv'
    <2>1. CASE \/ initializationSnapshot(p) \/ AttemptFails(p) \/ InitializationFailed(p)
               \/ claimInit(p) \/ claimLoad(p) \/ claimSwap(p)
        BY <2>1, StoreCalming
    <2>2. CASE addReadyRelease(p) /\ ~(job[p].op = "refresh" /\ acct[job[p].a].ready)
        BY <2>2, StoreCalming
    <2>3. CASE applyInitialization(p)
        BY <2>3, StoreApplied
    <2>4. CASE \/ addReadyRelease(p) /\ job[p].op = "refresh" /\ acct[job[p].a].ready
               \/ addReadySwap(p)
        BY <2>4, StoreAdded
    <2>5. CASE addReadyAppend(p)
        BY <2>5, StoreAppended
    <2>. QED
        BY <1>1, <2>1, <2>2, <2>3, <2>4, <2>5 DEF Initialize
<1>2. ASSUME NEW p \in Workers, Reload(p)
      PROVE  FollowInv' /\ ServedInv'
    <2>1. p \in Procs
        BY DEF Procs
    <2>2. CASE ChangedDone(p) \/ ReloadDone(p)
        BY <2>1, <2>2, StoreCalming
    <2>. QED
        BY <1>2, <2>1, <2>2, NoInstall, StorePlanned DEF Reload
<1>3. ASSUME NEW p \in Workers, SetEnabledReason(p)
      PROVE  FollowInv' /\ ServedInv'
    <2>1. p \in Procs
        BY DEF Procs
    <2>2. CASE EnableClaim(p)
        BY <2>1, <2>2, StoreCalming
    <2>. QED
        BY <1>3, <2>2, StoreRolledBack, StoreEnabled, StoreDisabledRow, StoreDisabledFlags
           DEF SetEnabledReason
<1>4. ASSUME NEW p \in Workers,
             Lock(p) \/ Unlock(p)
               \/ \E op \in Ops, a \in Ids \cup {0} : Call(p, op, a)
      PROVE  FollowInv' /\ ServedInv'
    <2>1. p \in Procs
        BY DEF Procs
    <2>. QED
        BY <1>4, <2>1, StoreCalming
<1>5. CASE WarmNext \/ WarmBatchDone \/ WarmReturn
    <2>1. Warmer \in Procs
        BY DEF Procs
    <2>. QED
        BY <1>5, <2>1, StoreCalming
<1>6. CASE Surroundings
    <2>1. \A a \in Ids : ~RotateKey(a)
        BY DEF RotateKey, TypeOK
    <2>. QED
        BY <1>6, <2>1, StoreCreated DEF Surroundings
<1>7. CASE UNCHANGED vars
    BY <1>7 DEF vars, FollowInv, Inserted, Written, Settled, Agree, Gone, Known, Slots,
       ServedInv, Serve, Coming, InHand
<1>8. Warmer \in Procs /\ Workers \subseteq Procs
    BY DEF Procs
<1>. QED
    BY <1>1, <1>2, <1>3, <1>4, <1>5, <1>6, <1>7, <1>8, StoreRemoved DEF Next, Warm, Work

LEMMA StoreInit == PoolAssumption /\ Init => FollowInv /\ ServedInv
<1>. SUFFICES ASSUME PoolAssumption, Init
              PROVE  FollowInv /\ ServedInv
    OBVIOUS
<1>1. PICK ok \in SUBSET (1..BootCount), end \in 0..BootCount :
        /\ acct = [a \in Ids |->
                     [newAccount(row[a]) EXCEPT
                        !.initialized = a \in ok, !.ready = a \in ok,
                        !.settings = IF a \in ok THEN 0 ELSE -1]]
        /\ accounts \in Ascending(ok)
    BY DEF Init
<1>2. ok \subseteq Ids /\ BootCount \in Nat /\ MaxId \in Nat /\ BootCount <= MaxId
    BY DEF PoolAssumption, Ids
<1>3. Slots = ok
    BY <1>1, <1>2, AscendingIsSeq, AscendingRange DEF Slots
<1>4. Known = 1..BootCount
    <2>1. configured = [i \in 1..BootCount |-> i]
        BY DEF Init
    <2>. QED
        BY <2>1 DEF Known, Range
<1>5. ASSUME NEW a \in Ids
      PROVE  /\ acct[a].initialized <=> a \in ok
             /\ acct[a].ready <=> a \in ok
             /\ acct[a].disabled <=> row[a].state = "off"
             /\ ~acct[a].removed
    <2>. DEFINE r == newAccount(row[a])
                n == IF a \in ok THEN 0 ELSE -1
                i == a \in ok
    <2>1. /\ DOMAIN r = {"disabled", "removed", "initing", "initialized", "ready", "key", "settings"}
          /\ r.disabled = (row[a].state = "off") /\ ~r.removed
        BY DEF newAccount
    <2>2. acct[a] = [r EXCEPT !.initialized = i, !.ready = i, !.settings = n]
        BY <1>1
    <2>. HIDE DEF r, n, i
    <2>3. /\ acct[a].initialized = i /\ acct[a].ready = i
          /\ acct[a].disabled = r.disabled /\ acct[a].removed = r.removed
        BY <2>1, <2>2
    <2>. QED
        BY <2>1, <2>3 DEF i
<1>6. \A a \in Ids : row[a].state \in {"none", "on", "off"} /\ (row[a].state = "none" <=> a > BootCount)
    BY DEF Init
<1>7. \A p \in Procs : pc[p] = "idle" /\ job[p] = NoJob
    BY DEF Init
<1>8. Inserted
    <2>1. nextId = BootCount + 1
        BY DEF Init
    <2>2. ASSUME NEW p \in Procs, NEW a \in Ids
          PROVE  job[p].snap[a].state = "none"
        BY <1>7 DEF NoJob, NoSnapshot, NoRow
    <2>. QED
        BY <1>2, <1>4, <1>6, <2>1, <2>2 DEF Inserted, Ids
<1>9. \A p \in Workers : Written(p)
    BY <1>7 DEF Written, Procs
<1>10. ASSUME NEW a \in Known
       PROVE  Agree(a)
    <2>1. a \in Ids /\ a \in 1..BootCount
        BY <1>2, <1>4 DEF Ids
    <2>2. row[a].state \in {"on", "off"}
        BY <1>2, <1>6, <2>1
    <2>. QED
        BY <1>5, <2>1, <2>2 DEF Agree
<1>11. ServedInv
    <2>1. \A a \in ok : acct[a].initialized
        BY <1>2, <1>5
    <2>2. ASSUME NEW a \in Known
          PROVE  (acct[a].ready => a \in Slots) /\ (acct[a].initialized => a \in Slots)
        <3>1. a \in Ids
            BY <1>2, <1>4 DEF Ids
        <3>. QED
            BY <1>3, <1>5, <3>1
    <2>. QED
        BY <1>3, <2>1, <2>2 DEF ServedInv, Serve
<1>. QED
    BY <1>8, <1>9, <1>10, <1>11 DEF FollowInv

\* It holds always.
LEMMA StoreInvariantHolds == MaxRotations = 0 => (Spec => [](PoolInv /\ StoreInv))
<1>. SUFFICES ASSUME MaxRotations = 0
              PROVE  Spec => [](PoolInv /\ StoreInv)
    OBVIOUS
<1>1. Init => FollowInv /\ ServedInv
    BY PoolAssumption, StoreInit
<1>2. PoolInv /\ Unrotated /\ ClaimInv /\ FollowInv /\ ServedInv /\ [Next]_vars
        => FollowInv' /\ ServedInv'
    BY PoolAssumption, StoreInvariant DEF PoolInv
<1>3. PoolInv /\ Unrotated /\ ClaimInv /\ FollowInv /\ ServedInv => PoolInv /\ StoreInv
    BY DEF StoreInv
<1>4. Spec => [](PoolInv /\ Unrotated /\ ClaimInv)
    BY ClaimInvariantHolds
<1>. QED
    BY <1>1, <1>2, <1>3, <1>4, PTL DEF Spec

(***************************************************************************)
(* PickExcept only ever hands out initialized accounts and, between the    *)
(* operations of the pool, exactly those the accounts table has enabled:   *)
(* no order of SetEnabledReason, DeleteByID, Remove, Refresh, ReloadKeys   *)
(* and Warm loses an enabled account or serves a disabled one, except the  *)
(* accounts set from a stale snapshot or next to a failed write.           *)
(***************************************************************************)
THEOREM PoolFollowsTable == MaxRotations = 0 => (Spec => []PoolFollowsStore)
<1>1. ASSUME PoolInv, StoreInv
      PROVE  PoolFollowsStore
    <2>1. SelectableInitialized
        BY <1>1 DEF SelectableInitialized, Selectable, StoreInv, ServedInv
    <2>2. ASSUME NEW a \in Known \ suspect, AtRest(a)
          PROVE  /\ Selectable(a) => row[a].state = "on"
                 /\ row[a].state = "on" /\ acct[a].initialized => Selectable(a)
        <3>1. \A p \in Workers : pc[p] \in {"idle", "lock"}
            BY <1>1, <2>2, PoolAssumption DEF AtRest, StoreInv, ClaimInv, Placed, Procs
        <3>2. Agree(a)
            BY <1>1, <3>1 DEF StoreInv, FollowInv, Settled, Halfway
        <3>3. ~Coming(a)
            BY <2>2, <3>1 DEF AtRest, Coming, InHand, Adding, Procs
        <3>4. Serve(a)
            BY <1>1 DEF StoreInv, ServedInv
        <3>. QED
            BY <3>2, <3>3, <3>4 DEF Selectable, Agree, Serve
    <2>. QED
        BY <2>1, <2>2 DEF PoolFollowsStore
<1>. QED
    BY <1>1, StoreInvariantHolds, PTL
=============================================================================

--------------------------- MODULE GatewayProofs ---------------------------
(***************************************************************************)
(* Proofs about the gateway's requests, for every number of accounts and   *)
(* of concurrent requests, every limit of attempts and every pick strategy. *)
(***************************************************************************)
EXTENDS GatewayProperties, SequenceTheorems, FiniteSetTheorems, FiniteSetsExt,
        WellFoundedInduction, TLAPS

(***************************************************************************)
(* Numbers.                                                                *)
(***************************************************************************)
\* A set of numbers that is not empty has a least element.
LEMMA MinOfNats ==
    ASSUME NEW S, S \subseteq Nat, S # {}
    PROVE  Min(S) \in S /\ \A x \in S : Min(S) <= x
<1>1. PICK x \in S : \A y \in S : ~(<<y, x>> \in OpToRel(<, Nat))
    BY NatLessThanWellFounded, WFMin, Zenon
<1>2. \A y \in S : ~(y < x)
    BY <1>1, Zenon DEF OpToRel
<1>3. \A y \in S : x <= y
    BY <1>2
<1>. QED
    BY <1>3 DEF Min

\* The limits the code computes compare two numbers.
LEMMA MaxOfTwo ==
    ASSUME NEW a \in Int, NEW b \in Int
    PROVE  Max({a, b}) = IF a >= b THEN a ELSE b
BY DEF Max

\* The smaller of two numbers.
LEMMA MinOfTwo ==
    ASSUME NEW a \in Int, NEW b \in Int
    PROVE  Min({a, b}) = IF a <= b THEN a ELSE b
BY DEF Min

\* Where a function to the numbers is least on a set.
LEMMA LeastIndex ==
    ASSUME NEW S, S # {}, NEW f \in [S -> Nat]
    PROVE  \E k \in S : \A l \in S : f[k] <= f[l]
<1>. DEFINE V == {f[k] : k \in S}
<1>1. V \subseteq Nat /\ V # {}
    OBVIOUS
<1>2. Min(V) \in V /\ \A x \in V : Min(V) <= x
    BY <1>1, MinOfNats
<1>. QED
    BY <1>2

(***************************************************************************)
(* The inductive invariant.  What is known of a request depends on where   *)
(* in complete it is; slots only enter as the accounts that have one.      *)
(***************************************************************************)
Using == {"acquire", "create", "send", "wait", "policy", "cooling", "put"}

Sound(r, owners) ==
    /\ r.pc = "idle" => r = Idle
    /\ r.pc \in Using => \E a \in owners : r.acc = {a} /\ a \notin r.excluded
    /\ r.pc \in {"pick", "acquire", "create", "recheck"} => ~r.resuming /\ r.seen = {}
    /\ r.pc = "send" => r.resuming
    /\ r.pc \in {"pick", "acquire", "create"} => r.todo = NoTodo
    /\ r.pc \in {"send", "wait", "put"} => r.todo \in Created /\ r.acc = {r.todo[3]}
    /\ r.pc = "create" => r.acc \subseteq r.tried
    /\ r.pc \in {"pick", "acquire", "recheck"} => r.tried \subseteq r.excluded
    /\ r.tried \subseteq r.excluded \cup r.acc
    /\ r.seen \subseteq {r.todo}

\* A call of CoolDown is about one account, and has loaded no later end than its own.
CallSound(k) == k.current <= k.until /\ \A a, b \in k.acc : a = b

RosterSound ==
    /\ slots \in Seq(Ids) /\ disabled \subseteq Ids /\ removed \subseteq Ids
    /\ cooldown \in [Ids -> Nat] /\ spent \in [changes: Nat, faults: Nat]
    /\ cooling \in [Callers -> CoolDownCall] /\ \A c \in Callers : CallSound(cooling[c])
RequestsSound == \A q \in Requests : Sound(req[q], Range(slots))
SessionsSound ==
    /\ sessions \subseteq [todo: Created, slot: 1..Len(slots)]
    /\ \A s \in sessions : slots[s.slot] = s.todo[3]

GatewayInv ==
    /\ RosterSound /\ req \in [Requests -> Request] /\ inflight \in [Ids -> Nat]
    /\ RequestsSound /\ SessionsSound /\ InflightBalanced

(***************************************************************************)
(* Lemmas about the model's operators.                                     *)
(***************************************************************************)
\* A request at work has one account, which has a slot.
LEMMA AccIsOwner ==
    ASSUME GatewayInv, NEW q \in Requests, req[q].pc \in Using
    PROVE  /\ req[q].acc = {Acc(q)} /\ Acc(q) \in Ids
           /\ Acc(q) \in Range(slots) /\ Acc(q) \notin req[q].excluded
<1>1. PICK a \in Range(slots) : req[q].acc = {a} /\ a \notin req[q].excluded
    BY DEF GatewayInv, RequestsSound, Sound
<1>2. Range(slots) \subseteq Ids
    BY DEF GatewayInv, RosterSound, Range
<1>3. Acc(q) = a
    BY <1>1 DEF Acc
<1>. QED
    BY <1>1, <1>2, <1>3

\* Adding one to the end of the pool's slots loses none.
LEMMA SlotsGrow ==
    ASSUME slots \in Seq(Ids), NEW a \in Ids, Assign(a)
    PROVE  /\ slots' \in Seq(Ids) /\ Range(slots) \subseteq Range(slots')
           /\ \A i \in 1..Len(slots) : i \in 1..Len(slots') /\ slots'[i] = slots[i]
<1>1. slots' = Append(slots, a)
    BY DEF Assign
<1>2. slots' \in Seq(Ids) /\ Len(slots') = Len(slots) + 1 /\ Len(slots) \in Nat
    BY <1>1
<1>3. \A i \in 1..Len(slots) : i \in 1..Len(slots') /\ slots'[i] = slots[i]
    BY <1>1, <1>2
<1>. QED
    BY <1>2, <1>3 DEF Range

\* A scan stays within the slots.
LEMMA ScanStaysInside ==
    ASSUME slots \in Seq(Ids), Len(slots) > 0, NEW start \in Nat, NEW k \in Nat
    PROVE  Scanned(start, k) \in Range(slots) /\ Scanned(start, k) \in Ids
<1>. DEFINE n == Len(slots)
            i == (start + k) % n
<1>1. n \in Nat \ {0} /\ start + k \in Nat
    OBVIOUS
<1>2. i \in 0..n - 1
    BY <1>1
<1>3. i + 1 \in 1..Len(slots)
    BY <1>1, <1>2
<1>4. Scanned(start, k) = slots[i + 1]
    BY DEF Scanned
<1>. QED
    BY <1>3, <1>4 DEF Range

\* Whatever the strategy, the account picked has a slot and is not excluded.
LEMMA PickIsEligible ==
    ASSUME slots \in Seq(Ids), inflight \in [Ids -> Nat],
           NEW start \in Starts, NEW excluded, PickExcept(start, excluded) # {}
    PROVE  \E a \in Range(slots) \ excluded : PickExcept(start, excluded) = {a}
<1>. DEFINE ks == Eligible(start, excluded)
            busy(k) == inflight[Scanned(start, k)]
            idlest == {k \in ks : \A l \in ks : busy(k) <= busy(l)}
<1>1. ks # {}
    BY DEF PickExcept
<1>2. Len(slots) \in Nat /\ ks \subseteq 0..Len(slots) - 1
    BY DEF Eligible
<1>3. Len(slots) > 0
    BY <1>1, <1>2
<1>4. start \in Nat
    <2>1. Len(slots) - 1 \in Int
        BY <1>2
    <2>. QED
        BY <2>1, MaxOfTwo DEF Starts
<1>5. \A k \in ks : Scanned(start, k) \in Range(slots) \ excluded /\ busy(k) \in Nat
    BY <1>2, <1>3, <1>4, ScanStaysInside DEF Eligible
<1>6. Min(ks) \in ks
    BY <1>1, <1>2, MinOfNats
<1>7. Min(idlest) \in ks
    <2>. DEFINE f == [k \in ks |-> busy(k)]
    <2>1. f \in [ks -> Nat]
        BY <1>5
    <2>2. PICK k \in ks : \A l \in ks : f[k] <= f[l]
        BY <1>1, <2>1, LeastIndex
    <2>3. k \in idlest
        BY <2>2
    <2>4. idlest \subseteq Nat /\ idlest # {}
        BY <1>2, <2>3
    <2>5. Min(idlest) \in idlest
        BY <2>4, MinOfNats
    <2>. QED
        BY <2>5
<1>. QED
    BY <1>5, <1>6, <1>7 DEF PickExcept, leastBusy, roundRobin

(***************************************************************************)
(* A step of one request: enough to know what it becomes, and that the     *)
(* inflight counters follow it.                                            *)
(***************************************************************************)
HoldsIn(r, a) ==
    a \in r.acc /\ (r.pc \in {"create", "send", "wait", "put"} \/ (r.pc \in {"policy", "cooling"} /\ r.resuming))
One(b) == IF b THEN 1 ELSE 0
Counted(q, r) ==
    inflight' = [a \in Ids |-> inflight[a] + One(HoldsIn(r, a)) - One(HoldsIn(req[q], a))]

\* The counters stay exact when the one that moves is accounted for.
LEMMA CountersFollow ==
    ASSUME GatewayAssumption, GatewayInv, NEW q \in Requests, NEW r,
           Become(q, r), Counted(q, r)
    PROVE  inflight' \in [Ids -> Nat] /\ InflightBalanced'
<1>. SUFFICES ASSUME NEW a \in Ids
              PROVE  /\ inflight'[a] \in Nat
                     /\ inflight'[a] = Cardinality({p \in Requests : Holds(p, a)'})
    <2>1. inflight' = [a \in Ids |-> inflight[a] + One(HoldsIn(r, a)) - One(HoldsIn(req[q], a))]
        BY DEF Counted
    <2>. QED
        BY <2>1 DEF InflightBalanced
<1>. DEFINE H == {p \in Requests : Holds(p, a)}
            N == {p \in Requests : Holds(p, a)'}
<1>1. req' = [req EXCEPT ![q] = r] /\ req \in [Requests -> Request]
    BY DEF Become, GatewayInv
<1>2. inflight[a] = Cardinality(H) /\ inflight[a] \in Nat
    BY DEF GatewayInv, InflightBalanced
<1>3. \A p \in Requests : Holds(p, a) <=> HoldsIn(req[p], a)
    BY DEF Holds, HoldsIn
<1>4. \A p \in Requests : Holds(p, a)' <=> HoldsIn(req'[p], a)
    BY DEF Holds, HoldsIn
<1>5. \A p \in Requests : req'[p] = IF p = q THEN r ELSE req[p]
    BY <1>1
<1>6. N = IF HoldsIn(r, a) THEN H \cup {q} ELSE H \ {q}
    BY <1>3, <1>4, <1>5
<1>7. IsFiniteSet(H)
    BY FS_Subset DEF GatewayAssumption
<1>8. Cardinality(H \cup {q}) = IF q \in H THEN Cardinality(H) ELSE Cardinality(H) + 1
    BY <1>7, FS_AddElement
<1>9. Cardinality(H \ {q}) = IF q \in H THEN Cardinality(H) - 1 ELSE Cardinality(H)
    BY <1>7, FS_RemoveElement
<1>10. q \in H <=> HoldsIn(req[q], a)
    BY <1>3
<1>11. inflight'[a] = inflight[a] + One(HoldsIn(r, a)) - One(HoldsIn(req[q], a))
    BY DEF Counted
<1>12. IsFiniteSet(N)
    BY FS_Subset DEF GatewayAssumption
<1>13. inflight'[a] = Cardinality(N)
    <2>1. CASE HoldsIn(r, a)
        <3>1. Cardinality(N) = IF q \in H THEN Cardinality(H) ELSE Cardinality(H) + 1
            BY <1>6, <1>8, <2>1
        <3>2. inflight'[a] = inflight[a] + 1 - One(q \in H)
            BY <1>10, <1>11, <2>1 DEF One
        <3>. QED
            BY <1>2, <3>1, <3>2 DEF One
    <2>2. CASE ~HoldsIn(r, a)
        <3>1. Cardinality(N) = IF q \in H THEN Cardinality(H) - 1 ELSE Cardinality(H)
            BY <1>6, <1>9, <2>2
        <3>2. inflight'[a] = inflight[a] + 0 - One(q \in H)
            BY <1>10, <1>11, <2>2 DEF One
        <3>. QED
            BY <1>2, <3>1, <3>2 DEF One
    <2>. QED
        BY <2>1, <2>2
<1>14. Cardinality(N) \in Nat
    BY <1>12, FS_CardinalityType
<1>. QED
    BY <1>13, <1>14

\* The other requests are not disturbed.
LEMMA OthersStay ==
    ASSUME GatewayInv, NEW q \in Requests, NEW r \in Request, Become(q, r),
           Sound(r, Range(slots)), slots' = slots
    PROVE  req' \in [Requests -> Request] /\ RequestsSound'
<1>1. req' = [req EXCEPT ![q] = r] /\ req \in [Requests -> Request]
    BY DEF Become, GatewayInv
<1>2. \A p \in Requests : req'[p] = IF p = q THEN r ELSE req[p]
    BY <1>1
<1>3. Range(slots') = Range(slots)
    BY DEF Range
<1>4. \A p \in Requests : Sound(req[p], Range(slots))
    BY DEF GatewayInv, RequestsSound
<1>5. \A p \in Requests : Sound(req'[p], Range(slots'))
    BY <1>2, <1>3, <1>4
<1>. QED
    BY <1>1, <1>5 DEF RequestsSound

\* Together, for the steps that remember no session.
LEMMA RequestSteps ==
    ASSUME GatewayAssumption, GatewayInv, NEW q \in Requests, NEW r \in Request,
           Become(q, r), Sound(r, Range(slots)), Counted(q, r), RosterSound',
           slots' = slots, sessions' = sessions
    PROVE  GatewayInv'
<1>1. SessionsSound'
    BY DEF GatewayInv, SessionsSound
<1>. QED
    BY <1>1, CountersFollow, OthersStay DEF GatewayInv

\* A request that ends is sound and holds nothing.
LEMMA AnswerIsSound ==
    ASSUME GatewayAssumption, NEW owners, NEW r,
           NEW out \in {"reply", "failed", "unavailable", "gone"},
           r = [Idle EXCEPT !.pc = "done", !.out = out]
    PROVE  r \in Request /\ Sound(r, owners) /\ \A a : ~HoldsIn(r, a)
BY DEF Idle, Request, Todo, NoTodo, Sound, HoldsIn, Using

\* The three ways a step counts: not at all, by Acquire, by Release.
LEMMA CountKept ==
    ASSUME GatewayInv, NEW q \in Requests, NEW r, inflight' = inflight,
           \A a \in Ids : HoldsIn(r, a) <=> HoldsIn(req[q], a)
    PROVE  Counted(q, r)
<1>1. inflight \in [Ids -> Nat]
    BY DEF GatewayInv
<1>2. \A a \in Ids : inflight[a] + One(HoldsIn(r, a)) - One(HoldsIn(req[q], a)) = inflight[a]
    BY <1>1 DEF One
<1>. QED
    BY <1>1, <1>2 DEF Counted

LEMMA CountTaken ==
    ASSUME GatewayInv, NEW q \in Requests, NEW r, NEW b \in Ids, Acquired(b),
           \A a \in Ids : HoldsIn(r, a) <=> a = b,
           \A a \in Ids : ~HoldsIn(req[q], a)
    PROVE  Counted(q, r)
<1>1. inflight \in [Ids -> Nat]
    BY DEF GatewayInv
<1>2. inflight' = [inflight EXCEPT ![b] = inflight[b] + 1]
    BY DEF Acquired
<1>3. \A a \in Ids : inflight'[a] = inflight[a] + One(HoldsIn(r, a)) - One(HoldsIn(req[q], a))
    BY <1>1, <1>2 DEF One
<1>. QED
    BY <1>1, <1>2, <1>3 DEF Counted

LEMMA CountFreed ==
    ASSUME GatewayInv, NEW q \in Requests, NEW r, NEW b \in Ids, Released(b),
           \A a \in Ids : HoldsIn(req[q], a) <=> a = b,
           \A a \in Ids : ~HoldsIn(r, a)
    PROVE  Counted(q, r)
<1>1. inflight \in [Ids -> Nat]
    BY DEF GatewayInv
<1>2. inflight' = [inflight EXCEPT ![b] = inflight[b] - 1]
    BY DEF Released
<1>3. \A a \in Ids : inflight'[a] = inflight[a] + One(HoldsIn(r, a)) - One(HoldsIn(req[q], a))
    BY <1>1, <1>2 DEF One
<1>. QED
    BY <1>1, <1>2, <1>3 DEF Counted

\* What is known of a request, as facts about its record.
LEMMA RequestFields ==
    ASSUME GatewayInv, NEW q \in Requests
    PROVE  /\ req[q] \in Request /\ Sound(req[q], Range(slots))
           /\ RosterSound /\ req \in [Requests -> Request]
BY DEF GatewayInv, RequestsSound

(***************************************************************************)
(* The steps of a request.                                                 *)
(***************************************************************************)
LEMMA PickKeeps ==
    ASSUME GatewayAssumption, GatewayInv, NEW q \in Requests, Pick(q)
    PROVE  GatewayInv'
<1>1. RosterSound'
    BY RequestFields DEF Pick, roster, clocks, RosterSound
<1>2. slots' = slots /\ sessions' = sessions /\ inflight' = inflight
    BY DEF Pick, roster
<1>3. \A a : ~HoldsIn(req[q], a)
    BY DEF Pick, At, HoldsIn
<1>4. CASE Answer(q, "unavailable")
    <2>. DEFINE r == [Idle EXCEPT !.pc = "done", !.out = "unavailable"]
    <2>1. Become(q, r)
        BY <1>4 DEF Answer
    <2>2. r \in Request /\ Sound(r, Range(slots)) /\ \A a : ~HoldsIn(r, a)
        BY AnswerIsSound
    <2>. HIDE DEF r
    <2>3. Counted(q, r)
        BY <1>2, <1>3, <2>2, CountKept
    <2>. QED
        BY <1>1, <1>2, <2>1, <2>2, <2>3, RequestSteps
<1>5. ASSUME NEW start \in Starts,
             LET found == PickExcept(start, req[q].excluded) IN
             found # {} /\ Become(q, [req[q] EXCEPT !.pc = "acquire", !.acc = found])
      PROVE  GatewayInv'
    <2>. DEFINE found == PickExcept(start, req[q].excluded)
    <2>0. found # {} /\ slots \in Seq(Ids) /\ inflight \in [Ids -> Nat]
        BY <1>5 DEF GatewayInv, RosterSound
    <2>1. PICK b \in Range(slots) \ req[q].excluded : found = {b}
        BY <2>0, PickIsEligible
    <2>2. b \in Ids
        BY DEF GatewayInv, RosterSound, Range
    <2>. DEFINE r == [req[q] EXCEPT !.pc = "acquire", !.acc = {b}]
    <2>3. Become(q, r)
        BY <1>5, <2>1
    <2>4. r \in Request
        <3>1. req[q] \in Request /\ {b} \in SUBSET Ids
            BY <2>2, RequestFields
        <3>. QED
            BY <3>1 DEF Request
    <2>5. Sound(r, Range(slots))
        BY <2>1, RequestFields DEF Pick, At, Sound, Using, Request
    <2>6. \A a : ~HoldsIn(r, a)
        BY RequestFields DEF HoldsIn, Request
    <2>. HIDE DEF r
    <2>7. Counted(q, r)
        BY <1>2, <1>3, <2>6, CountKept
    <2>. QED
        BY <1>1, <1>2, <2>3, <2>4, <2>5, <2>7, RequestSteps
<1>. QED
    BY <1>4, <1>5 DEF Pick

LEMMA AcquireKeeps ==
    ASSUME GatewayAssumption, GatewayInv, NEW q \in Requests, Acquire(q)
    PROVE  GatewayInv'
<1>1. RosterSound' /\ slots' = slots /\ sessions' = sessions
    BY RequestFields DEF Acquire, roster, clocks, RosterSound
<1>2. req[q].acc = {Acc(q)} /\ Acc(q) \in Ids /\ Acc(q) \in Range(slots)
    BY AccIsOwner DEF Acquire, At, Using
<1>. DEFINE r == [req[q] EXCEPT !.pc = "create", !.tried = @ \cup req[q].acc]
<1>3. Become(q, r) /\ Acquired(Acc(q))
    BY DEF Acquire
<1>4. r \in Request
    BY ZenonT(30), RequestFields DEF Request
<1>5. Sound(r, Range(slots))
    BY RequestFields DEF Acquire, At, Sound, Using, Request
<1>6. \A a \in Ids : (HoldsIn(r, a) <=> a = Acc(q)) /\ ~HoldsIn(req[q], a)
    BY <1>2, RequestFields DEF Acquire, At, HoldsIn, Request
<1>. HIDE DEF r
<1>7. Counted(q, r)
    BY <1>2, <1>3, <1>6, CountTaken
<1>. QED
    BY <1>1, <1>3, <1>4, <1>5, <1>7, RequestSteps

LEMMA CreateTodoKeeps ==
    ASSUME GatewayAssumption, GatewayInv, NEW q \in Requests, CreateTodo(q)
    PROVE  GatewayInv'
<1>1. RosterSound' /\ slots' = slots /\ sessions' = sessions /\ inflight' = inflight
    BY RequestFields DEF CreateTodo, roster, clocks, RosterSound
<1>2. req[q].acc = {Acc(q)} /\ Acc(q) \in Ids
    BY AccIsOwner DEF CreateTodo, At, Using
<1>. DEFINE n == Cardinality(req[q].tried)
            t == <<q, n, Acc(q)>>
            r == [req[q] EXCEPT !.pc = "wait", !.todo = t]
<1>3. Become(q, r)
    BY DEF CreateTodo
<1>4. t \in Created /\ t[3] = Acc(q)
    <2>1. req[q].tried \subseteq Ids /\ req[q].tried # {}
        BY <1>2, RequestFields DEF CreateTodo, At, Sound, Request
    <2>2. IsFiniteSet(req[q].tried) /\ n \in Nat /\ n <= Cardinality(Ids) /\ n # 0
        BY <2>1, FS_Subset, FS_CardinalityType, FS_EmptySet DEF GatewayAssumption
    <2>3. Cardinality(Ids) \in Nat
        BY FS_CardinalityType DEF GatewayAssumption
    <2>4. n \in 1..Cardinality(Ids)
        BY <2>2, <2>3
    <2>. QED
        BY <1>2, <2>4 DEF Created
<1>. HIDE DEF t
<1>5. r \in Request
    <2>1. req[q] \in Request /\ t \in Todo
        BY <1>4, RequestFields DEF Todo
    <2>. QED
        BY <2>1 DEF Request
<1>6. Sound(r, Range(slots))
    BY <1>2, <1>4, RequestFields DEF CreateTodo, At, Sound, Using, Request
<1>7. \A a : HoldsIn(r, a) <=> HoldsIn(req[q], a)
    BY RequestFields DEF CreateTodo, At, HoldsIn, Request
<1>. HIDE DEF r
<1>8. Counted(q, r)
    BY <1>1, <1>7, CountKept
<1>. QED
    BY <1>1, <1>3, <1>5, <1>6, <1>8, RequestSteps

\* A request that uses an account holds that account only.
LEMMA HoldsItsAccount ==
    ASSUME GatewayInv, NEW q \in Requests,
           req[q].pc \in {"create", "send", "wait", "put"}
           \/ (req[q].pc \in {"policy", "cooling"} /\ req[q].resuming)
    PROVE  \A a : HoldsIn(req[q], a) <=> a = Acc(q)
<1>1. req[q].acc = {Acc(q)}
    BY AccIsOwner DEF Using
<1>. QED
    BY <1>1 DEF HoldsIn

\* However a request ends, its account is released if it was held.
LEMMA EndIsSound ==
    ASSUME GatewayAssumption, GatewayInv, NEW q \in Requests,
           NEW out \in {"reply", "failed", "unavailable", "gone"}, Answer(q, out),
           slots' = slots,
           \/ inflight' = inflight /\ \A a : ~HoldsIn(req[q], a)
           \/ Released(Acc(q)) /\ Acc(q) \in Ids /\ \A a : HoldsIn(req[q], a) <=> a = Acc(q)
    PROVE  /\ req' \in [Requests -> Request] /\ RequestsSound'
           /\ inflight' \in [Ids -> Nat] /\ InflightBalanced'
<1>. DEFINE r == [Idle EXCEPT !.pc = "done", !.out = out]
<1>1. Become(q, r)
    BY DEF Answer
<1>2. r \in Request /\ Sound(r, Range(slots)) /\ \A a : ~HoldsIn(r, a)
    BY AnswerIsSound
<1>. HIDE DEF r
<1>3. Counted(q, r)
    <2>1. CASE inflight' = inflight /\ \A a : ~HoldsIn(req[q], a)
        BY <1>2, <2>1, CountKept
    <2>2. CASE Released(Acc(q)) /\ Acc(q) \in Ids /\ \A a : HoldsIn(req[q], a) <=> a = Acc(q)
        BY <1>2, <2>2, CountFreed
    <2>. QED
        BY <2>1, <2>2
<1>. QED
    BY <1>1, <1>2, <1>3, CountersFollow, OthersStay

LEMMA EndKeeps ==
    ASSUME GatewayAssumption, GatewayInv, NEW q \in Requests,
           NEW out \in {"failed", "unavailable", "gone"}, Answer(q, out),
           RosterSound', slots' = slots, sessions' = sessions,
           \/ inflight' = inflight /\ \A a : ~HoldsIn(req[q], a)
           \/ Released(Acc(q)) /\ Acc(q) \in Ids /\ \A a : HoldsIn(req[q], a) <=> a = Acc(q)
    PROVE  GatewayInv'
<1>1. SessionsSound'
    BY DEF GatewayInv, SessionsSound
<1>. QED
    BY <1>1, EndIsSound DEF GatewayInv

\* The loop of complete is entered.
LEMMA EnteredIsSound ==
    ASSUME GatewayAssumption, slots \in Seq(Ids), NEW r \in Request,
           r.tried \subseteq r.excluded, r.seen = {}, ~r.resuming
    PROVE  /\ Entered(r) \in Request /\ Sound(Entered(r), Range(slots))
           /\ \A a : ~HoldsIn(Entered(r), a)
<1>. DEFINE limit == Min({EnabledLen, MaxAttempts})
<1>1. limit \in Nat
    <2>. DEFINE enabled == {i \in DOMAIN slots : slots[i] \notin disabled \cup removed}
    <2>1. IsFiniteSet(1..Len(slots)) /\ enabled \subseteq 1..Len(slots)
        BY FS_Interval
    <2>2. Cardinality(enabled) \in Nat
        BY <2>1, FS_Subset, FS_CardinalityType
    <2>3. EnabledLen \in Nat /\ MaxAttempts \in Nat
        BY <2>2 DEF GatewayAssumption, EnabledLen
    <2>. QED
        BY <2>3, MinOfTwo
<1>2. Entered(r) = [r EXCEPT !.pc = "pick", !.attempt = 0, !.todo = NoTodo, !.limit = limit]
    BY DEF Entered
<1>. HIDE DEF limit
<1>3. NoTodo \in Todo
    BY DEF Todo
<1>4. Entered(r) \in Request
    <2>. DEFINE s == [r EXCEPT !.pc = "pick", !.attempt = 0]
    <2>1. s \in Request
        BY DEF Request
    <2>2. Entered(r) = [s EXCEPT !.todo = NoTodo, !.limit = limit]
        BY <1>2
    <2>. QED
        BY ZenonT(30), <1>1, <1>3, <2>1, <2>2 DEF Request
<1>5. Sound(Entered(r), Range(slots))
    BY <1>2 DEF Sound, Using, Request
<1>. QED
    BY <1>2, <1>4, <1>5 DEF HoldsIn, Request

LEMMA StartNewKeeps ==
    ASSUME GatewayAssumption, GatewayInv, NEW q \in Requests, StartNew(q)
    PROVE  GatewayInv'
<1>1. RosterSound' /\ slots' = slots /\ sessions' = sessions /\ inflight' = inflight
    BY RequestFields DEF StartNew, roster, clocks, RosterSound
<1>2. Idle \in Request /\ Idle.tried \subseteq Idle.excluded /\ Idle.seen = {} /\ ~Idle.resuming
    BY DEF Idle, Request, Todo
<1>. DEFINE r == Entered(Idle)
<1>3. Become(q, r)
    BY DEF StartNew
<1>4. r \in Request /\ Sound(r, Range(slots)) /\ \A a : ~HoldsIn(r, a)
    BY <1>2, EnteredIsSound, RequestFields DEF RosterSound
<1>5. \A a : ~HoldsIn(req[q], a)
    BY DEF StartNew, At, HoldsIn
<1>. HIDE DEF r
<1>6. Counted(q, r)
    BY <1>1, <1>4, <1>5, CountKept
<1>. QED
    BY <1>1, <1>3, <1>4, <1>6, RequestSteps

LEMMA CreationEnds ==
    ASSUME GatewayAssumption, GatewayInv, NEW q \in Requests,
           \/ CreateNothing(q) \/ SendAborts(q) \/ StartStreamFails(q)
    PROVE  GatewayInv'
<1>1. RosterSound' /\ slots' = slots /\ sessions' = sessions
    BY RequestFields DEF CreateNothing, SendAborts, StartStreamFails, roster, clocks, RosterSound
<1>2. Answer(q, "failed") /\ Released(Acc(q)) /\ req[q].pc \in {"create", "send", "wait"}
    BY DEF CreateNothing, SendAborts, StartStreamFails, At
<1>3. Acc(q) \in Ids /\ \A a : HoldsIn(req[q], a) <=> a = Acc(q)
    BY <1>2, AccIsOwner, HoldsItsAccount DEF Using
<1>. QED
    BY <1>1, <1>2, <1>3, EndKeeps

LEMMA CreateFailsKeeps ==
    ASSUME GatewayAssumption, GatewayInv, NEW q \in Requests, NEW k \in Failures,
           CreateFails(q, k)
    PROVE  GatewayInv'
<1>1. RosterSound' /\ slots' = slots /\ sessions' = sessions
    BY RequestFields DEF CreateFails, roster, clocks, RosterSound
<1>2. req[q].pc = "create" /\ Released(Acc(q))
    BY DEF CreateFails, At
<1>3. Acc(q) \in Ids /\ \A a : HoldsIn(req[q], a) <=> a = Acc(q)
    BY <1>2, AccIsOwner, HoldsItsAccount DEF Using
<1>. DEFINE r == [req[q] EXCEPT !.pc = "policy", !.fail = k]
<1>4. Become(q, r)
    BY DEF CreateFails
<1>5. r \in Request
    BY ZenonT(30), RequestFields DEF Request
<1>6. Sound(r, Range(slots))
    BY <1>2, RequestFields DEF Sound, Using, Request
<1>7. \A a : ~HoldsIn(r, a)
    BY <1>2, RequestFields DEF HoldsIn, Request, Sound
<1>. HIDE DEF r
<1>8. Counted(q, r)
    BY <1>2, <1>3, <1>7, CountFreed
<1>. QED
    BY <1>1, <1>4, <1>5, <1>6, <1>8, RequestSteps

LEMMA ResumeKeeps ==
    ASSUME GatewayAssumption, GatewayInv, NEW q \in Requests, Resume(q)
    PROVE  GatewayInv'
<1>1. RosterSound' /\ slots' = slots /\ sessions' = sessions
    BY RequestFields DEF Resume, roster, clocks, RosterSound
<1>2. \A a : ~HoldsIn(req[q], a)
    BY DEF Resume, At, HoldsIn
<1>3. ASSUME Answer(q, "gone"), inflight' = inflight
      PROVE  GatewayInv'
    BY <1>1, <1>2, <1>3, EndKeeps
<1>4. ASSUME NEW s \in sessions, NEW a \in AtSlot(s.slot), Acquired(a),
             Become(q, [Idle EXCEPT !.pc = "send", !.resuming = TRUE, !.acc = {a}, !.todo = s.todo])
      PROVE  GatewayInv'
    <2>1. s.todo \in Created /\ s.slot \in 1..Len(slots) /\ slots[s.slot] = s.todo[3]
        BY DEF GatewayInv, SessionsSound
    <2>2. a = s.todo[3] /\ a \in Range(slots) /\ a \in Ids
        <3>1. a = slots[s.slot] /\ slots \in Seq(Ids)
            BY DEF AtSlot, GatewayInv, RosterSound
        <3>. QED
            BY <2>1, <3>1 DEF Range
    <2>. DEFINE r == [Idle EXCEPT !.pc = "send", !.resuming = TRUE, !.acc = {a}, !.todo = s.todo]
    <2>. DEFINE e == [Idle EXCEPT !.pc = "send", !.resuming = TRUE]
    <2>3. e \in Request /\ s.todo \in Todo /\ {a} \in SUBSET Ids
        <3>1. Idle \in Request
            BY DEF Idle, Request, Todo
        <3>. QED
            BY <2>1, <2>2, <3>1 DEF Request, Todo
    <2>4. /\ e.pc = "send" /\ e.resuming /\ e.excluded = {}
          /\ e.tried = {} /\ e.seen = {}
        BY DEF Idle
    <2>5. r = [e EXCEPT !.acc = {a}, !.todo = s.todo]
        OBVIOUS
    <2>. HIDE DEF e, r
    <2>6. r \in Request
        BY <2>3, <2>5 DEF Request
    <2>7. /\ r.pc = "send" /\ r.resuming /\ r.excluded = {} /\ r.tried = {} /\ r.seen = {}
          /\ r.acc = {a} /\ r.todo = s.todo
        BY <2>3, <2>4, <2>5 DEF Request
    <2>8. Sound(r, Range(slots))
        BY <2>1, <2>2, <2>7 DEF Sound, Using
    <2>9. \A b \in Ids : HoldsIn(r, b) <=> b = a
        BY <2>7 DEF HoldsIn
    <2>10. Become(q, r)
        BY <1>4 DEF r
    <2>11. Counted(q, r)
        BY <1>2, <1>4, <2>2, <2>9, CountTaken
    <2>. QED
        BY <1>1, <2>6, <2>8, <2>10, <2>11, RequestSteps
<1>. QED
    BY <1>3, <1>4 DEF Resume

LEMMA ResumeUnknownKeeps ==
    ASSUME GatewayAssumption, GatewayInv, NEW q \in Requests, ResumeUnknown(q)
    PROVE  GatewayInv'
<1>1. RosterSound' /\ slots' = slots /\ sessions' = sessions /\ inflight' = inflight
    BY RequestFields DEF ResumeUnknown, roster, clocks, RosterSound
<1>2. Answer(q, "gone") /\ \A a : ~HoldsIn(req[q], a)
    BY DEF ResumeUnknown, At, HoldsIn
<1>. QED
    BY <1>1, <1>2, EndKeeps

\* The steps that pass on text or a result, and the failures of a resumed
\* request, count nothing.
LEMMA QuietStepKeeps ==
    ASSUME GatewayAssumption, GatewayInv, NEW q \in Requests, NEW r \in Request,
           req[q].pc \in {"send", "wait"}, r.pc \in {"wait", "put", "policy"},
           r.pc = "policy" => req[q].resuming,
           r.resuming = req[q].resuming, r.acc = req[q].acc, r.todo = req[q].todo,
           r.excluded = req[q].excluded, r.tried = req[q].tried,
           r.seen \subseteq req[q].seen \cup {req[q].todo},
           Become(q, r), UNCHANGED <<roster, clocks, inflight, sessions, spent>>
    PROVE  GatewayInv'
<1>1. RosterSound' /\ slots' = slots /\ sessions' = sessions /\ inflight' = inflight
    BY RequestFields DEF roster, clocks, RosterSound
<1>2. Sound(r, Range(slots))
    BY RequestFields DEF Sound, Using
<1>3. \A a : HoldsIn(r, a) <=> HoldsIn(req[q], a)
    BY DEF HoldsIn
<1>4. Counted(q, r)
    BY <1>1, <1>3, CountKept
<1>. QED
    BY <1>1, <1>2, <1>4, RequestSteps

LEMMA SendKeeps ==
    ASSUME GatewayAssumption, GatewayInv, NEW q \in Requests, Send(q)
    PROVE  GatewayInv'
<1>. DEFINE seen == IF q \in Streaming THEN {req[q].todo} ELSE {}
            r == [req[q] EXCEPT !.pc = "wait", !.seen = seen]
<1>1. req[q] \in Request /\ seen \subseteq {req[q].todo} /\ seen \in SUBSET Todo
    BY RequestFields DEF Request
<1>. HIDE DEF seen
<1>2. r \in Request
    BY <1>1 DEF Request
<1>3. /\ r.pc = "wait" /\ r.resuming = req[q].resuming /\ r.acc = req[q].acc
      /\ r.todo = req[q].todo /\ r.excluded = req[q].excluded /\ r.tried = req[q].tried
      /\ r.seen = seen
    BY <1>1 DEF Request
<1>4. Become(q, r) /\ req[q].pc = "send"
      /\ UNCHANGED <<roster, clocks, inflight, sessions, spent>>
    BY DEF Send, At, seen
<1>. HIDE DEF r
<1>. QED
    BY <1>1, <1>2, <1>3, <1>4, QuietStepKeeps

LEMMA SendFailsKeeps ==
    ASSUME GatewayAssumption, GatewayInv, NEW q \in Requests, NEW k \in Failures,
           SendFails(q, k)
    PROVE  GatewayInv'
<1>. DEFINE r == [req[q] EXCEPT !.pc = "policy", !.fail = k]
<1>1. Become(q, r) /\ req[q].pc = "send"
      /\ UNCHANGED <<roster, clocks, inflight, sessions, spent>>
    BY DEF SendFails, At
<1>2. req[q] \in Request /\ req[q].resuming
    BY <1>1, RequestFields DEF Sound
<1>3. r \in Request
    BY <1>2 DEF Request
<1>4. /\ r.pc = "policy" /\ r.resuming = req[q].resuming /\ r.acc = req[q].acc
      /\ r.todo = req[q].todo /\ r.excluded = req[q].excluded /\ r.tried = req[q].tried
      /\ r.seen = req[q].seen
    BY <1>2 DEF Request
<1>. HIDE DEF r
<1>. QED
    BY <1>1, <1>2, <1>3, <1>4, QuietStepKeeps

LEMMA DeltaKeeps ==
    ASSUME GatewayAssumption, GatewayInv, NEW q \in Requests, Delta(q)
    PROVE  GatewayInv'
<1>. DEFINE seen == req[q].seen \cup {req[q].todo}
            r == [req[q] EXCEPT !.seen = seen]
<1>1. req[q] \in Request /\ seen \in SUBSET Todo
    BY RequestFields DEF Request
<1>2. Become(q, r) /\ req[q].pc = "wait"
      /\ UNCHANGED <<roster, clocks, inflight, sessions, spent>>
    BY DEF Delta, At
<1>3. seen \subseteq req[q].seen \cup {req[q].todo}
    OBVIOUS
<1>. HIDE DEF seen
<1>4. r \in Request
    BY <1>1 DEF Request
<1>5. /\ r.pc = "wait" /\ r.resuming = req[q].resuming /\ r.acc = req[q].acc
      /\ r.todo = req[q].todo /\ r.excluded = req[q].excluded /\ r.tried = req[q].tried
      /\ r.seen = seen
    BY <1>1, <1>2 DEF Request
<1>. HIDE DEF r
<1>. QED
    BY <1>2, <1>3, <1>4, <1>5, QuietStepKeeps

LEMMA WaitDoneKeeps ==
    ASSUME GatewayAssumption, GatewayInv, NEW q \in Requests, WaitDone(q)
    PROVE  GatewayInv'
<1>. DEFINE seen == IF q \in Streaming THEN req[q].seen \cup {req[q].todo} ELSE req[q].seen
            r == [req[q] EXCEPT !.pc = "put", !.seen = seen]
<1>1. req[q] \in Request /\ seen \in SUBSET Todo
    BY RequestFields DEF Request
<1>2. Become(q, r) /\ req[q].pc = "wait"
      /\ UNCHANGED <<roster, clocks, inflight, sessions, spent>>
    BY DEF WaitDone, At
<1>3. seen \subseteq req[q].seen \cup {req[q].todo}
    OBVIOUS
<1>. HIDE DEF seen
<1>4. r \in Request
    BY <1>1 DEF Request
<1>5. /\ r.pc = "put" /\ r.resuming = req[q].resuming /\ r.acc = req[q].acc
      /\ r.todo = req[q].todo /\ r.excluded = req[q].excluded /\ r.tried = req[q].tried
      /\ r.seen = seen
    BY <1>1 DEF Request
<1>. HIDE DEF r
<1>. QED
    BY <1>2, <1>3, <1>4, <1>5, QuietStepKeeps

\* A new conversation that fails releases its account, a resumed one keeps it.
LEMMA WaitFailsKeeps ==
    ASSUME GatewayAssumption, GatewayInv, NEW q \in Requests, NEW k \in Failures,
           WaitFails(q, k)
    PROVE  GatewayInv'
<1>1. RosterSound' /\ slots' = slots /\ sessions' = sessions
    BY RequestFields DEF WaitFails, roster, clocks, RosterSound
<1>2. req[q].pc = "wait" /\ (IF req[q].resuming THEN inflight' = inflight ELSE Released(Acc(q)))
    BY DEF WaitFails, At
<1>3. Acc(q) \in Ids /\ \A a : HoldsIn(req[q], a) <=> a = Acc(q)
    BY <1>2, AccIsOwner, HoldsItsAccount DEF Using
<1>. DEFINE r == [req[q] EXCEPT !.pc = "policy", !.fail = k]
<1>4. Become(q, r)
    BY DEF WaitFails
<1>5. r \in Request
    BY ZenonT(30), RequestFields DEF Request
<1>6. Sound(r, Range(slots))
    BY <1>2, RequestFields DEF Sound, Using, Request
<1>7. \A a : HoldsIn(r, a) <=> req[q].resuming /\ HoldsIn(req[q], a)
    BY <1>2, RequestFields DEF HoldsIn, Request
<1>. HIDE DEF r
<1>8. Counted(q, r)
    <2>1. CASE req[q].resuming
        BY <1>2, <1>7, <2>1, CountKept
    <2>2. CASE ~req[q].resuming
        BY <1>2, <1>3, <1>7, <2>2, CountFreed
    <2>. QED
        BY <2>1, <2>2
<1>. QED
    BY <1>1, <1>4, <1>5, <1>6, <1>8, RequestSteps

(***************************************************************************)
(* A failed account, and the end of a request that succeeds.               *)
(***************************************************************************)
\* Failing over: the account is excluded before another one is looked for.
LEMMA AfterFailureKeeps ==
    ASSUME GatewayAssumption, GatewayInv, NEW q \in Requests,
           req[q].pc \in {"policy", "cooling"},
           AfterFailure(q), RosterSound', slots' = slots, sessions' = sessions
    PROVE  GatewayInv'
<1>1. Acc(q) \in Ids /\ req[q].acc = {Acc(q)}
    BY AccIsOwner DEF Using
<1>2. CASE Final(q)
    <2>1. Answer(q, "failed") /\ (IF req[q].resuming THEN Released(Acc(q)) ELSE inflight' = inflight)
        BY <1>2 DEF AfterFailure
    <2>2. CASE req[q].resuming
        <3>1. \A a : HoldsIn(req[q], a) <=> a = Acc(q)
            BY <2>2, HoldsItsAccount
        <3>. QED
            BY <1>1, <2>1, <2>2, <3>1, EndKeeps
    <2>3. CASE ~req[q].resuming
        <3>1. \A a : ~HoldsIn(req[q], a)
            BY <2>3 DEF HoldsIn
        <3>. QED
            BY <2>1, <2>3, <3>1, EndKeeps
    <2>. QED
        BY <2>2, <2>3
<1>3. CASE ~Final(q)
    <2>. DEFINE l == IF req[q].todo = NoTodo THEN "pick" ELSE "recheck"
                e == [req[q] EXCEPT !.pc = l, !.attempt = req[q].attempt + 1]
                r == [req[q] EXCEPT !.pc = l, !.attempt = @ + 1, !.excluded = Excluded(q)]
    <2>1. Become(q, r) /\ inflight' = inflight
        BY <1>3 DEF AfterFailure
    <2>2. l \in {"pick", "recheck"} /\ (l = "pick" => req[q].todo = NoTodo)
        OBVIOUS
    <2>3. ~req[q].resuming /\ req[q].seen = {}
        BY <1>3 DEF Final
    <2>4. req[q] \in Request /\ req[q].attempt + 1 \in Nat
        BY RequestFields DEF Request
    <2>5. r = [e EXCEPT !.excluded = Excluded(q)]
        OBVIOUS
    <2>. HIDE DEF l, r
    <2>6. e \in Request
        BY <2>2, <2>4 DEF Request
    <2>7. /\ e.pc = l /\ e.resuming = req[q].resuming /\ e.acc = req[q].acc /\ e.todo = req[q].todo
          /\ e.tried = req[q].tried /\ e.seen = req[q].seen
        BY <2>4 DEF Request
    <2>8. Excluded(q) \in SUBSET Ids /\ Excluded(q) = req[q].excluded \cup req[q].acc
        BY <2>4 DEF Excluded, Request
    <2>. HIDE DEF e
    <2>9. r \in Request
        BY <2>5, <2>6, <2>8 DEF Request
    <2>10. /\ r.pc = l /\ ~r.resuming /\ r.seen = {} /\ r.todo = req[q].todo
           /\ r.tried = req[q].tried /\ r.excluded = req[q].excluded \cup req[q].acc
        BY <2>3, <2>5, <2>6, <2>7, <2>8 DEF Request
    <2>11. req[q].tried \subseteq req[q].excluded \cup req[q].acc
        BY RequestFields DEF Sound
    <2>12. Sound(r, Range(slots))
        BY <2>2, <2>10, <2>11 DEF Sound, Using
    <2>13. \A a : ~HoldsIn(r, a) /\ ~HoldsIn(req[q], a)
        BY <2>2, <2>3, <2>10 DEF HoldsIn
    <2>14. Counted(q, r)
        BY <2>1, <2>13, CountKept
    <2>. QED
        BY <2>1, <2>9, <2>12, <2>14, RequestSteps
<1>. QED
    BY <1>2, <1>3

\* The time a failure costs an account.
LEMMA PolicySeconds ==
    ASSUME NEW k, accountFailurePolicy(k).action = "cooldown"
    PROVE  accountFailurePolicy(k).secs \in Nat
BY DEF accountFailurePolicy

\* A call of CoolDown begins.
LEMMA CallIsSound ==
    ASSUME RosterSound, NEW c \in Callers, NEW a \in Ids, NEW secs \in Nat, called(c, a, secs),
           UNCHANGED <<roster, cooldown>>, spent' \in [changes: Nat, faults: Nat]
    PROVE  RosterSound'
<1>. DEFINE call == [acc |-> {a}, until |-> secs, current |-> Unread]
<1>1. cooling' = [cooling EXCEPT ![c] = call] /\ cooling \in [Callers -> CoolDownCall]
    BY DEF called, RosterSound
<1>2. call \in CoolDownCall /\ CallSound(call)
    BY DEF CoolDownCall, CallSound, Unread
<1>. HIDE DEF call
<1>3. \A d \in Callers : cooling'[d] = IF d = c THEN call ELSE cooling[d]
    BY <1>1
<1>4. \A d \in Callers : CallSound(cooling'[d])
    BY <1>2, <1>3 DEF RosterSound
<1>5. cooling' \in [Callers -> CoolDownCall]
    BY <1>1, <1>2
<1>. QED
    BY <1>4, <1>5 DEF RosterSound, roster

LEMMA CoolDownKeeps ==
    ASSUME GatewayAssumption, GatewayInv, NEW q \in Requests, CoolDown(q)
    PROVE  GatewayInv'
<1>1. /\ req[q].pc = "policy" /\ UNCHANGED <<roster, cooldown, inflight, sessions, spent>>
      /\ Goto(q, "cooling") /\ called(q, Acc(q), accountFailurePolicy(req[q].fail).secs)
    BY DEF CoolDown, At
<1>2. Acc(q) \in Ids /\ accountFailurePolicy(req[q].fail).secs \in Nat
    BY <1>1, AccIsOwner, PolicySeconds DEF Using, CoolDown
<1>3. RosterSound'
    BY <1>1, <1>2, RequestFields, CallIsSound DEF RosterSound, Callers
<1>4. slots' = slots /\ sessions' = sessions /\ inflight' = inflight
    BY <1>1 DEF roster
<1>. DEFINE r == [req[q] EXCEPT !.pc = "cooling"]
<1>5. Become(q, r)
    BY <1>1 DEF Goto, Become
<1>6. r \in Request
    BY RequestFields DEF Request
<1>7. Sound(r, Range(slots))
    BY <1>1, RequestFields DEF Sound, Using, Request
<1>8. \A a : HoldsIn(r, a) <=> HoldsIn(req[q], a)
    BY <1>1, RequestFields DEF HoldsIn, Request
<1>. HIDE DEF r
<1>9. Counted(q, r)
    BY <1>4, <1>8, CountKept
<1>. QED
    BY <1>3, <1>4, <1>5, <1>6, <1>7, <1>9, RequestSteps

LEMMA FailureKeeps ==
    ASSUME GatewayAssumption, GatewayInv, NEW q \in Requests,
           CoolDownReturns(q) \/ Remove(q)
    PROVE  GatewayInv'
<1>1. /\ req[q].pc \in {"policy", "cooling"} /\ AfterFailure(q)
      /\ slots' = slots /\ sessions' = sessions
    BY DEF CoolDownReturns, Remove, At, roster
<1>2. req[q].acc = {Acc(q)} /\ Acc(q) \in Ids
    BY <1>1, AccIsOwner DEF Using
<1>3. RosterSound'
    <2>1. CASE CoolDownReturns(q)
        BY <2>1, RequestFields DEF CoolDownReturns, roster, clocks, RosterSound
    <2>2. CASE Remove(q)
        BY <1>2, <2>2, RequestFields DEF Remove, clocks, RosterSound
    <2>. QED
        BY <2>1, <2>2
<1>. QED
    BY <1>1, <1>3, AfterFailureKeeps

\* A failure without a policy, and one whose account could not be removed.
LEMMA FailureEnds ==
    ASSUME GatewayAssumption, GatewayInv, NEW q \in Requests,
           NoPolicy(q) \/ RemoveFails(q)
    PROVE  GatewayInv'
<1>1. /\ req[q].pc = "policy" /\ slots' = slots /\ sessions' = sessions /\ Answer(q, "failed")
      /\ IF req[q].resuming THEN Released(Acc(q)) ELSE inflight' = inflight
    BY DEF NoPolicy, RemoveFails, At, roster
<1>2. RosterSound'
    <2>1. CASE NoPolicy(q)
        BY <2>1, RequestFields DEF NoPolicy, roster, clocks, RosterSound
    <2>2. CASE RemoveFails(q)
        <3>1. spent' = [spent EXCEPT !.faults = spent.faults + 1] /\ UNCHANGED <<roster, clocks>>
            BY <2>2 DEF RemoveFails
        <3>2. RosterSound
            BY DEF GatewayInv
        <3>3. spent' \in [changes: Nat, faults: Nat]
            BY <3>1, <3>2 DEF RosterSound
        <3>. QED
            BY <3>1, <3>2, <3>3 DEF roster, clocks, RosterSound
    <2>. QED
        BY <2>1, <2>2
<1>3. Acc(q) \in Ids
    BY <1>1, AccIsOwner DEF Using
<1>4. CASE req[q].resuming
    <2>1. \A a : HoldsIn(req[q], a) <=> a = Acc(q)
        BY <1>1, <1>4, HoldsItsAccount
    <2>. QED
        BY <1>1, <1>2, <1>3, <1>4, <2>1, EndKeeps
<1>5. CASE ~req[q].resuming
    <2>1. \A a : ~HoldsIn(req[q], a)
        BY <1>1, <1>5 DEF HoldsIn
    <2>. QED
        BY <1>1, <1>2, <1>5, <2>1, EndKeeps
<1>. QED
    BY <1>4, <1>5

LEMMA RecheckKeeps ==
    ASSUME GatewayAssumption, GatewayInv, NEW q \in Requests, Recheck(q)
    PROVE  GatewayInv'
<1>1. RosterSound' /\ slots' = slots /\ sessions' = sessions /\ inflight' = inflight
    BY RequestFields DEF Recheck, roster, clocks, RosterSound
<1>2. req[q].pc = "recheck" /\ \A a : ~HoldsIn(req[q], a)
    BY DEF Recheck, At, HoldsIn
<1>3. CASE Become(q, Entered(req[q]))
    <2>1. /\ req[q] \in Request /\ req[q].tried \subseteq req[q].excluded
          /\ req[q].seen = {} /\ ~req[q].resuming
        BY <1>2, RequestFields DEF Sound
    <2>. DEFINE r == Entered(req[q])
    <2>2. r \in Request /\ Sound(r, Range(slots)) /\ \A a : ~HoldsIn(r, a)
        BY <2>1, EnteredIsSound, RequestFields DEF RosterSound
    <2>. HIDE DEF r
    <2>3. Counted(q, r)
        BY <1>1, <1>2, <2>2, CountKept
    <2>. QED
        BY <1>1, <1>3, <2>2, <2>3, RequestSteps DEF r
<1>4. CASE Answer(q, "failed") \/ Answer(q, "unavailable")
    BY <1>1, <1>2, <1>4, EndKeeps
<1>. QED
    BY <1>3, <1>4 DEF Recheck

\* The reply is remembered under a slot of the account its todo lives on.
LEMMA PutKeeps ==
    ASSUME GatewayAssumption, GatewayInv, NEW q \in Requests, Put(q)
    PROVE  GatewayInv'
<1>1. req[q].pc = "put" /\ Answer(q, "reply") /\ Released(Acc(q)) /\ slots' = slots
    BY DEF Put, At, roster
<1>2. RosterSound'
    BY RequestFields DEF Put, roster, clocks, RosterSound
<1>3. Acc(q) \in Ids /\ Acc(q) \in Range(slots) /\ req[q].acc = {Acc(q)}
    BY <1>1, AccIsOwner DEF Using
<1>4. \A a : HoldsIn(req[q], a) <=> a = Acc(q)
    BY <1>1, HoldsItsAccount
<1>5. req[q].todo \in Created /\ req[q].todo[3] = Acc(q)
    BY <1>1, <1>3, RequestFields DEF Sound
<1>6. IndexOf(Acc(q)) \in 1..Len(slots) /\ slots[IndexOf(Acc(q))] = Acc(q)
    <2>1. slots \in Seq(Ids)
        BY DEF GatewayInv, RosterSound
    <2>2. \E i \in DOMAIN slots : slots[i] = Acc(q)
        BY <1>3 DEF Range
    <2>3. IndexOf(Acc(q)) \in DOMAIN slots /\ slots[IndexOf(Acc(q))] = Acc(q)
        BY <2>2 DEF IndexOf
    <2>. QED
        BY <2>1, <2>3
<1>. DEFINE new == [todo |-> req[q].todo, slot |-> IndexOf(Acc(q))]
<1>7. sessions' = {s \in sessions : s.todo # req[q].todo} \cup {new}
    BY DEF Put
<1>8. new \in [todo: Created, slot: 1..Len(slots)] /\ slots[new.slot] = new.todo[3]
    BY <1>5, <1>6
<1>. HIDE DEF new
<1>9. SessionsSound'
    <2>1. /\ sessions \subseteq [todo: Created, slot: 1..Len(slots)]
          /\ \A s \in sessions : slots[s.slot] = s.todo[3]
        BY DEF GatewayInv, SessionsSound
    <2>2. /\ sessions' \subseteq [todo: Created, slot: 1..Len(slots)]
          /\ \A s \in sessions' : slots[s.slot] = s.todo[3]
        BY <1>7, <1>8, <2>1
    <2>. QED
        BY <1>1, <2>2 DEF SessionsSound
<1>. QED
    BY <1>1, <1>2, <1>3, <1>4, <1>9, EndIsSound DEF GatewayInv

(***************************************************************************)
(* The surroundings: slots are only added, counters left alone.            *)
(***************************************************************************)
LEMMA SurroundingsKeep ==
    ASSUME GatewayInv, UNCHANGED <<inflight, req, sessions>>, RosterSound',
           Range(slots) \subseteq Range(slots'),
           \A i \in 1..Len(slots) : i \in 1..Len(slots') /\ slots'[i] = slots[i]
    PROVE  GatewayInv'
<1>1. \A q \in Requests : Sound(req[q], Range(slots'))
    <2>1. SUFFICES ASSUME NEW q \in Requests
                   PROVE  Sound(req[q], Range(slots'))
        OBVIOUS
    <2>2. Sound(req[q], Range(slots))
        BY RequestFields
    <2>. QED
        BY <2>2 DEF Sound
<1>2. RequestsSound'
    BY <1>1 DEF RequestsSound
<1>3. SessionsSound'
    <2>1. /\ sessions \subseteq [todo: Created, slot: 1..Len(slots)]
          /\ \A s \in sessions : slots[s.slot] = s.todo[3]
        BY DEF GatewayInv, SessionsSound
    <2>2. \A s \in sessions : /\ s \in [todo: Created, slot: 1..Len(slots')]
                              /\ slots'[s.slot] = s.todo[3]
        BY <2>1
    <2>. QED
        BY <2>2 DEF SessionsSound
<1>4. InflightBalanced'
    BY DEF GatewayInv, InflightBalanced, Holds
<1>. QED
    BY <1>2, <1>3, <1>4 DEF GatewayInv

LEMMA ReconcileKeeps ==
    ASSUME GatewayAssumption, GatewayInv, Reconcile
    PROVE  GatewayInv'
<1>1. UNCHANGED <<clocks, inflight, req, sessions>> /\ RosterSound
    BY DEF Reconcile, GatewayInv
<1>2. spent' \in [changes: Nat, faults: Nat]
    BY SMTT(30), <1>1 DEF Reconcile, Spend, RosterSound
<1>3. PICK a \in Ids :
         \/ Assign(a)
         \/ /\ \/ disabled' \in {disabled \cup {a}, disabled \ {a}} /\ removed' = removed
               \/ removed' \in {removed \cup {a}, removed \ {a}} /\ disabled' = disabled
            /\ UNCHANGED slots
    BY DEF Reconcile
<1>4. CASE Assign(a)
    <2>1. /\ slots' \in Seq(Ids) /\ Range(slots) \subseteq Range(slots')
          /\ \A i \in 1..Len(slots) : i \in 1..Len(slots') /\ slots'[i] = slots[i]
        BY <1>1, <1>4, SlotsGrow DEF RosterSound
    <2>2. RosterSound'
        BY <1>1, <1>2, <1>4, <2>1 DEF RosterSound, Assign, clocks
    <2>. QED
        BY <1>1, <2>1, <2>2, SurroundingsKeep
<1>5. CASE /\ disabled' \subseteq Ids /\ removed' \subseteq Ids /\ slots' = slots
    <2>1. RosterSound'
        BY <1>1, <1>2, <1>5 DEF RosterSound, clocks
    <2>2. /\ Range(slots) \subseteq Range(slots')
          /\ \A i \in 1..Len(slots) : i \in 1..Len(slots') /\ slots'[i] = slots[i]
        BY <1>5 DEF Range
    <2>. QED
        BY <1>1, <2>1, <2>2, SurroundingsKeep
<1>6. disabled \subseteq Ids /\ removed \subseteq Ids
    BY <1>1 DEF RosterSound
<1>. QED
    BY <1>3, <1>4, <1>5, <1>6

\* Time takes no cooldown below zero, nor an order of ends away.
LEMMA LaterIsLess ==
    ASSUME NEW x \in Nat, NEW d \in Nat
    PROVE  /\ Later(x, d) \in Nat
           /\ x > 0 /\ d > 0 => Later(x, d) < x
           /\ \A y \in Nat : y <= x => Later(y, d) <= Later(x, d)
BY DEF Later

LEMMA TickKeeps ==
    ASSUME GatewayInv, Tick
    PROVE  GatewayInv'
<1>1. PICK a \in Ids :
         /\ cooldown[a] > 0
         /\ cooldown' = [b \in Ids |-> Later(cooldown[b], cooldown[a])]
         /\ cooling' = [c \in Callers |->
              [acc |-> cooling[c].acc, until |-> Later(cooling[c].until, cooldown[a]),
               current |-> IF cooling[c].current = Unread THEN Unread
                           ELSE Later(cooling[c].current, cooldown[a])]]
         /\ UNCHANGED <<roster, inflight, req, sessions, spent>>
    BY DEF Tick
<1>2. RosterSound /\ cooldown[a] \in Nat
    BY DEF GatewayInv, RosterSound
<1>3. cooldown' \in [Ids -> Nat]
    BY <1>1, <1>2, LaterIsLess DEF RosterSound
<1>4. ASSUME NEW c \in Callers
      PROVE  cooling'[c] \in CoolDownCall /\ CallSound(cooling'[c])
    <2>. DEFINE k == cooling[c]
                u == Later(k.until, cooldown[a])
                v == IF k.current = Unread THEN Unread ELSE Later(k.current, cooldown[a])
    <2>1. k \in CoolDownCall /\ CallSound(k)
        BY <1>2 DEF RosterSound
    <2>2. /\ k.acc \in SUBSET Ids /\ k.until \in Nat /\ k.current \in Nat \cup {Unread}
          /\ k.current <= k.until /\ \A x, y \in k.acc : x = y
        BY <2>1 DEF CoolDownCall, CallSound
    <2>3. cooling'[c] = [acc |-> k.acc, until |-> u, current |-> v]
        BY <1>1
    <2>. HIDE DEF k
    <2>4. u \in Nat
        BY <1>2, <2>2, LaterIsLess
    <2>5. v \in Nat \cup {Unread} /\ v <= u
        <3>1. CASE k.current = Unread
            BY <2>4, <3>1 DEF Unread
        <3>2. CASE k.current # Unread
            BY <1>2, <2>2, <3>2, LaterIsLess
        <3>. QED
            BY <3>1, <3>2
    <2>. HIDE DEF u, v
    <2>. QED
        BY <2>2, <2>3, <2>4, <2>5 DEF CoolDownCall, CallSound
<1>5. cooling' \in [Callers -> CoolDownCall]
    <2>1. DOMAIN cooling' = Callers /\ cooling' = [c \in Callers |-> cooling'[c]]
        BY <1>1
    <2>. QED
        BY <1>4, <2>1
<1>6. RosterSound'
    BY <1>1, <1>2, <1>3, <1>4, <1>5 DEF RosterSound, roster
<1>7. /\ Range(slots) \subseteq Range(slots')
      /\ \A i \in 1..Len(slots) : i \in 1..Len(slots') /\ slots'[i] = slots[i]
    BY <1>1 DEF Range, roster
<1>. QED
    BY <1>1, <1>6, <1>7, SurroundingsKeep

LEMMA AdminKeeps ==
    ASSUME GatewayInv, NEW a \in Ids, Enable(a) \/ HealthCheck(a)
    PROVE  GatewayInv'
<1>1. RosterSound
    BY DEF GatewayInv
<1>2. UNCHANGED <<slots, inflight, req, sessions>>
    BY DEF Enable, HealthCheck, roster
<1>3. spent' \in [changes: Nat, faults: Nat]
    BY <1>1 DEF Enable, HealthCheck, Spend, RosterSound
<1>4. RosterSound'
    <2>1. CASE Enable(a)
        BY <1>1, <1>3, <2>1 DEF Enable, RosterSound
    <2>2. CASE HealthCheck(a)
        <3>. DEFINE hour == 3600
        <3>1. hour \in Nat /\ called(a, a, hour) /\ UNCHANGED <<roster, cooldown>> /\ a \in Callers
            BY <2>2 DEF HealthCheck, Callers
        <3>. HIDE DEF hour
        <3>. QED
            BY <1>1, <1>3, <3>1, CallIsSound
    <2>. QED
        BY <2>1, <2>2
<1>5. /\ Range(slots) \subseteq Range(slots')
      /\ \A i \in 1..Len(slots) : i \in 1..Len(slots') /\ slots'[i] = slots[i]
    BY <1>2 DEF Range
<1>. QED
    BY <1>2, <1>4, <1>5, SurroundingsKeep

\* What a step inside CoolDown does: the call goes on, or returns with the
\* cooldown at least as long as its own; the cooldown only gets longer.
LEMMA CoolDownSteps ==
    ASSUME RosterSound, NEW c \in Callers, loadCooldown(c) \/ swapCooldown(c)
    PROVE  /\ cooldown' \in [Ids -> Nat] /\ \A a \in Ids : cooldown'[a] >= cooldown[a]
           /\ cooling' \in [Callers -> CoolDownCall]
           /\ \A d \in Callers : CallSound(cooling'[d])
           /\ \A d \in Callers : d # c => cooling'[d] = cooling[d]
           /\ cooling'[c] = Quiet => \A a \in cooling[c].acc : cooldown'[a] >= cooling[c].until
<1>1. /\ cooldown \in [Ids -> Nat] /\ cooling \in [Callers -> CoolDownCall]
      /\ \A d \in Callers : CallSound(cooling[d])
    BY DEF RosterSound
<1>. DEFINE k == cooling[c]
<1>2. k \in CoolDownCall /\ CallSound(k)
    BY <1>1
<1>3. Quiet \in CoolDownCall /\ CallSound(Quiet)
    BY DEF Quiet, CoolDownCall, CallSound, Unread
<1>4. ASSUME NEW new \in CoolDownCall, CallSound(new), cooling' = [cooling EXCEPT ![c] = new]
      PROVE  /\ cooling' \in [Callers -> CoolDownCall]
             /\ \A d \in Callers : CallSound(cooling'[d])
             /\ \A d \in Callers : d # c => cooling'[d] = cooling[d]
             /\ cooling'[c] = new
    <2>1. \A d \in Callers : cooling'[d] = IF d = c THEN new ELSE cooling[d]
        BY <1>1, <1>4
    <2>. QED
        BY <1>1, <1>4, <2>1
<1>5. CASE loadCooldown(c)
    <2>1. PICK a \in k.acc : cooling' = [cooling EXCEPT ![c] =
                IF cooldown[a] >= k.until THEN Quiet ELSE [k EXCEPT !.current = cooldown[a]]]
        BY <1>5 DEF loadCooldown
    <2>2. cooldown' = cooldown
        BY <1>5 DEF loadCooldown
    <2>3. /\ a \in Ids /\ cooldown[a] \in Nat /\ k.until \in Nat /\ k.acc \in SUBSET Ids
          /\ \A b \in k.acc : b = a
        BY <1>1, <1>2 DEF CoolDownCall, CallSound
    <2>4. CASE cooldown[a] >= k.until
        <3>1. cooling' = [cooling EXCEPT ![c] = Quiet]
            BY <2>1, <2>4
        <3>. HIDE DEF k
        <3>2. \A b \in k.acc : cooldown'[b] >= k.until
            BY <2>2, <2>3, <2>4
        <3>. QED
            BY <1>1, <1>3, <1>4, <2>2, <3>1, <3>2 DEF k
    <2>5. CASE ~(cooldown[a] >= k.until)
        <3>. DEFINE new == [k EXCEPT !.current = cooldown[a]]
        <3>1. cooling' = [cooling EXCEPT ![c] = new]
            BY <2>1, <2>5
        <3>2. new \in CoolDownCall /\ new.current = cooldown[a] /\ new.until = k.until
              /\ new.acc = k.acc
            BY <1>2, <2>3 DEF CoolDownCall
        <3>. HIDE DEF new
        <3>3. CallSound(new) /\ new # Quiet
            BY <1>2, <2>3, <2>5, <3>2 DEF CallSound, Quiet, Unread
        <3>. QED
            BY <1>1, <1>4, <2>2, <3>1, <3>2, <3>3
    <2>. QED
        BY <2>4, <2>5
<1>6. CASE swapCooldown(c)
    <2>1. PICK a \in k.acc :
         \/ /\ cooldown[a] = k.current
            /\ cooldown' = [cooldown EXCEPT ![a] = k.until]
            /\ cooling' = [cooling EXCEPT ![c] = Quiet]
         \/ /\ cooldown[a] # k.current
            /\ cooling' = [cooling EXCEPT ![c].current = Unread]
            /\ UNCHANGED cooldown
        BY <1>6 DEF swapCooldown
    <2>2. /\ a \in Ids /\ cooldown[a] \in Nat /\ k.until \in Nat /\ k.current <= k.until
          /\ k.acc \in SUBSET Ids /\ \A b \in k.acc : b = a
        BY <1>1, <1>2 DEF CoolDownCall, CallSound
    <2>3. CASE /\ cooldown[a] = k.current
               /\ cooldown' = [cooldown EXCEPT ![a] = k.until]
               /\ cooling' = [cooling EXCEPT ![c] = Quiet]
        <3>. HIDE DEF k
        <3>1. /\ cooldown' \in [Ids -> Nat] /\ cooldown'[a] = k.until
              /\ \A b \in Ids : b # a => cooldown'[b] = cooldown[b]
            BY <1>1, <2>2, <2>3
        <3>2. \A b \in Ids : cooldown'[b] >= cooldown[b]
            BY <1>1, <2>2, <2>3, <3>1
        <3>3. \A b \in k.acc : cooldown'[b] >= k.until
            BY <2>2, <3>1
        <3>. QED
            BY <1>3, <1>4, <2>3, <3>1, <3>2, <3>3 DEF k
    <2>4. CASE /\ cooling' = [cooling EXCEPT ![c].current = Unread]
               /\ UNCHANGED cooldown
        <3>. DEFINE new == [k EXCEPT !.current = Unread]
        <3>1. cooling' = [cooling EXCEPT ![c] = new]
            BY <2>4
        <3>2. new \in CoolDownCall /\ new.current = Unread /\ new.until = k.until
              /\ new.acc = k.acc
            BY <1>2 DEF CoolDownCall
        <3>. HIDE DEF new
        <3>3. CallSound(new)
            BY <1>2, <2>2, <3>2 DEF CallSound, Unread
        <3>4. new # Quiet
            BY <2>1, <3>2 DEF Quiet
        <3>. QED
            BY <1>1, <1>4, <2>4, <3>1, <3>2, <3>3, <3>4
    <2>. QED
        BY <2>1, <2>3, <2>4
<1>. QED
    BY <1>5, <1>6

LEMMA CoolDownStepKeeps ==
    ASSUME GatewayInv, NEW c \in Callers, loadCooldown(c) \/ swapCooldown(c)
    PROVE  GatewayInv'
<1>1. RosterSound
    BY DEF GatewayInv
<1>2. UNCHANGED <<roster, inflight, req, sessions, spent>>
    BY DEF loadCooldown, swapCooldown
<1>3. /\ cooldown' \in [Ids -> Nat] /\ cooling' \in [Callers -> CoolDownCall]
      /\ \A d \in Callers : CallSound(cooling'[d])
    BY <1>1, CoolDownSteps
<1>4. RosterSound'
    BY <1>1, <1>2, <1>3 DEF RosterSound, roster
<1>5. /\ Range(slots) \subseteq Range(slots')
      /\ \A i \in 1..Len(slots) : i \in 1..Len(slots') /\ slots'[i] = slots[i]
    BY <1>2 DEF Range, roster
<1>. QED
    BY <1>2, <1>4, <1>5, SurroundingsKeep

(***************************************************************************)
(* The invariant of the specification.                                     *)
(***************************************************************************)
LEMMA GatewayInit == GatewayAssumption /\ Init => GatewayInv
<1>. SUFFICES ASSUME GatewayAssumption, Init
              PROVE  GatewayInv
    OBVIOUS
<1>1. RosterSound
    <2>1. Quiet \in CoolDownCall /\ CallSound(Quiet)
        BY DEF Quiet, CoolDownCall, CallSound, Unread
    <2>2. cooling \in [Callers -> CoolDownCall] /\ \A c \in Callers : CallSound(cooling[c])
        BY <2>1 DEF Init
    <2>. QED
        BY <2>2 DEF Init, RosterInit, RosterSound, GatewayAssumption
<1>2. Idle \in Request /\ Sound(Idle, Range(slots)) /\ \A a : ~HoldsIn(Idle, a)
    BY DEF Idle, Request, Todo, NoTodo, Sound, HoldsIn, Using
<1>3. req \in [Requests -> Request] /\ \A q \in Requests : req[q] = Idle
    BY <1>2 DEF Init
<1>4. inflight \in [Ids -> Nat] /\ \A a \in Ids : inflight[a] = 0
    BY DEF Init
<1>5. InflightBalanced
    <2>1. SUFFICES ASSUME NEW a \in Ids
                   PROVE  0 = Cardinality({q \in Requests : Holds(q, a)})
        BY <1>4 DEF InflightBalanced
    <2>2. \A q \in Requests : ~Holds(q, a)
        BY <1>3 DEF Holds, Idle
    <2>3. {q \in Requests : Holds(q, a)} = {}
        BY <2>2
    <2>. QED
        BY <2>3, FS_EmptySet
<1>. QED
    BY <1>1, <1>2, <1>3, <1>4, <1>5 DEF Init, GatewayInv, RequestsSound, SessionsSound

LEMMA GatewayStep == GatewayAssumption /\ GatewayInv /\ [Next]_vars => GatewayInv'
<1>. SUFFICES ASSUME GatewayAssumption, GatewayInv, [Next]_vars
              PROVE  GatewayInv'
    OBVIOUS
<1>1. ASSUME NEW q \in Requests, Start(q)
      PROVE  GatewayInv'
    BY <1>1, StartNewKeeps, ResumeKeeps, ResumeUnknownKeeps DEF Start
<1>2. ASSUME NEW q \in Requests, Advance(q)
      PROVE  GatewayInv'
    <2>1. CASE Pick(q) \/ Acquire(q) \/ CreateTodo(q)
        BY <2>1, PickKeeps, AcquireKeeps, CreateTodoKeeps
    <2>2. CASE CreateNothing(q) \/ SendAborts(q) \/ StartStreamFails(q)
        BY <2>2, CreationEnds
    <2>3. CASE Send(q) \/ WaitDone(q)
        BY <2>3, SendKeeps, WaitDoneKeeps
    <2>4. ASSUME NEW k \in Failures, CreateFails(q, k) \/ SendFails(q, k) \/ WaitFails(q, k)
          PROVE  GatewayInv'
        BY <2>4, CreateFailsKeeps, SendFailsKeeps, WaitFailsKeeps
    <2>5. CASE NoPolicy(q) \/ RemoveFails(q)
        BY <2>5, FailureEnds
    <2>6. CASE CoolDown(q) \/ CoolDownReturns(q) \/ Remove(q)
        BY <2>6, CoolDownKeeps, FailureKeeps
    <2>7. CASE Recheck(q) \/ Put(q)
        BY <2>7, RecheckKeeps, PutKeeps
    <2>. QED
        BY <1>2, <2>1, <2>2, <2>3, <2>4, <2>5, <2>6, <2>7 DEF Advance
<1>3. ASSUME NEW q \in Requests, Delta(q)
      PROVE  GatewayInv'
    BY <1>3, DeltaKeeps
<1>4. CASE Reconcile
    BY <1>4, ReconcileKeeps
<1>5. CASE Tick \/ \E a \in Ids : Enable(a) \/ HealthCheck(a)
    BY <1>5, TickKeeps, AdminKeeps
<1>6. CASE UNCHANGED vars
    <2>1. UNCHANGED <<slots, disabled, removed, cooldown, cooling, inflight, req, sessions, spent>>
        BY <1>6 DEF vars, roster, own, clocks
    <2>2. /\ Range(slots) \subseteq Range(slots') /\ RosterSound'
          /\ \A i \in 1..Len(slots) : i \in 1..Len(slots') /\ slots'[i] = slots[i]
        BY <2>1 DEF Range, GatewayInv, RosterSound
    <2>. QED
        BY <2>1, <2>2, SurroundingsKeep
<1>7. ASSUME NEW c \in Callers, loadCooldown(c) \/ swapCooldown(c)
      PROVE  GatewayInv'
    BY <1>7, CoolDownStepKeeps
<1>. QED
    BY <1>1, <1>2, <1>3, <1>4, <1>5, <1>6, <1>7 DEF Next

LEMMA GatewayInvariant == Spec => []GatewayInv
<1>1. Init => GatewayInv
    BY GatewayAssumption, GatewayInit
<1>2. GatewayInv /\ [Next]_vars => GatewayInv'
    BY GatewayAssumption, GatewayStep
<1>. QED
    BY <1>1, <1>2, PTL DEF Spec

(***************************************************************************)
(* Type correctness: no todo is numbered beyond the number of accounts, so *)
(* no request tries more accounts than there are, and no inflight counter  *)
(* is ever decremented below zero.                                         *)
(***************************************************************************)
THEOREM GatewayTypes == Spec => []GatewayTypeOK
<1>1. GatewayInv => GatewayTypeOK
    <2>1. [todo: Created, slot: 1..Len(slots)] \subseteq [todo: Todo, slot: 1..Len(slots)]
        BY DEF Todo
    <2>. QED
        BY <2>1 DEF GatewayInv, RosterSound, SessionsSound, GatewayTypeOK
<1>. QED
    BY <1>1, GatewayInvariant, PTL

(***************************************************************************)
(* Every path out of complete gives back what Acquire took, and none gives *)
(* it back twice: inflight is the number of requests using the account.    *)
(***************************************************************************)
THEOREM InflightIsExact == Spec => []InflightBalanced
<1>1. GatewayInv => InflightBalanced
    BY DEF GatewayInv
<1>. QED
    BY <1>1, GatewayInvariant, PTL

(***************************************************************************)
(* A client never sees text of two todos: complete fails over only while   *)
(* nothing of the failed todo went out.                                    *)
(***************************************************************************)
THEOREM NeverTwoTodos == Spec => []OneVisibleTodo
<1>1. GatewayInv => OneVisibleTodo
    <2>1. SUFFICES ASSUME GatewayInv, NEW q \in Requests
                   PROVE  Cardinality(req[q].seen) <= 1
        BY DEF OneVisibleTodo
    <2>2. req[q].seen \subseteq {req[q].todo}
        BY <2>1, RequestFields DEF Sound
    <2>3. IsFiniteSet({req[q].todo}) /\ Cardinality({req[q].todo}) = 1
        BY FS_Singleton
    <2>4. /\ Cardinality(req[q].seen) \in Nat
          /\ Cardinality(req[q].seen) <= Cardinality({req[q].todo})
        BY <2>2, <2>3, FS_Subset, FS_CardinalityType
    <2>. QED
        BY <2>3, <2>4
<1>. QED
    BY <1>1, GatewayInvariant, PTL

(***************************************************************************)
(* The slot a session keeps is its todo's account's, at every later time,  *)
(* and a request that works on a todo holds the account it lives on.       *)
(***************************************************************************)
THEOREM SessionsLeadHome == Spec => []SessionsNameOwner
<1>1. GatewayInv => SessionsNameOwner
    BY RequestFields DEF GatewayInv, SessionsSound, SessionsNameOwner, Sound
<1>. QED
    BY <1>1, GatewayInvariant, PTL

(***************************************************************************)
(* A request that fails over excludes what it has tried, so it never       *)
(* acquires the same account twice.                                        *)
(***************************************************************************)
THEOREM TriesNeverRepeat == Spec => TriesDistinct
<1>1. ASSUME GatewayInv, NEW q \in Requests, At(q, "acquire")
      PROVE  Acc(q) \notin req[q].tried
    <2>1. req[q].pc = "acquire" /\ Acc(q) \notin req[q].excluded
        BY <1>1, AccIsOwner DEF At, Using
    <2>2. req[q].tried \subseteq req[q].excluded
        BY <1>1, <2>1, RequestFields DEF Sound
    <2>. QED
        BY <2>1, <2>2
<1>2. GatewayInv /\ [Next]_vars =>
        [\A q \in Requests : At(q, "acquire") /\ req'[q].pc = "create" =>
           Acc(q) \notin req[q].tried]_vars
    BY <1>1
<1>. QED
    BY <1>2, GatewayInvariant, PTL DEF Spec, TriesDistinct

(***************************************************************************)
(* However the loads and compare-and-swaps of overlapping CoolDown calls   *)
(* fall, the end of a cooldown only moves further away, and a call returns *)
(* with at least its own in force; time takes the same from all of them.   *)
(***************************************************************************)
THEOREM CooldownsNeverShorten == Spec => CooldownsOnlyExtend
<1>. DEFINE Extend == /\ \A a \in Ids : cooldown'[a] < cooldown[a] /\ cooldown'[a] # 0 =>
                           \A b \in Ids : cooldown[b] > 0 => cooldown'[b] < cooldown[b]
                      /\ \A c \in Callers : \A a \in cooling[c].acc :
                           cooling'[c] = Quiet => cooldown'[a] >= cooling[c].until
<1>1. ASSUME GatewayInv, Next
      PROVE  Extend
    <2>1. RosterSound /\ cooldown \in [Ids -> Nat] /\ cooling \in [Callers -> CoolDownCall]
        BY <1>1 DEF GatewayInv, RosterSound
    <2>2. ASSUME NEW c \in Callers, cooling[c] = Quiet
          PROVE  cooling[c].acc = {}
        BY <2>2 DEF Quiet
    <2>3. ASSUME \A a \in Ids : cooldown'[a] = cooldown[a] \/ cooldown'[a] = 0,
                 \A c \in Callers : cooling'[c] = Quiet => cooling[c] = Quiet
          PROVE  Extend
        BY <2>1, <2>2, <2>3
    <2>4. CASE UNCHANGED clocks
        BY <2>3, <2>4 DEF clocks
    <2>5. ASSUME NEW c \in Callers, NEW a, NEW secs, called(c, a, secs), cooldown' = cooldown
          PROVE  Extend
        <3>. DEFINE call == [acc |-> {a}, until |-> secs, current |-> Unread]
        <3>1. \A d \in Callers : cooling'[d] = IF d = c THEN call ELSE cooling[d]
            BY <2>1, <2>5 DEF called
        <3>2. call # Quiet
            BY DEF Quiet
        <3>. HIDE DEF call
        <3>. QED
            BY <2>3, <2>5, <3>1, <3>2
    <2>6. ASSUME NEW q \in Requests, CoolDown(q)
          PROVE  Extend
        BY <2>5, <2>6 DEF CoolDown, Callers
    <2>7. ASSUME NEW a \in Ids, HealthCheck(a)
          PROVE  Extend
        BY <2>5, <2>7 DEF HealthCheck, Callers
    <2>8. ASSUME NEW a \in Ids, Enable(a)
          PROVE  Extend
        <3>1. cooldown' = [cooldown EXCEPT ![a] = 0] /\ cooling' = cooling
            BY <2>8 DEF Enable
        <3>2. \A b \in Ids : cooldown'[b] = cooldown[b] \/ cooldown'[b] = 0
            BY <2>1, <3>1
        <3>. QED
            BY <2>3, <3>1, <3>2
    <2>9. ASSUME NEW c \in Callers, loadCooldown(c) \/ swapCooldown(c)
          PROVE  Extend
        <3>1. /\ cooldown' \in [Ids -> Nat] /\ \A a \in Ids : cooldown'[a] >= cooldown[a]
              /\ \A d \in Callers : d # c => cooling'[d] = cooling[d]
              /\ cooling'[c] = Quiet => \A a \in cooling[c].acc : cooldown'[a] >= cooling[c].until
            BY <2>1, <2>9, CoolDownSteps
        <3>2. \A a \in Ids : ~(cooldown'[a] < cooldown[a])
            BY <2>1, <3>1
        <3>3. \A d \in Callers : \A a \in cooling[d].acc :
                cooling'[d] = Quiet => cooldown'[a] >= cooling[d].until
            BY <2>2, <3>1
        <3>. QED
            BY <3>2, <3>3
    <2>10. CASE Tick
        <3>1. PICK a \in Ids :
                /\ cooldown[a] > 0
                /\ cooldown' = [b \in Ids |-> Later(cooldown[b], cooldown[a])]
                /\ cooling' = [c \in Callers |->
                     [acc |-> cooling[c].acc, until |-> Later(cooling[c].until, cooldown[a]),
                      current |-> IF cooling[c].current = Unread THEN Unread
                                  ELSE Later(cooling[c].current, cooldown[a])]]
            BY <2>10 DEF Tick
        <3>2. \A b \in Ids : cooldown[b] > 0 => cooldown'[b] < cooldown[b]
            BY <2>1, <3>1, LaterIsLess
        <3>3. \A c \in Callers : cooling'[c] = Quiet => cooling[c].acc = {}
            BY <3>1 DEF Quiet
        <3>. QED
            BY <3>2, <3>3
    <2>11. ASSUME NEW q \in Requests, Start(q) \/ Delta(q) \/ (Advance(q) /\ ~CoolDown(q))
           PROVE  UNCHANGED clocks
        BY <2>11, Zenon DEF Start, StartNew, Resume, ResumeUnknown, Delta, Advance, Pick, Acquire, CreateTodo,
            CreateNothing, Send, SendAborts, WaitDone, StartStreamFails, CreateFails, SendFails,
            WaitFails, NoPolicy, CoolDownReturns, Remove, RemoveFails, Recheck, Put
    <2>12. Reconcile => UNCHANGED clocks
        BY DEF Reconcile
    <2>. HIDE DEF Extend
    <2>. QED
        BY <1>1, <2>4, <2>6, <2>7, <2>8, <2>9, <2>10, <2>11, <2>12 DEF Next
<1>2. GatewayInv /\ [Next]_vars => [Extend]_vars
    BY <1>1
<1>. QED
    BY <1>2, GatewayInvariant, PTL DEF Spec, CooldownsOnlyExtend

(***************************************************************************)
(* Failing over uses up accounts: with every step a request comes closer   *)
(* to its answer, by a measure that counts the accounts not excluded yet.  *)
(***************************************************************************)
\* The steps that leave the exclusions alone go on to a later phase.
LEMMA StepsCount ==
    ASSUME GatewayAssumption, NEW E, E \subseteq Ids
    PROVE  /\ IsFiniteSet(Ids \ E) /\ Cardinality(Ids \ E) \in Nat
           /\ Cardinality(Ids \ E) <= Cardinality(Ids) /\ Cardinality(Ids) \in Nat
           /\ \A a \in Ids \ E : Cardinality(Ids \ (E \cup {a})) = Cardinality(Ids \ E) - 1
<1>1. IsFiniteSet(Ids \ E)
    BY FS_Difference DEF GatewayAssumption
<1>2. Cardinality(Ids \ E) \in Nat /\ Cardinality(Ids) \in Nat
    BY <1>1, FS_CardinalityType DEF GatewayAssumption
<1>3. Cardinality(Ids \ E) <= Cardinality(Ids)
    BY FS_Subset DEF GatewayAssumption
<1>4. ASSUME NEW a \in Ids \ E
      PROVE  Cardinality(Ids \ (E \cup {a})) = Cardinality(Ids \ E) - 1
    <2>1. Ids \ (E \cup {a}) = (Ids \ E) \ {a}
        OBVIOUS
    <2>. QED
        BY ZenonT(30), <1>1, <2>1, FS_RemoveElement
<1>. QED
    BY <1>1, <1>2, <1>3, <1>4

\* The measure of a record.
Measure(r) == IF r.pc = "done" THEN 0 ELSE 10 * Cardinality(Ids \ r.excluded) + Phase[r.pc]

LEMMA PhaseValues ==
    /\ Phase["idle"] = 9 /\ Phase["recheck"] = 8 /\ Phase["pick"] = 7
    /\ Phase["acquire"] = 6 /\ Phase["create"] = 5 /\ Phase["send"] = 5
    /\ Phase["wait"] = 4 /\ Phase["policy"] = 3 /\ Phase["cooling"] = 2 /\ Phase["put"] = 1
BY DEF Phase

\* What a step of a request does to the phase and to the exclusions.
Closer(r, s) ==
    \/ s.pc = "done" /\ r.pc # "done"
    \/ r.pc = s.pc
    \/ s.excluded = r.excluded /\ <<r.pc, s.pc>> \in
         {<<"idle", "pick">>, <<"idle", "send">>, <<"pick", "acquire">>, <<"acquire", "create">>,
          <<"create", "wait">>, <<"create", "policy">>, <<"send", "wait">>, <<"send", "policy">>,
          <<"wait", "put">>, <<"wait", "policy">>, <<"policy", "cooling">>, <<"recheck", "pick">>}
    \/ /\ r.pc \in {"policy", "cooling"} /\ s.pc \in {"pick", "recheck"}
       /\ \E a \in Ids \ r.excluded : s.excluded = r.excluded \cup {a}

LEMMA CloserIsLess ==
    ASSUME GatewayAssumption, NEW r \in Request, NEW s \in Request, Closer(r, s), s.pc # r.pc
    PROVE  Measure(s) < Measure(r)
<1>1. r.excluded \subseteq Ids /\ s.excluded \subseteq Ids
    BY DEF Request
<1>. DEFINE m == Cardinality(Ids \ r.excluded)
            n == Cardinality(Ids \ s.excluded)
<1>2. m \in Nat /\ n \in Nat
    BY <1>1, StepsCount
<1>3. r.pc # "done" => Phase[r.pc] \in Nat /\ Phase[r.pc] > 0
    BY PhaseValues DEF Request
<1>4. CASE s.pc = "done" /\ r.pc # "done"
    BY <1>2, <1>3, <1>4 DEF Measure
<1>5. CASE s.excluded = r.excluded /\ <<r.pc, s.pc>> \in
         {<<"idle", "pick">>, <<"idle", "send">>, <<"pick", "acquire">>, <<"acquire", "create">>,
          <<"create", "wait">>, <<"create", "policy">>, <<"send", "wait">>, <<"send", "policy">>,
          <<"wait", "put">>, <<"wait", "policy">>, <<"policy", "cooling">>, <<"recheck", "pick">>}
    <2>1. Phase[s.pc] \in Nat /\ Phase[r.pc] \in Nat /\ Phase[s.pc] < Phase[r.pc]
        BY <1>5, PhaseValues
    <2>2. r.pc # "done" /\ s.pc # "done"
        BY <1>5
    <2>. QED
        BY <1>2, <1>5, <2>1, <2>2 DEF Measure
<1>6. CASE /\ r.pc \in {"policy", "cooling"} /\ s.pc \in {"pick", "recheck"}
           /\ \E a \in Ids \ r.excluded : s.excluded = r.excluded \cup {a}
    <2>1. n = m - 1
        BY <1>1, <1>6, StepsCount
    <2>2. Phase[s.pc] \in {7, 8} /\ Phase[r.pc] \in {2, 3}
        BY <1>6, PhaseValues
    <2>. QED
        BY <1>2, <1>6, <2>1, <2>2 DEF Measure
<1>. QED
    BY <1>4, <1>5, <1>6 DEF Closer

LEMMA StepComesCloser ==
    ASSUME GatewayInv, GatewayInv', NEW q \in Requests, Next
    PROVE  Closer(req[q], req'[q])
<1>1. req[q] \in Request /\ req \in [Requests -> Request] /\ Sound(req[q], Range(slots))
    BY RequestFields
<1>2. ASSUME NEW p \in Requests, NEW r, Become(p, r), p # q
      PROVE  req'[q] = req[q]
    BY <1>1, <1>2 DEF Become
<1>3. ASSUME NEW r, Become(q, r)
      PROVE  req'[q] = r
    BY <1>1, <1>3 DEF Become
<1>4. ASSUME NEW out, Answer(q, out), ~At(q, "done")
      PROVE  Closer(req[q], req'[q])
    BY <1>3, <1>4 DEF Answer, Closer, Idle, At
<1>5. ASSUME Start(q)
      PROVE  Closer(req[q], req'[q])
    <2>1. req[q].pc = "idle" /\ req[q].excluded = {}
        <3>1. req[q].pc = "idle"
            BY <1>5 DEF Start, StartNew, Resume, ResumeUnknown, At
        <3>2. req[q] = Idle
            BY <1>1, <3>1 DEF Sound
        <3>. QED
            BY <3>1, <3>2 DEF Idle
    <2>2. CASE StartNew(q)
        BY <1>3, <2>1, <2>2 DEF StartNew, Entered, Idle, Closer
    <2>3. CASE Resume(q)
        <3>1. CASE Answer(q, "gone")
            BY <1>4, <2>1, <3>1 DEF At
        <3>2. ASSUME NEW a, NEW t, Become(q, [Idle EXCEPT !.pc = "send", !.resuming = TRUE,
                                                !.acc = {a}, !.todo = t])
              PROVE  Closer(req[q], req'[q])
            BY <1>3, <2>1, <3>2 DEF Idle, Closer
        <3>. QED
            BY <2>3, <3>1, <3>2 DEF Resume
    <2>4. CASE ResumeUnknown(q)
        BY <1>4, <2>1, <2>4 DEF ResumeUnknown, At
    <2>. QED
        BY <1>5, <2>2, <2>3, <2>4 DEF Start
<1>6. CASE Pick(q)
    <2>1. CASE Answer(q, "unavailable")
        BY <1>4, <1>6, <2>1 DEF Pick, At
    <2>2. ASSUME NEW found, Become(q, [req[q] EXCEPT !.pc = "acquire", !.acc = found])
          PROVE  Closer(req[q], req'[q])
        BY <1>1, <1>3, <1>6, <2>2 DEF Pick, At, Closer, Request
    <2>. QED
        BY <1>6, <2>1, <2>2 DEF Pick
<1>7. CASE Acquire(q)
    BY <1>1, <1>3, <1>7 DEF Acquire, At, Closer, Request
<1>8. CASE CreateTodo(q)
    BY <1>1, <1>3, <1>8 DEF CreateTodo, At, Closer, Request
<1>9. CASE CreateNothing(q) \/ SendAborts(q) \/ StartStreamFails(q) \/ Put(q) \/ NoPolicy(q) \/ RemoveFails(q)
    BY <1>4, <1>9 DEF CreateNothing, SendAborts, StartStreamFails, Put, NoPolicy, RemoveFails, At
<1>10. CASE Send(q)
    BY <1>1, <1>3, <1>10 DEF Send, At, Closer, Request
<1>11. CASE WaitDone(q)
    BY <1>1, <1>3, <1>11 DEF WaitDone, At, Closer, Request
<1>12. CASE Delta(q)
    BY <1>1, <1>3, <1>12 DEF Delta, At, Closer, Request
<1>13. ASSUME NEW k \in Failures, CreateFails(q, k) \/ SendFails(q, k) \/ WaitFails(q, k)
       PROVE  Closer(req[q], req'[q])
    BY <1>1, <1>3, <1>13 DEF CreateFails, SendFails, WaitFails, At, Closer, Request
<1>14. ASSUME At(q, "policy") \/ At(q, "cooling"), AfterFailure(q)
       PROVE  Closer(req[q], req'[q])
    <2>1. CASE Final(q)
        BY <1>4, <1>14, <2>1 DEF AfterFailure, At
    <2>2. CASE ~Final(q)
        <3>. DEFINE l == IF req[q].todo = NoTodo THEN "pick" ELSE "recheck"
                    s == [req[q] EXCEPT !.pc = l, !.attempt = @ + 1, !.excluded = Excluded(q)]
        <3>1. req'[q] = s
            BY <1>3, <1>14, <2>2 DEF AfterFailure
        <3>2. s.pc \in {"pick", "recheck"} /\ s.excluded = Excluded(q)
            BY <1>1 DEF Request
        <3>3. req[q].pc \in {"policy", "cooling"} /\ Acc(q) \in Ids \ req[q].excluded /\ req[q].acc = {Acc(q)}
            BY <1>14, AccIsOwner DEF At, Using
        <3>. HIDE DEF s
        <3>. QED
            BY <3>1, <3>2, <3>3 DEF Excluded, Closer
    <2>. QED
        BY <2>1, <2>2
<1>15. CASE Recheck(q)
    <2>1. ASSUME NEW out, Answer(q, out)
          PROVE  Closer(req[q], req'[q])
        BY <1>4, <1>15, <2>1 DEF Recheck, At
    <2>2. CASE Become(q, Entered(req[q]))
        <3>1. Entered(req[q]).pc = "pick" /\ Entered(req[q]).excluded = req[q].excluded
            BY <1>1 DEF Entered, Request
        <3>. QED
            BY <1>3, <1>15, <2>2, <3>1 DEF Recheck, At, Closer
    <2>. QED
        BY <1>15, <2>1, <2>2 DEF Recheck
<1>16. CASE CoolDown(q)
    BY <1>1, <1>3, <1>16 DEF CoolDown, Goto, Become, At, Closer, Request
<1>17. ASSUME Advance(q)
       PROVE  Closer(req[q], req'[q])
    <2>1. CASE CoolDownReturns(q)
        BY <1>14, <2>1 DEF CoolDownReturns
    <2>2. CASE Remove(q)
        BY <1>14, <2>2 DEF Remove
    <2>. QED
        BY <1>6, <1>7, <1>8, <1>9, <1>10, <1>11, <1>13, <1>15, <1>16, <1>17, <2>1, <2>2 DEF Advance
<1>18. ASSUME NEW p \in Requests, p # q, Start(p) \/ Advance(p) \/ Delta(p)
       PROVE  Closer(req[q], req'[q])
    <2>1. CoolDown(p) => Become(p, [req[p] EXCEPT !.pc = "cooling"])
        BY DEF CoolDown, Goto, Become
    <2>2. Start(p) \/ (Advance(p) /\ ~CoolDown(p)) \/ Delta(p) => \E r : Become(p, r)
        BY DEF Start, StartNew, Resume, ResumeUnknown, Answer, Delta, Advance, Pick, Acquire,
            CreateTodo, CreateNothing, Send, SendAborts, WaitDone, StartStreamFails, CreateFails,
            SendFails, WaitFails, NoPolicy, CoolDownReturns, Remove, AfterFailure, RemoveFails,
            Recheck, Put
    <2>. QED
        BY <1>2, <1>18, <2>1, <2>2 DEF Closer
<1>19. ASSUME req' = req
       PROVE  Closer(req[q], req'[q])
    BY <1>19 DEF Closer
<1>20. Reconcile \/ Tick \/ (\E a \in Ids : Enable(a) \/ HealthCheck(a)) => req' = req
    BY DEF Reconcile, Tick, Enable, HealthCheck
<1>21. \A c \in Callers : loadCooldown(c) \/ swapCooldown(c) => req' = req
    BY DEF loadCooldown, swapCooldown
<1>. QED
    BY <1>5, <1>12, <1>17, <1>18, <1>19, <1>20, <1>21 DEF Next

(***************************************************************************)
(* A request moves towards its answer with every step: failing over goes   *)
(* back in complete, but excludes one account more (excludeAccount).       *)
(***************************************************************************)
THEOREM FailoverUsesUpAccounts == Spec => FailoverEnds
<1>. DEFINE Less == \A q \in Requests : req'[q].pc # req[q].pc => StepsLeft(q)' < StepsLeft(q)
<1>1. ASSUME GatewayInv, GatewayInv', Next
      PROVE  Less
    <2>1. SUFFICES ASSUME NEW q \in Requests, req'[q].pc # req[q].pc
                   PROVE  StepsLeft(q)' < StepsLeft(q)
        OBVIOUS
    <2>2. StepsLeft(q) = Measure(req[q]) /\ StepsLeft(q)' = Measure(req'[q])
        BY DEF StepsLeft, Measure, At
    <2>3. req[q] \in Request /\ req'[q] \in Request
        BY <1>1, <2>1 DEF GatewayInv
    <2>. QED
        BY <1>1, <2>1, <2>2, <2>3, GatewayAssumption, StepComesCloser, CloserIsLess
<1>2. GatewayInv /\ GatewayInv' /\ [Next]_vars => [Less]_vars
    BY <1>1
<1>. QED
    BY <1>2, GatewayInvariant, PTL DEF Spec, FailoverEnds
=============================================================================

---------------------------- MODULE StartupProofs ----------------------------
(***************************************************************************)
(* Proofs about starting, for every number of processes and accounts, for  *)
(* every list of keys in the old configuration, and for every catalog.     *)
(***************************************************************************)
EXTENDS StartupProperties, SequenceTheorems, FiniteSetTheorems, FiniteSetsExt,
        WellFoundedInduction, TLAPS

(***************************************************************************)
(* Numbers.                                                                *)
(***************************************************************************)
\* A set of numbers that is not empty has a least element.
LEMMA MinOfNats ==
    ASSUME NEW S, S \subseteq Nat, S # {}
    PROVE  Min(S) \in S /\ \A x \in S : Min(S) <= x
<1>1. PICK x \in S : \A y \in S : ~(<<y, x>> \in OpToRel(<, Nat))
    BY NatLessThanWellFounded, WFMin, Zenon
<1>2. \A y \in S : ~(y < x)
    BY <1>1, Zenon DEF OpToRel
<1>3. \A y \in S : x <= y
    BY <1>2
<1>. QED
    BY <1>3 DEF Min

\* Induction over a set of numbers.
LEMMA NatInSet ==
    ASSUME NEW S, 0 \in S, \A n \in Nat : n \in S => n + 1 \in S
    PROVE  Nat \subseteq S
<1>. DEFINE B == Nat \ S
<1>1. SUFFICES ASSUME B # {}
               PROVE  FALSE
    OBVIOUS
<1>2. PICK m \in B : \A x \in B : m <= x
    BY <1>1, MinOfNats
<1>3. m # 0 /\ m - 1 \in Nat
    BY <1>2
<1>4. m - 1 \in S
    BY <1>2, <1>3
<1>. QED
    BY <1>2, <1>3, <1>4

\* The smaller of two numbers.
LEMMA MinOfTwo ==
    ASSUME NEW a \in Int, NEW b \in Int
    PROVE  Min({a, b}) = IF a <= b THEN a ELSE b
BY DEF Min

(***************************************************************************)
(* The keys of the old configuration.                                      *)
(***************************************************************************)
\* The n-th of a finite set of numbers has n - 1 smaller ones.
LEMMA NthIsMember ==
    ASSUME NEW S, S \subseteq Nat, IsFiniteSet(S)
    PROVE  /\ \A n \in 1..Cardinality(S) :
                Nth(S, n) \in S /\ Cardinality({j \in S : j < Nth(S, n)}) = n - 1
           /\ \A i \in S : \E n \in 1..Cardinality(S) : Nth(S, n) = i
           /\ \A m, n \in 1..Cardinality(S) : Nth(S, m) = Nth(S, n) => m = n
<1>. DEFINE Below(i) == {j \in S : j < i}
            Has(n) == \E i \in S : Cardinality(Below(i)) = n - 1
            Missing == {n \in 1..Cardinality(S) : ~Has(n)}
<1>1. Cardinality(S) \in Nat
    BY FS_CardinalityType
<1>2. ASSUME NEW i \in S
      PROVE  /\ Below(i) \subseteq S \ {i} /\ IsFiniteSet(Below(i))
             /\ Cardinality(Below(i)) \in Nat /\ Cardinality(Below(i)) < Cardinality(S)
    <2>1. Below(i) \subseteq S \ {i} /\ IsFiniteSet(S \ {i})
        BY FS_RemoveElement
    <2>2. IsFiniteSet(Below(i)) /\ Cardinality(Below(i)) <= Cardinality(S \ {i})
        BY <2>1, FS_Subset
    <2>3. Cardinality(S \ {i}) = Cardinality(S) - 1
        BY FS_RemoveElement
    <2>4. Cardinality(Below(i)) \in Nat
        BY <2>2, FS_CardinalityType
    <2>. HIDE DEF Below
    <2>. QED
        BY <1>1, <2>1, <2>2, <2>3, <2>4
<1>3. \A n \in 1..Cardinality(S) : Has(n)
    <2>. SUFFICES ASSUME Missing # {}
                  PROVE  FALSE
        OBVIOUS
    <2>. DEFINE n == Min(Missing)
    <2>1. Missing \subseteq Nat
        BY <1>1
    <2>2. n \in Missing /\ \A m \in Missing : n <= m
        BY <2>1, MinOfNats
    <2>. HIDE DEF n, Has
    <2>3. n \in Nat /\ 1 <= n /\ n <= Cardinality(S) /\ ~Has(n)
        BY <1>1, <2>2
    <2>. HIDE DEF Missing
    <2>4. CASE n = 1
        <3>1. S # {}
            BY <2>3, <2>4, FS_EmptySet, <1>1
        <3>. DEFINE k == Min(S)
        <3>2. k \in S /\ \A j \in S : k <= j
            BY <3>1, MinOfNats
        <3>. HIDE DEF k
        <3>3. Below(k) = {}
            <4>1. \A j \in S : ~(j < k)
                BY <3>2
            <4>. QED
                BY <4>1
        <3>4. Cardinality(Below(k)) = n - 1
            BY <2>4, <3>3, FS_EmptySet
        <3>. QED
            BY <2>3, <3>2, <3>4 DEF Has
    <2>5. CASE n # 1
        <3>1. n - 1 \in 1..Cardinality(S) /\ n - 1 \notin Missing
            BY <1>1, <2>2, <2>3, <2>5
        <3>2. PICK i \in S : Cardinality(Below(i)) = n - 2
            BY <2>3, <3>1 DEF Missing, Has
        <3>. DEFINE low == Below(i) \cup {i}
                    next == S \ low
        <3>3. IsFiniteSet(low) /\ Cardinality(low) = n - 1
            <4>1. i \notin Below(i) /\ IsFiniteSet(Below(i))
                BY <1>2
            <4>2. Cardinality(low) = Cardinality(Below(i)) + 1 /\ IsFiniteSet(low)
                BY <4>1, FS_AddElement
            <4>. HIDE DEF low
            <4>. QED
                BY <2>3, <3>2, <4>2
        <3>4. next # {}
            <4>1. low \subseteq S
                OBVIOUS
            <4>. HIDE DEF low
            <4>2. low # S
                BY <2>3, <3>3, <1>1
            <4>. QED
                BY <4>1, <4>2
        <3>. DEFINE k == Min(next)
        <3>5. k \in next /\ \A x \in next : k <= x
            BY <3>4, MinOfNats
        <3>. HIDE DEF k
        <3>6. k \in S /\ i < k
            BY <3>5
        <3>7. \A j \in S : j < k <=> j \in low
            BY <3>5, <3>6
        <3>8. Below(k) = low
            BY <3>7
        <3>. HIDE DEF low, next
        <3>9. Cardinality(Below(k)) = n - 1
            BY <3>3, <3>8
        <3>. QED
            BY <2>3, <3>6, <3>9 DEF Has
    <2>. QED
        BY <2>4, <2>5
<1>4. \A n \in 1..Cardinality(S) : Nth(S, n) \in S /\ Cardinality(Below(Nth(S, n))) = n - 1
    BY <1>3 DEF Nth
<1>5. ASSUME NEW i \in S, NEW k \in S, i < k
      PROVE  Cardinality(Below(i)) < Cardinality(Below(k))
    <2>1. IsFiniteSet(Below(k)) /\ Below(i) \subseteq Below(k) /\ Below(i) # Below(k)
        <3>1. i \in Below(k) /\ i \notin Below(i)
            BY <1>5
        <3>2. \A j \in S : j < i => j < k
            BY <1>5
        <3>. QED
            BY <1>2, <3>1, <3>2
    <2>. HIDE DEF Below
    <2>. QED
        BY <1>2, <2>1, FS_Subset, FS_CardinalityType
<1>. HIDE DEF Below
<1>6. ASSUME NEW i \in S
      PROVE  \E n \in 1..Cardinality(S) : Nth(S, n) = i
    <2>. DEFINE n == Cardinality(Below(i)) + 1
    <2>1. n \in 1..Cardinality(S)
        BY <1>1, <1>2
    <2>2. PICK k \in S : k = Nth(S, n) /\ Cardinality(Below(k)) = n - 1
        BY <1>4, <2>1
    <2>3. Cardinality(Below(k)) = Cardinality(Below(i)) /\ Cardinality(Below(k)) \in Nat
        BY <1>2, <2>2
    <2>. HIDE DEF n
    <2>4. ~(i < k)
        BY <1>5, <2>3
    <2>5. ~(k < i)
        BY <1>5, <2>3
    <2>. QED
        BY <2>1, <2>2, <2>4, <2>5
<1>7. \A m, n \in 1..Cardinality(S) : Nth(S, m) = Nth(S, n) => m = n
    BY <1>1, <1>4
<1>. QED
    BY <1>4, <1>6, <1>7 DEF Below

LEMMA LegacyKeysOnce ==
    /\ LegacyPoolKeys \in Seq(Credentials) /\ IsInjective(LegacyPoolKeys)
    /\ Range(LegacyPoolKeys) = Range(LegacyKeys)
<1>. DEFINE S == FirstListed
            N == Cardinality(S)
<1>1. LegacyKeys \in Seq(Credentials) /\ Len(LegacyKeys) \in Nat
      /\ DOMAIN LegacyKeys = 1..Len(LegacyKeys)
    BY StartupAssumption DEF StartupAssumption
<1>2. S \subseteq DOMAIN LegacyKeys /\ S \subseteq Nat /\ IsFiniteSet(S) /\ N \in Nat
    <2>1. S \subseteq 1..Len(LegacyKeys)
        BY <1>1 DEF FirstListed
    <2>. HIDE DEF S
    <2>2. IsFiniteSet(1..Len(LegacyKeys))
        BY <1>1, FS_Interval
    <2>3. IsFiniteSet(S)
        BY <2>1, <2>2, FS_Subset
    <2>4. N \in Nat
        BY <2>3, FS_CardinalityType
    <2>. QED
        BY <1>1, <2>1, <2>3, <2>4
<1>3. LegacyPoolKeys = [n \in 1..N |-> LegacyKeys[Nth(S, n)]]
    BY DEF LegacyPoolKeys
<1>4. \A i, j \in S : LegacyKeys[i] = LegacyKeys[j] => i = j
    <2>. SUFFICES ASSUME NEW i \in S, NEW j \in S, LegacyKeys[i] = LegacyKeys[j], i # j
                  PROVE  FALSE
        OBVIOUS
    <2>1. i \in Nat /\ j \in Nat /\ i >= 1 /\ j >= 1
        BY <1>1, <1>2
    <2>2. i \in 1..j - 1 \/ j \in 1..i - 1
        BY <2>1
    <2>. QED
        BY <2>2 DEF FirstListed
<1>5. ASSUME NEW k \in Range(LegacyKeys)
      PROVE  \E i \in S : LegacyKeys[i] = k
    <2>. DEFINE I == {i \in DOMAIN LegacyKeys : LegacyKeys[i] = k}
                m == Min(I)
    <2>1. I \subseteq Nat /\ I # {}
        BY <1>1 DEF Range
    <2>2. m \in I /\ \A i \in I : m <= i
        BY <2>1, MinOfNats
    <2>. HIDE DEF m
    <2>3. \A j \in 1..m - 1 : LegacyKeys[j] # LegacyKeys[m]
        BY <1>1, <2>2
    <2>. QED
        BY <2>2, <2>3 DEF FirstListed
<1>. HIDE DEF S, N
<1>6. /\ \A n \in 1..N : Nth(S, n) \in S
      /\ \A i \in S : \E n \in 1..N : Nth(S, n) = i
      /\ \A m, n \in 1..N : Nth(S, m) = Nth(S, n) => m = n
    BY <1>2, NthIsMember DEF N
<1>7. DOMAIN LegacyPoolKeys = 1..N /\ \A n \in 1..N : LegacyPoolKeys[n] = LegacyKeys[Nth(S, n)]
    BY <1>3
<1>8. LegacyPoolKeys \in Seq(Credentials)
    <2>1. \A n \in 1..N : LegacyKeys[Nth(S, n)] \in Credentials
        BY <1>1, <1>2, <1>6
    <2>. QED
        BY <1>2, <1>3, <2>1, IsASeq
<1>9. IsInjective(LegacyPoolKeys)
    BY <1>4, <1>6, <1>7 DEF IsInjective
<1>10. Range(LegacyPoolKeys) \subseteq Range(LegacyKeys)
    BY <1>2, <1>6, <1>7 DEF Range
<1>11. Range(LegacyKeys) \subseteq Range(LegacyPoolKeys)
    <2>. SUFFICES ASSUME NEW k \in Range(LegacyKeys)
                  PROVE  k \in Range(LegacyPoolKeys)
        OBVIOUS
    <2>1. PICK i \in S : LegacyKeys[i] = k
        BY <1>5
    <2>2. PICK n \in 1..N : Nth(S, n) = i
        BY <1>6
    <2>. QED
        BY <1>7, <2>1, <2>2 DEF Range
<1>. QED
    BY <1>8, <1>9, <1>10, <1>11

(***************************************************************************)
(* The accounts table.                                                     *)
(***************************************************************************)
Sealed == [key: Credentials, mk: MasterKeys]
KeysOf(rows) == {rows[i].key : i \in DOMAIN rows}
Table(rows) == rows \in Seq(Sealed) /\ IsInjective(rows)

LEMMA ImportedRows ==
    ASSUME NEW mk \in MasterKeys
    PROVE  LET rows == [i \in DOMAIN LegacyPoolKeys |-> Row(LegacyPoolKeys[i], mk)] IN
           /\ Table(rows) /\ KeysOf(rows) = Range(LegacyKeys)
           /\ \A i \in DOMAIN rows : rows[i].mk = mk
<1>. DEFINE rows == [i \in DOMAIN LegacyPoolKeys |-> Row(LegacyPoolKeys[i], mk)]
<1>1. /\ LegacyPoolKeys \in Seq(Credentials) /\ Len(LegacyPoolKeys) \in Nat
      /\ DOMAIN LegacyPoolKeys = 1..Len(LegacyPoolKeys)
    BY LegacyKeysOnce
<1>2. \A i \in DOMAIN LegacyPoolKeys : /\ Row(LegacyPoolKeys[i], mk) \in Sealed
                                       /\ Row(LegacyPoolKeys[i], mk).key = LegacyPoolKeys[i]
                                       /\ Row(LegacyPoolKeys[i], mk).mk = mk
    BY <1>1 DEF Row, Sealed
<1>3. rows \in Seq(Sealed)
    BY <1>1, <1>2, IsASeq
<1>4. DOMAIN rows = DOMAIN LegacyPoolKeys
      /\ \A i \in DOMAIN rows : rows[i].key = LegacyPoolKeys[i] /\ rows[i].mk = mk
    BY <1>2
<1>. HIDE DEF rows
<1>5. IsInjective(rows)
    BY <1>4, LegacyKeysOnce DEF IsInjective
<1>6. KeysOf(rows) = Range(LegacyPoolKeys)
    BY <1>4 DEF KeysOf, Range
<1>. QED
    BY <1>3, <1>4, <1>5, <1>6, LegacyKeysOnce DEF Table, rows

LEMMA AppendedRow ==
    ASSUME NEW rows, Table(rows), NEW row \in Sealed, row \notin Range(rows)
    PROVE  /\ Table(Append(rows, row)) /\ KeysOf(Append(rows, row)) = KeysOf(rows) \cup {row.key}
           /\ \A i \in DOMAIN Append(rows, row) : Append(rows, row)[i] \in Range(rows) \cup {row}
<1>. DEFINE new == Append(rows, row)
            n == Len(rows) + 1
<1>1. rows \in Seq(Sealed) /\ Len(rows) \in Nat /\ DOMAIN rows = 1..Len(rows)
    BY DEF Table
<1>2. /\ new \in Seq(Sealed) /\ DOMAIN new = DOMAIN rows \cup {n} /\ n \notin DOMAIN rows
      /\ new[n] = row /\ \A i \in DOMAIN rows : new[i] = rows[i]
    BY <1>1, AppendProperties
<1>. HIDE DEF new, n
<1>3. IsInjective(new)
    BY <1>2 DEF IsInjective, Table, Range
<1>4. KeysOf(new) = KeysOf(rows) \cup {row.key}
    BY <1>2 DEF KeysOf
<1>5. \A i \in DOMAIN new : new[i] \in Range(rows) \cup {row}
    BY <1>2 DEF Range
<1>. QED
    BY <1>2, <1>3, <1>4, <1>5 DEF Table, new

LEMMA RemovedRow ==
    ASSUME NEW rows, Table(rows), NEW mk, \A i \in DOMAIN rows : rows[i].mk = mk,
           NEW i \in DOMAIN rows
    PROVE  /\ Table(RemoveAt(rows, i)) /\ KeysOf(RemoveAt(rows, i)) = KeysOf(rows) \ {rows[i].key}
           /\ \A j \in DOMAIN RemoveAt(rows, i) : RemoveAt(rows, i)[j] \in Range(rows)
<1>. DEFINE new == RemoveAt(rows, i)
            low == SubSeq(rows, 1, i - 1)
            high == SubSeq(rows, i + 1, Len(rows))
            Old(j) == IF j < i THEN j ELSE j + 1
<1>1. rows \in Seq(Sealed) /\ Len(rows) \in Nat /\ DOMAIN rows = 1..Len(rows) /\ i \in 1..Len(rows)
    BY DEF Table
<1>2. /\ low \in Seq(Sealed) /\ Len(low) = i - 1 /\ \A j \in 1..i - 1 : low[j] = rows[j]
      /\ high \in Seq(Sealed) /\ Len(high) = Len(rows) - i
      /\ \A j \in 1..Len(rows) - i : high[j] = rows[i + j]
    <2>. DEFINE n == Len(rows)
                l == i + 1
    <2>1. n \in Nat /\ i \in 1..n /\ \A j \in 1..n : rows[j] \in Sealed
        BY <1>1, ElementOfSeq
    <2>2. /\ low \in Seq(Sealed) /\ Len(low) = i - 1 /\ \A j \in 1..i - 1 : low[j] = rows[j]
        BY <1>1, <2>1, SubSeqProperties
    <2>3. /\ high \in Seq(Sealed) /\ Len(high) = n - l + 1
          /\ \A j \in 1..n - l + 1 : high[j] = rows[l + j - 1]
        BY <1>1, <2>1, SubSeqProperties
    <2>4. n - l + 1 = n - i /\ \A j \in 1..n - i : l + j - 1 = i + j
        BY <2>1
    <2>. HIDE DEF n, l, low, high
    <2>5. \A j \in 1..n - i : high[j] = rows[i + j]
        BY <2>3, <2>4
    <2>. QED
        BY <2>2, <2>3, <2>4, <2>5 DEF n
<1>3. new = low \o high
    BY DEF RemoveAt
<1>. HIDE DEF new, low, high
<1>4. /\ new \in Seq(Sealed) /\ DOMAIN new = 1..Len(rows) - 1
      /\ \A j \in 1..Len(rows) - 1 : new[j] = rows[Old(j)]
    <2>1. new \in Seq(Sealed) /\ Len(new) = Len(rows) - 1 /\ DOMAIN new = 1..Len(new)
        <3>1. new \in Seq(Sealed) /\ Len(new) = Len(low) + Len(high)
            BY <1>2, <1>3, ConcatProperties
        <3>2. DOMAIN new = 1..Len(new)
            BY <3>1, LenProperties
        <3>. QED
            BY <1>1, <1>2, <3>1, <3>2
    <2>2. ASSUME NEW j \in 1..Len(rows) - 1
          PROVE  new[j] = rows[Old(j)]
        <3>1. CASE j < i
            <4>1. j \in 1..i - 1
                BY <1>1, <3>1
            <4>2. new[j] = low[j]
                BY <1>1, <1>2, <1>3, <4>1, ConcatProperties
            <4>. QED
                BY <1>2, <3>1, <4>1, <4>2
        <3>2. CASE ~(j < i)
            <4>1. j - (i - 1) \in 1..Len(rows) - i /\ i + (j - (i - 1)) = j + 1
                BY <1>1, <3>2
            <4>2. new[j] = high[j - (i - 1)]
                BY SMTT(30), <1>1, <1>2, <1>3, <3>2, <4>1, ConcatProperties
            <4>. QED
                BY <1>2, <3>2, <4>1, <4>2
        <3>. QED
            BY <3>1, <3>2
    <2>. QED
        BY <2>1, <2>2
<1>5. \A j \in 1..Len(rows) - 1 : Old(j) \in DOMAIN rows \ {i}
    BY <1>1
<1>6. \A j, k \in 1..Len(rows) - 1 : Old(j) = Old(k) => j = k
    BY <1>1
<1>7. \A k \in DOMAIN rows \ {i} : \E j \in 1..Len(rows) - 1 : Old(j) = k
    <2>. SUFFICES ASSUME NEW k \in DOMAIN rows \ {i}
                  PROVE  \E j \in 1..Len(rows) - 1 : Old(j) = k
        OBVIOUS
    <2>1. CASE k < i
        BY <1>1, <2>1
    <2>2. CASE ~(k < i)
        <3>1. k - 1 \in 1..Len(rows) - 1 /\ ~(k - 1 < i) /\ k - 1 + 1 = k
            BY <1>1, <2>2
        <3>. QED
            BY <3>1
    <2>. QED
        BY <2>1, <2>2
<1>. HIDE DEF Old
<1>8. \A j, k \in DOMAIN rows : rows[j].key = rows[k].key => j = k
    <2>. SUFFICES ASSUME NEW j \in DOMAIN rows, NEW k \in DOMAIN rows, rows[j].key = rows[k].key
                  PROVE  j = k
        OBVIOUS
    <2>1. rows[j] \in Sealed /\ rows[k] \in Sealed /\ rows[j].mk = rows[k].mk
        BY <1>1
    <2>2. rows[j] = rows[k]
        BY <2>1 DEF Sealed
    <2>. QED
        BY <2>2 DEF Table, IsInjective
<1>9. IsInjective(new)
    BY <1>4, <1>5, <1>6 DEF IsInjective, Table
<1>10. KeysOf(new) = KeysOf(rows) \ {rows[i].key}
    <2>1. \A j \in DOMAIN new : new[j].key \in KeysOf(rows) \ {rows[i].key}
        BY <1>4, <1>5, <1>8 DEF KeysOf
    <2>2. ASSUME NEW k \in DOMAIN rows, rows[k].key # rows[i].key
          PROVE  rows[k].key \in KeysOf(new)
        <3>1. PICK j \in 1..Len(rows) - 1 : Old(j) = k
            BY <1>7, <2>2
        <3>. QED
            BY <1>4, <3>1 DEF KeysOf
    <2>. QED
        BY <2>1, <2>2 DEF KeysOf
<1>11. \A j \in DOMAIN new : new[j] \in Range(rows)
    BY <1>4, <1>5 DEF Range
<1>. QED
    BY <1>4, <1>9, <1>10, <1>11 DEF Table, new

(***************************************************************************)
(* The inductive invariant.                                                *)
(***************************************************************************)
Passed   == {"import", "validate", "keys", "pool", "serve"}
Imported == {"validate", "keys", "pool", "serve"}
Names    == {<<>>} \cup {publicModelIDs(commonModels(k)) : k \in SUBSET Catalogs}
Process  == [pc: {"down", "migrate"} \cup Opening, mk: MasterKeys \cup {NoKey},
             latest: {0} \cup Versions, keys: Seq(Credentials), start: Nat,
             catalogs: SUBSET Catalogs, public: Names]
Database == [schema: {0} \cup Versions, verifier: MasterKeys \cup {NoKey},
             marker: BOOLEAN, rows: Seq(Sealed)]

Types ==
    /\ db \in Database /\ IsInjective(db.rows) /\ proc \in [Processes -> Process]
    /\ deleted \subseteq Credentials /\ old \in BOOLEAN /\ creates \in 0..MaxCreates

\* A process uses no schema older than its own, initializes the accounts it
\* has read from the first one on, has the key of the verifier once it is past
\* the check, and is past the import only when that was noted.
Sound(p) ==
    /\ proc[p].pc \in Opening => db.schema >= proc[p].latest
    /\ (proc[p].pc # "pool" => proc[p].start = 0) /\ proc[p].start <= Len(proc[p].keys)
    /\ proc[p].pc # "down" => proc[p].mk \in MasterKeys
    /\ proc[p].pc \in Passed => proc[p].mk = db.verifier
    /\ proc[p].pc \in Imported => db.marker
ProcessesInv == \A p \in Processes : Sound(p)

\* Everything is sealed with the key of the verifier; until the import is
\* noted nothing is deleted and the table is as it was found.
TableInv ==
    /\ \A i \in DOMAIN db.rows : db.rows[i].mk = db.verifier
    /\ ~db.marker => deleted = {} /\ (old <=> db.rows # <<>>)
    /\ ImportedOnce

StartupInv == Types /\ ProcessesInv /\ TableInv

(***************************************************************************)
(* What a step does to the processes.                                      *)
(***************************************************************************)
\* A process goes on with what it has.
LEMMA GotoMoves ==
    ASSUME Types, NEW p \in Processes, NEW l \in {"migrate"} \cup Opening, Goto(p, l)
    PROVE  /\ proc' \in [Processes -> Process] /\ proc'[p].pc = l
           /\ proc'[p].mk = proc[p].mk /\ proc'[p].latest = proc[p].latest
           /\ proc'[p].keys = proc[p].keys /\ proc'[p].start = proc[p].start
           /\ \A q \in Processes \ {p} : proc'[q] = proc[q]
<1>. DEFINE w == [proc[p] EXCEPT !.pc = l]
<1>1. proc[p] \in Process
    BY DEF Types
<1>2. w \in Process /\ w.pc = l /\ w.mk = proc[p].mk /\ w.latest = proc[p].latest
      /\ w.keys = proc[p].keys /\ w.start = proc[p].start
    BY <1>1 DEF Process
<1>3. proc' = [proc EXCEPT ![p] = w]
    BY DEF Goto
<1>. HIDE DEF w
<1>. QED
    BY <1>2, <1>3 DEF Types

LEMMA StartMoves ==
    ASSUME Types, NEW p \in Processes, NEW mk \in MasterKeys, NEW v \in Versions, Start(p, mk, v)
    PROVE  /\ proc' \in [Processes -> Process] /\ proc'[p].pc = "migrate" /\ proc'[p].mk = mk
           /\ proc'[p].keys = <<>> /\ proc'[p].start = 0
           /\ \A q \in Processes \ {p} : proc'[q] = proc[q]
<1>. DEFINE w == [NotRunning EXCEPT !.pc = "migrate", !.mk = mk, !.latest = v]
<1>1. NotRunning \in Process
    BY DEF NotRunning, Process, Names
<1>2. w \in Process /\ w.pc = "migrate" /\ w.mk = mk /\ w.keys = <<>> /\ w.start = 0
    <2>. DEFINE u == [NotRunning EXCEPT !.pc = "migrate", !.mk = mk]
    <2>1. u \in Process /\ u.pc = "migrate" /\ u.mk = mk /\ u.keys = <<>> /\ u.start = 0
        BY <1>1 DEF Process, NotRunning
    <2>2. w = [u EXCEPT !.latest = v]
        OBVIOUS
    <2>. HIDE DEF u, w
    <2>. QED
        BY <2>1, <2>2 DEF Process
<1>3. proc' = [proc EXCEPT ![p] = w]
    BY DEF Start
<1>. HIDE DEF w
<1>. QED
    BY <1>2, <1>3 DEF Types

LEMMA StopMoves ==
    ASSUME Types, NEW p \in Processes, Stop(p)
    PROVE  /\ proc' \in [Processes -> Process] /\ proc'[p].pc = "down"
           /\ proc'[p].keys = <<>> /\ proc'[p].start = 0
           /\ \A q \in Processes \ {p} : proc'[q] = proc[q]
<1>1. /\ NotRunning \in Process /\ NotRunning.pc = "down"
      /\ NotRunning.keys = <<>> /\ NotRunning.start = 0
    BY DEF NotRunning, Process, Names
<1>2. proc' = [proc EXCEPT ![p] = NotRunning]
    BY DEF Stop
<1>. QED
    BY <1>1, <1>2 DEF Types

\* The accounts read are initialized from the first one on.
LEMMA KeysMoves ==
    ASSUME Types, ProcessesInv, NEW p \in Processes, PoolKeys(p)
    PROVE  /\ proc' \in [Processes -> Process] /\ proc'[p].pc = "pool"
           /\ proc'[p].mk = proc[p].mk /\ proc'[p].latest = proc[p].latest
           /\ proc'[p].start <= Len(proc'[p].keys)
           /\ \A q \in Processes \ {p} : proc'[q] = proc[q]
<1>. DEFINE keys == [i \in DOMAIN db.rows |-> db.rows[i].key]
            u == [proc[p] EXCEPT !.pc = "pool"]
            w == [u EXCEPT !.keys = keys]
<1>1. db.rows \in Seq(Sealed) /\ Len(db.rows) \in Nat /\ DOMAIN db.rows = 1..Len(db.rows)
    BY DEF Types, Database
<1>2. keys \in Seq(Credentials)
    <2>1. \A i \in 1..Len(db.rows) : db.rows[i] \in Sealed
        BY <1>1
    <2>2. \A i \in 1..Len(db.rows) : db.rows[i].key \in Credentials
        BY <2>1 DEF Sealed
    <2>. QED
        BY <1>1, <2>2, IsASeq
<1>3. proc[p] \in Process /\ proc[p].start = 0
    BY DEF Types, ProcessesInv, Sound, PoolKeys, At
<1>4. /\ u \in Process /\ u.pc = "pool" /\ u.mk = proc[p].mk
      /\ u.latest = proc[p].latest /\ u.start = 0
    BY <1>3 DEF Process, Opening
<1>5. proc' = [proc EXCEPT ![p] = w]
    BY DEF PoolKeys
<1>. HIDE DEF u, keys
<1>6. /\ w \in Process /\ w.pc = "pool" /\ w.mk = proc[p].mk /\ w.latest = proc[p].latest
      /\ w.start = 0 /\ w.keys = keys
    BY <1>2, <1>4 DEF Process
<1>. HIDE DEF w
<1>7. 0 <= Len(keys)
    BY <1>2, LenProperties
<1>. QED
    BY <1>5, <1>6, <1>7 DEF Types

\* A batch later the process serves, or goes on with the next accounts.
LEMMA BatchMoves ==
    ASSUME Types, ProcessesInv, NEW p \in Processes, bootstrap(p)
    PROVE  /\ proc' \in [Processes -> Process] /\ proc'[p].pc \in {"pool", "serve"}
           /\ proc'[p].mk = proc[p].mk /\ proc'[p].latest = proc[p].latest
           /\ proc'[p].start <= Len(proc'[p].keys) /\ (proc'[p].pc # "pool" => proc'[p].start = 0)
           /\ \A q \in Processes \ {p} : proc'[q] = proc[q]
<1>. DEFINE w == proc[p]
            total == Len(w.keys)
            end == BatchEnd(w.start, total)
            Known(ready) == IF \E r \in ready : r.catalogs = {} THEN {}
                            ELSE UNION {r.catalogs : r \in ready}
            OK(v) == /\ v \in Process /\ v.pc \in {"pool", "serve"} /\ v.mk = w.mk
                     /\ v.latest = w.latest /\ v.start <= Len(v.keys)
                     /\ (v.pc # "pool" => v.start = 0)
<1>1. /\ w \in Process /\ w.start \in Nat /\ w.keys \in Seq(Credentials)
      /\ total \in Nat /\ w.start <= total /\ w.pc = "pool"
    BY DEF Types, Process, ProcessesInv, Sound, bootstrap, At
<1>2. end \in Nat /\ end <= total
    <2>1. Batch \in Nat /\ w.start + Batch \in Int /\ total \in Int
        BY <1>1, StartupAssumption DEF StartupAssumption
    <2>. HIDE DEF total
    <2>2. end = IF w.start + Batch <= total THEN w.start + Batch ELSE total
        BY <2>1, MinOfTwo DEF BatchEnd
    <2>. HIDE DEF end
    <2>. QED
        BY <1>1, <2>1, <2>2
<1>3. PICK results \in [w.start + 1..end -> Results] :
        LET ready == {r \in Range(results) : r.ready} IN
        proc' = [proc EXCEPT ![p] = IF ready # {} \/ end = total THEN Served(w, ready)
                                    ELSE [w EXCEPT !.start = end]]
    BY DEF bootstrap
<1>. DEFINE ready == {r \in Range(results) : r.ready}
            known == Known(ready)
<1>4. known \in SUBSET Catalogs
    <2>1. ASSUME NEW r \in Results
          PROVE  r.catalogs \subseteq Catalogs
        <3>. DEFINE C == {{c} : c \in Catalogs} \cup {{}}
        <3>1. \A D \in C : D \subseteq Catalogs
            OBVIOUS
        <3>2. Results = [ready: {TRUE}, catalogs: C] \cup {[ready |-> FALSE, catalogs |-> {}]}
            BY DEF Results
        <3>. HIDE DEF C
        <3>3. CASE r \in [ready: {TRUE}, catalogs: C]
            BY <3>1, <3>3
        <3>4. CASE r = [ready |-> FALSE, catalogs |-> {}]
            BY <3>4
        <3>. QED
            BY <3>2, <3>3, <3>4
    <2>2. ready \subseteq Results
        BY DEF Range
    <2>. HIDE DEF ready
    <2>. QED
        BY <2>1, <2>2
<1>5. publicModelIDs(commonModels(known)) \in Names
    BY <1>4 DEF Names
<1>6. OK(Served(w, ready))
    <2>. DEFINE names == publicModelIDs(commonModels(known))
                v1 == [w EXCEPT !.pc = "serve", !.keys = <<>>]
                v2 == [v1 EXCEPT !.start = 0]
                v3 == [v2 EXCEPT !.catalogs = known]
                v4 == [v3 EXCEPT !.public = names]
    <2>1. Served(w, ready) = v4
        BY DEF Served
    <2>. HIDE DEF known, names, w
    <2>. <<>> \in Seq(Credentials)
        BY EmptySeq
    <2>2. /\ v1 \in Process /\ v1.pc = "serve" /\ v1.mk = w.mk /\ v1.latest = w.latest
          /\ v1.keys = <<>>
        BY <1>1 DEF Process, Opening
    <2>. HIDE DEF v1
    <2>3. /\ v2 \in Process /\ v2.pc = "serve" /\ v2.mk = w.mk /\ v2.latest = w.latest
          /\ v2.keys = <<>> /\ v2.start = 0
        BY <2>2 DEF Process
    <2>. HIDE DEF v2
    <2>4. /\ v3 \in Process /\ v3.pc = "serve" /\ v3.mk = w.mk /\ v3.latest = w.latest
          /\ v3.keys = <<>> /\ v3.start = 0
        BY <1>4, <2>3 DEF Process
    <2>. HIDE DEF v3
    <2>5. names \in Names
        BY <1>5 DEF names
    <2>6. /\ v4 \in Process /\ v4.pc = "serve" /\ v4.mk = w.mk /\ v4.latest = w.latest
          /\ v4.keys = <<>> /\ v4.start = 0
        BY <2>4, <2>5 DEF Process
    <2>. HIDE DEF v4
    <2>7. v4.start <= Len(v4.keys)
        BY <2>6, EmptySeq
    <2>. QED
        BY <2>1, <2>6, <2>7
<1>7. OK([w EXCEPT !.start = end])
    <2>. DEFINE v == [w EXCEPT !.start = end]
    <2>. HIDE DEF end
    <2>1. v \in Process /\ v.start = end /\ v.pc = "pool" /\ v.mk = w.mk /\ v.latest = w.latest
          /\ v.keys = w.keys
        BY <1>1, <1>2 DEF Process
    <2>. HIDE DEF v, w
    <2>2. v.start <= Len(v.keys)
        BY <1>2, <2>1
    <2>3. OK(v)
        BY <2>1, <2>2
    <2>. QED
        BY <2>3 DEF v, w
<1>. HIDE DEF OK, known
<1>8. \E v : OK(v) /\ proc' = [proc EXCEPT ![p] = v]
    BY <1>3, <1>6, <1>7
<1>. QED
    BY <1>8 DEF Types, OK

(***************************************************************************)
(* The steps.                                                              *)
(***************************************************************************)
\* A step that leaves the database alone only has to keep its process sound.
LEMMA ProcessStep ==
    ASSUME StartupInv, UNCHANGED <<db, deleted, old, creates>>, NEW p \in Processes,
           proc' \in [Processes -> Process], \A q \in Processes \ {p} : proc'[q] = proc[q],
           Sound(p)'
    PROVE  StartupInv'
<1>1. Types'
    BY DEF StartupInv, Types
<1>2. ASSUME NEW q \in Processes \ {p}
      PROVE  Sound(q)'
    BY DEF StartupInv, ProcessesInv, Sound
<1>3. ProcessesInv'
    BY <1>2 DEF ProcessesInv
<1>4. TableInv'
    BY DEF StartupInv, TableInv, ImportedOnce, Held
<1>. QED
    BY <1>1, <1>3, <1>4 DEF StartupInv

LEMMA StartStep ==
    ASSUME StartupInv, NEW p \in Processes, NEW mk \in MasterKeys, NEW v \in Versions,
           Start(p, mk, v)
    PROVE  StartupInv'
<1>1. /\ proc' \in [Processes -> Process] /\ proc'[p].pc = "migrate" /\ proc'[p].mk = mk
      /\ proc'[p].keys = <<>> /\ proc'[p].start = 0
      /\ \A q \in Processes \ {p} : proc'[q] = proc[q]
    BY StartMoves DEF StartupInv
<1>2. Sound(p)'
    BY <1>1, EmptySeq DEF Sound, Opening, Passed, Imported
<1>. QED
    BY <1>1, <1>2, ProcessStep DEF Start

LEMMA StopStep ==
    ASSUME StartupInv, NEW p \in Processes, Stop(p)
    PROVE  StartupInv'
<1>1. /\ proc' \in [Processes -> Process] /\ proc'[p].pc = "down"
      /\ proc'[p].keys = <<>> /\ proc'[p].start = 0
      /\ \A q \in Processes \ {p} : proc'[q] = proc[q]
    BY StopMoves DEF StartupInv
<1>2. Sound(p)'
    BY <1>1, EmptySeq DEF Sound, Opening, Passed, Imported
<1>. QED
    BY <1>1, <1>2, ProcessStep DEF Stop

\* The checks, which only let a process go on.
LEMMA CheckStep ==
    ASSUME StartupInv, NEW p \in Processes,
           verifyMasterKey(p) \/ rereadVerifier(p) \/ validate(p)
    PROVE  StartupInv'
<1>1. PICK l \in {"insert", "import", "keys"} :
        /\ Goto(p, l) /\ proc[p].pc \in Opening /\ proc[p].pc # "pool"
        /\ l = "import" => proc[p].mk = db.verifier
        /\ l = "keys" => proc[p].pc = "validate"
    BY DEF verifyMasterKey, rereadVerifier, validate, At, Opening
<1>2. /\ proc' \in [Processes -> Process] /\ proc'[p].pc = l
      /\ proc'[p].mk = proc[p].mk /\ proc'[p].latest = proc[p].latest
      /\ proc'[p].keys = proc[p].keys /\ proc'[p].start = proc[p].start
      /\ \A q \in Processes \ {p} : proc'[q] = proc[q]
    BY <1>1, GotoMoves DEF StartupInv, Opening
<1>3. db' = db /\ UNCHANGED <<deleted, old, creates>>
    BY DEF verifyMasterKey, rereadVerifier, validate
<1>4. Sound(p)'
    BY <1>1, <1>2, <1>3 DEF StartupInv, ProcessesInv, Sound, Opening, Passed, Imported
<1>. QED
    BY <1>2, <1>3, <1>4, ProcessStep

LEMMA PoolStep ==
    ASSUME StartupInv, NEW p \in Processes, PoolKeys(p) \/ bootstrap(p)
    PROVE  StartupInv'
<1>1. /\ proc' \in [Processes -> Process] /\ proc'[p].pc \in {"pool", "serve"}
      /\ proc'[p].mk = proc[p].mk /\ proc'[p].latest = proc[p].latest
      /\ proc'[p].start <= Len(proc'[p].keys) /\ (proc'[p].pc # "pool" => proc'[p].start = 0)
      /\ \A q \in Processes \ {p} : proc'[q] = proc[q]
    BY KeysMoves, BatchMoves DEF StartupInv
<1>2. db' = db /\ UNCHANGED <<deleted, old, creates>> /\ proc[p].pc \in {"keys", "pool"}
    BY DEF PoolKeys, bootstrap, At
<1>3. Sound(p)'
    BY <1>1, <1>2 DEF StartupInv, ProcessesInv, Sound, Opening, Passed, Imported
<1>. QED
    BY <1>1, <1>2, <1>3, ProcessStep

LEMMA MigrateStep ==
    ASSUME StartupInv, NEW p \in Processes, migrate(p)
    PROVE  StartupInv'
<1>1. /\ proc' \in [Processes -> Process] /\ proc'[p].pc = "verify"
      /\ proc'[p].mk = proc[p].mk /\ proc'[p].latest = proc[p].latest
      /\ proc'[p].keys = proc[p].keys /\ proc'[p].start = proc[p].start
      /\ \A q \in Processes \ {p} : proc'[q] = proc[q]
    BY GotoMoves DEF StartupInv, Opening, migrate
<1>2. /\ proc[p].pc = "migrate" /\ db.schema <= proc[p].latest
      /\ proc[p].latest \in {0} \cup Versions /\ db \in Database
    BY DEF migrate, At, StartupInv, Types, Process
<1>3. /\ db' \in Database /\ db'.schema = proc[p].latest /\ db'.verifier = db.verifier
      /\ db'.marker = db.marker /\ db'.rows = db.rows
    BY <1>2 DEF migrate, Database
<1>4. UNCHANGED <<deleted, old, creates>>
    BY DEF migrate
<1>5. Types'
    BY <1>1, <1>3, <1>4 DEF StartupInv, Types
<1>6. ASSUME NEW q \in Processes
      PROVE  Sound(q)'
    <2>. DEFINE V == {0} \cup Versions
    <2>0. V \subseteq Nat
        BY StartupAssumption DEF StartupAssumption
    <2>. HIDE DEF V
    <2>1. Sound(q) /\ proc[q].latest \in Nat /\ proc[p].latest \in Nat /\ db.schema \in Nat
        <3>1. proc[q].latest \in V /\ proc[p].latest \in V /\ db.schema \in V
            BY <1>2 DEF StartupInv, Types, Process, Database, V
        <3>. QED
            BY <2>0, <3>1 DEF StartupInv, ProcessesInv
    <2>2. CASE q = p
        BY <1>1, <1>2, <1>3, <2>1, <2>2 DEF Sound, Opening, Passed, Imported
    <2>3. CASE q # p
        BY <1>1, <1>2, <1>3, <2>1, <2>3 DEF Sound
    <2>. QED
        BY <2>2, <2>3
<1>7. TableInv'
    BY <1>3, <1>4 DEF StartupInv, TableInv, ImportedOnce, Held
<1>. QED
    BY <1>5, <1>6, <1>7 DEF StartupInv, ProcessesInv

\* A verifier is only ever written where there is none, and nobody is past
\* the check and nothing is sealed by then.
LEMMA InsertStep ==
    ASSUME StartupInv, NEW p \in Processes, insertVerifier(p)
    PROVE  StartupInv'
<1>1. /\ proc' \in [Processes -> Process] /\ proc'[p].pc = "reread"
      /\ proc'[p].mk = proc[p].mk /\ proc'[p].latest = proc[p].latest
      /\ proc'[p].keys = proc[p].keys /\ proc'[p].start = proc[p].start
      /\ \A q \in Processes \ {p} : proc'[q] = proc[q]
    BY GotoMoves DEF StartupInv, Opening, insertVerifier
<1>2. /\ proc[p].pc = "insert" /\ proc[p].mk \in MasterKeys /\ db \in Database
      /\ NoKey \notin MasterKeys
    BY StartupAssumption
    DEF insertVerifier, At, StartupInv, Types, ProcessesInv, Sound, StartupAssumption
<1>3. /\ db' \in Database /\ db'.schema = db.schema
      /\ db'.verifier = IF db.verifier = NoKey THEN proc[p].mk ELSE db.verifier
      /\ db'.marker = db.marker /\ db'.rows = db.rows
    BY <1>2 DEF insertVerifier, Database
<1>4. UNCHANGED <<deleted, old, creates>>
    BY DEF insertVerifier
<1>5. Types'
    BY <1>1, <1>3, <1>4 DEF StartupInv, Types
<1>6. ASSUME NEW q \in Processes
      PROVE  Sound(q)'
    <2>1. Sound(q)
        BY DEF StartupInv, ProcessesInv
    <2>2. CASE q = p
        BY <1>1, <1>2, <1>3, <2>1, <2>2 DEF Sound, Opening, Passed, Imported
    <2>3. CASE q # p
        BY <1>1, <1>2, <1>3, <2>1, <2>3 DEF Sound, Passed
    <2>. QED
        BY <2>2, <2>3
<1>7. \A i \in DOMAIN db.rows : db.rows[i].mk \in MasterKeys
    <2>1. \A i \in DOMAIN db.rows : db.rows[i] \in Sealed
        BY <1>2 DEF Database
    <2>. QED
        BY <2>1 DEF Sealed
<1>8. TableInv'
    BY <1>2, <1>3, <1>4, <1>7 DEF StartupInv, TableInv, ImportedOnce, Held
<1>. QED
    BY <1>5, <1>6, <1>8 DEF StartupInv, ProcessesInv

\* What is imported is sealed with the key of the verifier, goes into a table
\* that was empty from the start, and comes before anything is deleted.
LEMMA ImportStep ==
    ASSUME StartupInv, NEW p \in Processes, importLegacyOnce(p)
    PROVE  StartupInv'
<1>. DEFINE imported == [i \in DOMAIN LegacyPoolKeys |-> Row(LegacyPoolKeys[i], proc[p].mk)]
            rows == IF ImportWanted THEN imported ELSE db.rows
            d == [db EXCEPT !.marker = TRUE]
<1>1. /\ proc' \in [Processes -> Process] /\ proc'[p].pc = "validate"
      /\ proc'[p].mk = proc[p].mk /\ proc'[p].latest = proc[p].latest
      /\ proc'[p].keys = proc[p].keys /\ proc'[p].start = proc[p].start
      /\ \A q \in Processes \ {p} : proc'[q] = proc[q]
    BY GotoMoves DEF StartupInv, Opening, importLegacyOnce
<1>2. /\ proc[p].pc = "import" /\ proc[p].mk \in MasterKeys /\ proc[p].mk = db.verifier
      /\ db \in Database /\ Table(db.rows)
    BY DEF importLegacyOnce, At, StartupInv, Types, ProcessesInv, Sound, Passed, Database, Table
<1>3. /\ Table(imported) /\ KeysOf(imported) = Range(LegacyKeys)
      /\ \A i \in DOMAIN imported : imported[i].mk = db.verifier
    BY <1>2, ImportedRows
<1>4. db' = [d EXCEPT !.rows = rows]
    BY DEF importLegacyOnce
<1>. HIDE DEF imported
<1>5. Table(rows) /\ rows \in Seq(Sealed)
    BY <1>2, <1>3 DEF Table
<1>6. d \in Database /\ d.schema = db.schema /\ d.verifier = db.verifier /\ d.marker = TRUE
    BY <1>2 DEF Database
<1>. HIDE DEF d, rows
<1>7. /\ db' \in Database /\ db'.schema = db.schema /\ db'.verifier = db.verifier
      /\ db'.marker = TRUE /\ db'.rows = rows
    BY <1>4, <1>5, <1>6 DEF Database
<1>8. UNCHANGED <<deleted, old, creates>>
    BY DEF importLegacyOnce
<1>9. Types'
    BY <1>1, <1>5, <1>7, <1>8 DEF StartupInv, Types, Table
<1>10. ASSUME NEW q \in Processes
       PROVE  Sound(q)'
    <2>1. Sound(q)
        BY DEF StartupInv, ProcessesInv
    <2>2. CASE q = p
        BY <1>1, <1>2, <1>7, <2>1, <2>2 DEF Sound, Opening, Passed, Imported
    <2>3. CASE q # p
        BY <1>1, <1>7, <2>1, <2>3 DEF Sound
    <2>. QED
        BY <2>2, <2>3
<1>11. TableInv'
    <2>1. CASE ImportWanted
        <3>1. rows = imported /\ ~db.marker /\ deleted = {} /\ ~old
            BY <2>1 DEF ImportWanted, StartupInv, TableInv, rows
        <3>2. \A k : Held(k)' <=> k \in Range(LegacyKeys)
            BY <1>3, <1>7, <3>1 DEF Held, KeysOf
        <3>. QED
            BY <1>3, <1>7, <1>8, <3>1, <3>2 DEF TableInv, ImportedOnce
    <2>2. CASE ~ImportWanted
        <3>1. rows = db.rows /\ (~old => db.marker)
            BY <2>2 DEF ImportWanted, StartupInv, TableInv, rows
        <3>2. \A k : Held(k)' <=> Held(k)
            BY <1>7, <3>1 DEF Held
        <3>. QED
            BY <1>7, <1>8, <3>1, <3>2 DEF StartupInv, TableInv, ImportedOnce
    <2>. QED
        BY <2>1, <2>2
<1>. QED
    BY <1>9, <1>10, <1>11 DEF StartupInv, ProcessesInv

\* A step of an administrator only changes the rows.
LEMMA RowsStep ==
    ASSUME StartupInv, NEW p \in Processes, At(p, "serve"), NEW rows, Table(rows),
           db' = [db EXCEPT !.rows = rows], \A i \in DOMAIN rows : rows[i].mk = db.verifier,
           UNCHANGED <<proc, old>>, deleted' \subseteq Credentials, creates' \in 0..MaxCreates,
           ImportedOnce'
    PROVE  StartupInv'
<1>1. /\ db' \in Database /\ db'.schema = db.schema /\ db'.verifier = db.verifier
      /\ db'.marker = db.marker /\ db'.rows = rows
    BY DEF StartupInv, Types, Table, Database
<1>2. Types'
    BY <1>1 DEF StartupInv, Types, Table
<1>3. \A q \in Processes : Sound(q)'
    BY <1>1 DEF StartupInv, ProcessesInv, Sound
<1>4. db.marker
    BY DEF StartupInv, ProcessesInv, Sound, At, Imported
<1>5. TableInv'
    BY <1>1, <1>4 DEF TableInv
<1>. QED
    BY <1>2, <1>3, <1>5 DEF StartupInv, ProcessesInv

LEMMA CreateStep ==
    ASSUME StartupInv, NEW p \in Processes, NEW k \in Credentials, CreateAccount(p, k)
    PROVE  StartupInv'
<1>. DEFINE row == Row(k, proc[p].mk)
            rows == Append(db.rows, row)
<1>1. proc[p].pc = "serve" /\ proc[p].mk \in MasterKeys /\ proc[p].mk = db.verifier
      /\ Table(db.rows)
    BY DEF CreateAccount, At, StartupInv, Types, ProcessesInv, Sound, Passed, Database, Table
<1>2. row \in Sealed /\ row.key = k /\ row.mk = db.verifier /\ row \notin Range(db.rows)
    BY <1>1 DEF CreateAccount, Row, Sealed
<1>. HIDE DEF row
<1>3. /\ Table(rows) /\ KeysOf(rows) = KeysOf(db.rows) \cup {k}
      /\ \A i \in DOMAIN rows : rows[i] \in Range(db.rows) \cup {row}
    BY <1>1, <1>2, AppendedRow
<1>4. db' = [db EXCEPT !.rows = rows]
    BY DEF CreateAccount, row
<1>. HIDE DEF rows
<1>5. \A i \in DOMAIN rows : rows[i].mk = db.verifier
    BY <1>2, <1>3 DEF StartupInv, TableInv, Range
<1>6. /\ deleted' = deleted \ {k} /\ creates' = creates + 1 /\ creates < MaxCreates
      /\ UNCHANGED <<proc, old>>
    BY DEF CreateAccount
<1>7. /\ deleted' \subseteq Credentials /\ creates \in Nat
      /\ creates' \in 0..MaxCreates /\ creates' > 0
    BY <1>6, StartupAssumption DEF StartupInv, Types, StartupAssumption
<1>8. db'.rows = rows /\ db'.marker = db.marker
    BY <1>4 DEF StartupInv, Types, Database
<1>9. \A c : Held(c)' <=> Held(c) \/ c = k
    BY <1>3, <1>8 DEF Held, KeysOf
<1>10. db.marker
    BY <1>1 DEF StartupInv, ProcessesInv, Sound, Imported
<1>11. ImportedOnce'
    BY <1>6, <1>7, <1>8, <1>9, <1>10 DEF ImportedOnce, StartupInv, TableInv
<1>. QED
    BY <1>1, <1>3, <1>4, <1>5, <1>6, <1>7, <1>11, RowsStep DEF At

LEMMA DeleteStep ==
    ASSUME StartupInv, NEW p \in Processes, NEW i \in DOMAIN db.rows, DeleteAccount(p, i)
    PROVE  StartupInv'
<1>. DEFINE rows == RemoveAt(db.rows, i)
            k == db.rows[i].key
<1>1. proc[p].pc = "serve" /\ Table(db.rows) /\ k \in Credentials
    <2>1. db.rows \in Seq(Sealed) /\ db.rows[i] \in Sealed
        BY DEF StartupInv, Types, Database
    <2>. QED
        BY <2>1 DEF DeleteAccount, At, StartupInv, Types, Table, Sealed
<1>2. /\ Table(rows) /\ KeysOf(rows) = KeysOf(db.rows) \ {k}
      /\ \A j \in DOMAIN rows : rows[j] \in Range(db.rows)
    BY <1>1, RemovedRow DEF StartupInv, TableInv
<1>3. /\ db' = [db EXCEPT !.rows = rows] /\ deleted' = deleted \cup {k}
      /\ UNCHANGED <<proc, old, creates>>
    BY DEF DeleteAccount
<1>. HIDE DEF rows, k
<1>4. \A j \in DOMAIN rows : rows[j].mk = db.verifier
    BY <1>2 DEF StartupInv, TableInv, Range
<1>5. db'.rows = rows /\ db'.marker = db.marker
    BY <1>3 DEF StartupInv, Types, Database
<1>6. \A c : Held(c)' <=> Held(c) /\ c # k
    BY <1>2, <1>5 DEF Held, KeysOf
<1>7. db.marker
    BY <1>1 DEF StartupInv, ProcessesInv, Sound, Imported
<1>8. ImportedOnce'
    BY <1>3, <1>5, <1>6, <1>7 DEF ImportedOnce, StartupInv, TableInv
<1>9. deleted' \subseteq Credentials /\ creates' \in 0..MaxCreates
    BY <1>1, <1>3 DEF StartupInv, Types
<1>. QED
    BY <1>1, <1>2, <1>3, <1>4, <1>8, <1>9, RowsStep DEF At

(***************************************************************************)
(* The theorems.                                                           *)
(***************************************************************************)
LEMMA StartupStarts == Init => StartupInv
<1>. SUFFICES ASSUME Init
              PROVE  StartupInv
    OBVIOUS
<1>. DEFINE fresh == [schema |-> 0, verifier |-> NoKey, marker |-> FALSE, rows |-> <<>>]
            found(mk, k) == [schema |-> 1, verifier |-> mk, marker |-> FALSE,
                             rows |-> <<Row(k, mk)>>]
<1>1. /\ 1 \in Versions /\ NoKey \notin MasterKeys
      /\ MaxCreates \in Nat
    BY StartupAssumption DEF StartupAssumption
<1>2. db = fresh \/ \E mk \in MasterKeys, k \in Credentials \ Range(LegacyKeys) : db = found(mk, k)
    BY DEF Init
<1>3. /\ db \in Database /\ IsInjective(db.rows) /\ ~db.marker
      /\ \A i \in DOMAIN db.rows : db.rows[i].mk = db.verifier /\ db.rows[i].key \notin Range(LegacyKeys)
    <2>1. CASE db = fresh
        <3>1. <<>> \in Seq(Sealed) /\ DOMAIN <<>> = {}
            BY EmptySeq
        <3>2. fresh \in Database
            BY <3>1 DEF Database
        <3>. QED
            BY <2>1, <3>1, <3>2 DEF IsInjective
    <2>2. CASE db # fresh
        <3>0. PICK mk \in MasterKeys, k \in Credentials \ Range(LegacyKeys) : db = found(mk, k)
            BY <1>2, <2>2
        <3>1. Row(k, mk) \in Sealed /\ Row(k, mk).mk = mk /\ Row(k, mk).key = k
            BY DEF Row, Sealed
        <3>. DEFINE r == Row(k, mk)
        <3>. HIDE DEF r
        <3>2. <<r>> \in Seq(Sealed) /\ DOMAIN <<r>> = {1} /\ <<r>>[1] = r
            BY <3>1 DEF r
        <3>. QED
            BY <1>1, <3>0, <3>1, <3>2 DEF Database, IsInjective, r
    <2>. QED
        BY <2>1, <2>2
<1>4. deleted = {} /\ old = (db.rows # <<>>) /\ creates = 0
    BY DEF Init
<1>5. /\ proc \in [Processes -> Process]
      /\ \A p \in Processes : proc[p].pc = "down" /\ proc[p].start = 0 /\ proc[p].keys = <<>>
    <2>1. NotRunning \in Process
        BY EmptySeq DEF NotRunning, Process, Names
    <2>. QED
        BY <2>1 DEF Init, NotRunning
<1>6. Types
    BY <1>1, <1>3, <1>4, <1>5 DEF Types
<1>7. ProcessesInv
    BY <1>5, EmptySeq DEF ProcessesInv, Sound, Opening, Passed, Imported
<1>8. TableInv
    BY <1>3, <1>4 DEF TableInv, ImportedOnce, Held
<1>. QED
    BY <1>6, <1>7, <1>8 DEF StartupInv

\* However starts race and are cut short, the database and the processes keep
\* to the inductive invariant.
LEMMA StartupInvariant == Spec => []StartupInv
<1>1. Init => StartupInv
    BY StartupStarts
<1>2. StartupInv /\ [Next]_vars => StartupInv'
    <2>. SUFFICES ASSUME StartupInv, [Next]_vars
                  PROVE  StartupInv'
        OBVIOUS
    <2>1. ASSUME NEW p \in Processes, Open(p)
          PROVE  StartupInv'
        BY <2>1, MigrateStep, CheckStep, InsertStep, ImportStep DEF Open
    <2>2. ASSUME NEW p \in Processes, Manage(p)
          PROVE  StartupInv'
        BY <2>2, CreateStep, DeleteStep DEF Manage
    <2>3. CASE UNCHANGED vars
        BY <2>3 DEF vars, StartupInv, Types, ProcessesInv, Sound, TableInv, ImportedOnce, Held
    <2>. QED
        BY <2>1, <2>2, <2>3, StartStep, PoolStep, StopStep DEF Next
<1>. QED
    BY <1>1, <1>2, PTL DEF Spec

\* StartupTypeOK: every variable has its type, the database has the schema of
\* whoever uses it, and no batch starts beyond the accounts there are
\* (storage.Open, pool.New).
THEOREM StartupTypes == Spec => []StartupTypeOK
<1>1. StartupInv => StartupTypeOK
    <2>. SUFFICES ASSUME StartupInv
                  PROVE  StartupTypeOK
        OBVIOUS
    <2>1. /\ db.schema \in {0} \cup Versions /\ db.verifier \in MasterKeys \cup {NoKey}
          /\ db.marker \in BOOLEAN /\ db.rows \in Seq([key: Credentials, mk: MasterKeys])
        BY DEF StartupInv, Types, Database, Sealed
    <2>2. ASSUME NEW p \in Processes
          PROVE  /\ proc[p].pc \in {"down", "migrate"} \cup Opening
                 /\ proc[p].mk \in MasterKeys \cup {NoKey} /\ proc[p].keys \in Seq(Credentials)
                 /\ proc[p].start \in 0..Len(proc[p].keys) /\ proc[p].catalogs \subseteq Catalogs
        <3>1. proc[p] \in Process /\ proc[p].start <= Len(proc[p].keys)
            BY DEF StartupInv, Types, ProcessesInv, Sound
        <3>2. proc[p].keys \in Seq(Credentials) /\ proc[p].start \in Nat
            BY <3>1 DEF Process
        <3>3. Len(proc[p].keys) \in Nat
            BY <3>2
        <3>. QED
            BY <3>1, <3>2, <3>3 DEF Process
    <2>. QED
        BY <2>1, <2>2 DEF StartupTypeOK, StartupInv, Types, ProcessesInv, Sound
<1>. QED
    BY <1>1, StartupInvariant, PTL

\* KeyKept: a database has one master key for ever, also when two first starts
\* race with different ones (verifyMasterKey, createAccount).
THEOREM OneMasterKey == Spec => []KeyKept
<1>1. StartupInv => KeyKept
    BY DEF StartupInv, TableInv, ProcessesInv, Sound, KeyKept, Passed
<1>. QED
    BY <1>1, StartupInvariant, PTL

\* ImportedOnce: the accounts of the old configuration come in once, all of
\* them and only into an empty database, and what was deleted stays deleted
\* (importLegacyOnce).
THEOREM ImportHappensOnce == Spec => []ImportedOnce
<1>1. StartupInv => ImportedOnce
    BY DEF StartupInv, TableInv
<1>. QED
    BY <1>1, StartupInvariant, PTL

(***************************************************************************)
(* The names of models.                                                    *)
(***************************************************************************)
\* Where a separator first is.
LEMMA CutFinds ==
    ASSUME NEW W, NEW id \in Seq(W), NEW sep
    PROVE  /\ Cut(id, sep) \in 0..Len(id)
           /\ Cut(id, sep) # 0 => /\ id[Cut(id, sep)] = sep
                                  /\ \A i \in 1..Cut(id, sep) - 1 : id[i] # sep
           /\ Cut(id, sep) = 0 => \A i \in 1..Len(id) : id[i] # sep
<1>. DEFINE I == {i \in 1..Len(id) : id[i] = sep}
<1>1. Len(id) \in Nat
    BY LenProperties
<1>2. Cut(id, sep) = IF I # {} THEN Min(I) ELSE 0
    BY DEF Cut, SelectInSeq
<1>3. I # {} => Min(I) \in I /\ \A i \in I : Min(I) <= i
    <2>1. I \subseteq Nat
        BY <1>1
    <2>. HIDE DEF I
    <2>. QED
        BY <2>1, MinOfNats
<1>4. CASE I = {}
    BY <1>1, <1>2, <1>4
<1>5. CASE I # {}
    <2>. DEFINE at == Min(I)
    <2>1. Cut(id, sep) = at /\ at \in I /\ \A i \in I : at <= i
        BY <1>2, <1>3, <1>5
    <2>. HIDE DEF at
    <2>. QED
        BY <1>1, <2>1
<1>. QED
    BY <1>4, <1>5

LEMMA PartsOfId ==
    ASSUME NEW W, NEW id \in Seq(W), NEW at \in 1..Len(id)
    PROVE  /\ Before(id, at) \in Seq(W) /\ Len(Before(id, at)) = at - 1
           /\ \A i \in 1..at - 1 : Before(id, at)[i] = id[i]
           /\ After(id, at) \in Seq(W) /\ Len(After(id, at)) = Len(id) - at
           /\ \A i \in 1..Len(id) - at : After(id, at)[i] = id[at + i]
<1>1. Len(id) \in Nat
    BY LenProperties
<1>2. /\ SubSeq(id, 1, at - 1) \in Seq(W) /\ Len(SubSeq(id, 1, at - 1)) = at - 1
      /\ \A i \in 1..at - 1 : SubSeq(id, 1, at - 1)[i] = id[i]
    BY <1>1, SubSeqProperties
<1>3. /\ SubSeq(id, at + 1, Len(id)) \in Seq(W) /\ Len(SubSeq(id, at + 1, Len(id))) = Len(id) - at
      /\ \A i \in 1..Len(id) - at : SubSeq(id, at + 1, Len(id))[i] = id[at + i]
    BY <1>1, SubSeqProperties
<1>. QED
    BY <1>2, <1>3 DEF Before, After

\* A short id is not empty.
LEMMA ShortIsId ==
    ASSUME NEW W, NEW id \in Seq(W), id # <<>>
    PROVE  shortModelID(id) \in Seq(W) /\ shortModelID(id) # <<>>
<1>. DEFINE at == Cut(id, "/")
<1>1. at \in 0..Len(id) /\ Len(id) \in Nat
    BY CutFinds, LenProperties
<1>2. shortModelID(id) = IF at \in {0, Len(id)} THEN id ELSE After(id, at)
    BY DEF shortModelID
<1>. HIDE DEF at
<1>3. CASE at \in {0, Len(id)}
    BY <1>2, <1>3
<1>4. CASE at \notin {0, Len(id)}
    <2>1. at \in 1..Len(id) /\ at < Len(id)
        BY <1>1, <1>4
    <2>2. After(id, at) \in Seq(W) /\ Len(After(id, at)) = Len(id) - at
        BY <2>1, PartsOfId
    <2>3. Len(After(id, at)) # 0
        BY <1>1, <2>1, <2>2
    <2>4. After(id, at) # <<>>
        BY <2>2, <2>3, EmptySeq
    <2>. QED
        BY <1>2, <1>4, <2>2, <2>4
<1>. QED
    BY <1>3, <1>4

\* The runner id says the author, a colon and the id.
LEMMA RunnerSaysId ==
    ASSUME NEW W, NEW id \in Seq(W), RunnerModelID(id) # id
    PROVE  \E at \in 2..Len(id) :
             /\ \A i \in 1..at - 1 : id[i] # ":" /\ RunnerModelID(id)[i] = id[i]
             /\ RunnerModelID(id)[at] = ":"
             /\ Len(RunnerModelID(id)) = at + Len(id)
             /\ \A i \in 1..Len(id) : RunnerModelID(id)[at + i] = id[i]
<1>. DEFINE at == Cut(id, "/")
            author == Before(id, at)
            V == W \cup {":"}
<1>1. at \in 0..Len(id) /\ Len(id) \in Nat
    BY CutFinds, LenProperties
<1>2. at \notin {0, 1} /\ Cut(author, ":") = 0 /\ RunnerModelID(id) = author \o <<":">> \o id
    BY DEF RunnerModelID
<1>. HIDE DEF at
<1>3. at \in 2..Len(id)
    BY <1>1, <1>2
<1>4. author \in Seq(W) /\ Len(author) = at - 1 /\ \A i \in 1..at - 1 : author[i] = id[i]
    BY <1>3, PartsOfId
<1>. HIDE DEF author
<1>5. \A i \in 1..at - 1 : author[i] # ":"
    BY <1>2, <1>4, CutFinds
<1>6. author \in Seq(V) /\ id \in Seq(V) /\ <<":">> \in Seq(V) /\ Len(<<":">>) = 1 /\ <<":">>[1] = ":"
    <2>1. W \subseteq V
        OBVIOUS
    <2>. HIDE DEF V
    <2>2. author \in Seq(V) /\ id \in Seq(V)
        BY <1>4, <2>1
    <2>3. ":" \in V
        BY DEF V
    <2>. QED
        BY <2>2, <2>3
<1>. HIDE DEF V
<1>. DEFINE head == author \o <<":">>
<1>7. /\ head \in Seq(V) /\ Len(head) = at /\ head[at] = ":"
      /\ \A i \in 1..at - 1 : head[i] = id[i]
    BY <1>3, <1>4, <1>6, ConcatProperties
<1>. HIDE DEF head
<1>8. /\ Len(head \o id) = at + Len(id)
      /\ \A i \in 1..at : (head \o id)[i] = head[i]
      /\ \A i \in 1..Len(id) : (head \o id)[at + i] = id[i]
    <2>1. /\ head \o id \in Seq(V) /\ Len(head \o id) = Len(head) + Len(id)
          /\ \A i \in 1..Len(head) + Len(id) :
               (head \o id)[i] = IF i <= Len(head) THEN head[i] ELSE id[i - Len(head)]
        BY <1>6, <1>7, ConcatProperties
    <2>. QED
        BY <1>1, <1>3, <1>7, <2>1
<1>9. RunnerModelID(id) = head \o id
    BY <1>2 DEF head
<1>10. ASSUME NEW i \in 1..at - 1
       PROVE  id[i] # ":" /\ RunnerModelID(id)[i] = id[i]
    BY <1>3, <1>4, <1>5, <1>7, <1>8, <1>9
<1>11. /\ RunnerModelID(id)[at] = ":" /\ Len(RunnerModelID(id)) = at + Len(id)
       /\ \A i \in 1..Len(id) : RunnerModelID(id)[at + i] = id[i]
    BY <1>3, <1>7, <1>8, <1>9
<1>. QED
    BY <1>3, <1>10, <1>11

\* Different models have different runner ids, unless one is named like the
\* runner id of the other.
LEMMA RunnersDiffer ==
    ASSUME NEW W, NEW m \in Seq(W), NEW n \in Seq(W), RunnerModelID(m) = RunnerModelID(n),
           RunnerModelID(m) # m, RunnerModelID(n) # n
    PROVE  m = n
<1>. DEFINE r == RunnerModelID(m)
<1>1. PICK at \in 2..Len(m) :
        /\ \A i \in 1..at - 1 : m[i] # ":" /\ r[i] = m[i]
        /\ r[at] = ":" /\ Len(r) = at + Len(m) /\ \A i \in 1..Len(m) : r[at + i] = m[i]
    BY RunnerSaysId
<1>2. PICK bt \in 2..Len(n) :
        /\ \A i \in 1..bt - 1 : n[i] # ":" /\ r[i] = n[i]
        /\ r[bt] = ":" /\ Len(r) = bt + Len(n) /\ \A i \in 1..Len(n) : r[bt + i] = n[i]
    BY RunnerSaysId
<1>. HIDE DEF r
<1>3. Len(m) \in Nat /\ Len(n) \in Nat
    BY LenProperties
<1>4. at = bt
    <2>1. ~(at < bt)
        BY <1>1, <1>2, <1>3
    <2>2. ~(bt < at)
        BY <1>1, <1>2, <1>3
    <2>. QED
        BY <2>1, <2>2
<1>5. Len(m) = Len(n)
    BY <1>1, <1>2, <1>3, <1>4
<1>6. \A i \in 1..Len(m) : m[i] = n[i]
    BY <1>1, <1>2, <1>4, <1>5
<1>. QED
    BY <1>3, <1>5, <1>6, SeqEqual

\* The id of a model when those in kept keep their whole id, the models whose
\* ids are then another's too, and the models that keep theirs after each round.
NameOf(kept, m) == IF m \in kept THEN m ELSE shortModelID(m)
Clashing(models, kept) ==
    {m \in models : \E n \in models \ {m} : NameOf(kept, m) \in {NameOf(kept, n), n}}
Rounds(g, models, size) ==
    g = [n \in 0..size |-> IF n = 0 THEN {} ELSE g[n - 1] \cup Clashing(models, g[n - 1])]

LEMMA RoundsExist ==
    ASSUME NEW models, NEW size \in Nat
    PROVE  \E g : Rounds(g, models, size)
<1>. DEFINE Has == {k \in Nat : \E g : Rounds(g, models, k)}
<1>1. 0 \in Has
    <2>. DEFINE g == [n \in 0..0 |-> {}]
    <2>1. Rounds(g, models, 0)
        BY DEF Rounds
    <2>. QED
        BY <2>1
<1>2. ASSUME NEW k \in Nat, k \in Has
      PROVE  k + 1 \in Has
    <2>1. PICK g : Rounds(g, models, k)
        BY <1>2
    <2>. DEFINE h == [n \in 0..k + 1 |-> IF n = k + 1 THEN g[k] \cup Clashing(models, g[k]) ELSE g[n]]
    <2>2. \A n \in 0..k : g[n] = IF n = 0 THEN {} ELSE g[n - 1] \cup Clashing(models, g[n - 1])
        BY <2>1 DEF Rounds
    <2>3. ASSUME NEW n \in 0..k + 1
          PROVE  h[n] = IF n = 0 THEN {} ELSE h[n - 1] \cup Clashing(models, h[n - 1])
        <3>1. CASE n = k + 1
            BY <3>1
        <3>2. CASE n # k + 1
            <4>1. n \in 0..k /\ h[n] = g[n] /\ (n # 0 => h[n - 1] = g[n - 1])
                BY <3>2
            <4>. QED
                BY <2>2, <4>1
        <3>. QED
            BY <3>1, <3>2
    <2>4. Rounds(h, models, k + 1)
        BY <2>3 DEF Rounds
    <2>. QED
        BY <2>4
<1>. HIDE DEF Has
<1>3. size \in Has
    BY <1>1, <1>2, NatInSet
<1>. QED
    BY <1>3 DEF Has

\* As many rounds as there are models are enough: each adds a model or
\* changes nothing.
LEMMA RoundsSettle ==
    ASSUME NEW models, IsFiniteSet(models), NEW g, Rounds(g, models, Cardinality(models))
    PROVE  LET last == g[Cardinality(models)] IN
           last \subseteq models /\ Clashing(models, last) \subseteq last
<1>. DEFINE size == Cardinality(models)
            Settled(n) == Clashing(models, g[n]) \subseteq g[n]
            Fine == {n \in Nat : n <= size => /\ g[n] \subseteq models
                                              /\ Cardinality(g[n]) >= n \/ Settled(n)}
<1>1. size \in Nat
    BY FS_CardinalityType
<1>2. \A n \in 0..size : g[n] = IF n = 0 THEN {} ELSE g[n - 1] \cup Clashing(models, g[n - 1])
    BY DEF Rounds
<1>. HIDE DEF size
<1>3. 0 \in Fine
    <2>1. 0 \in 0..size
        BY <1>1
    <2>2. g[0] = {}
        BY <1>2, <2>1
    <2>3. Cardinality(g[0]) = 0
        BY <2>2, FS_EmptySet
    <2>. HIDE DEF Settled
    <2>. QED
        BY <2>2, <2>3
<1>4. ASSUME NEW n \in Nat, n \in Fine
      PROVE  n + 1 \in Fine
    <2>. SUFFICES ASSUME n + 1 <= size
                  PROVE  /\ g[n + 1] \subseteq models
                         /\ Cardinality(g[n + 1]) >= n + 1 \/ Settled(n + 1)
        OBVIOUS
    <2>1. g[n] \subseteq models /\ (Cardinality(g[n]) >= n \/ Settled(n))
        BY <1>1, <1>4
    <2>2. g[n + 1] = g[n] \cup Clashing(models, g[n])
        <3>1. n + 1 \in 0..size /\ n + 1 # 0 /\ (n + 1) - 1 = n
            BY <1>1
        <3>. QED
            BY <1>2, <3>1
    <2>3. g[n + 1] \subseteq models
        BY <2>1, <2>2 DEF Clashing
    <2>4. CASE Settled(n)
        BY <2>2, <2>3, <2>4
    <2>5. CASE ~Settled(n)
        <3>1. g[n] \subseteq g[n + 1] /\ g[n] # g[n + 1]
            BY <2>2, <2>5
        <3>2. IsFiniteSet(g[n + 1])
            BY <2>3, FS_Subset
        <3>3. IsFiniteSet(g[n]) /\ Cardinality(g[n]) < Cardinality(g[n + 1])
            <4>1. IsFiniteSet(g[n]) /\ Cardinality(g[n]) <= Cardinality(g[n + 1])
                  /\ (Cardinality(g[n]) = Cardinality(g[n + 1]) => g[n] = g[n + 1])
                BY <3>1, <3>2, FS_Subset
            <4>2. Cardinality(g[n]) \in Nat /\ Cardinality(g[n + 1]) \in Nat
                BY <3>2, <4>1, FS_CardinalityType
            <4>. QED
                BY <3>1, <4>1, <4>2
        <3>4. Cardinality(g[n]) \in Nat /\ Cardinality(g[n + 1]) \in Nat
            BY <3>2, <3>3, FS_CardinalityType
        <3>. HIDE DEF Settled
        <3>. QED
            BY <2>1, <2>3, <2>5, <3>3, <3>4
    <2>. QED
        BY <2>4, <2>5
<1>. HIDE DEF Fine
<1>5. size \in Fine
    BY <1>1, <1>3, <1>4, NatInSet
<1>6. g[size] \subseteq models /\ (Cardinality(g[size]) >= size \/ Settled(size))
    BY <1>1, <1>5 DEF Fine
<1>7. CASE Cardinality(g[size]) >= size
    <2>1. Cardinality(g[size]) <= size /\ (Cardinality(g[size]) = size => g[size] = models)
          /\ Cardinality(g[size]) \in Nat
        BY <1>6, FS_Subset, FS_CardinalityType DEF size
    <2>2. g[size] = models
        BY <1>1, <1>7, <2>1
    <2>. QED
        BY <2>2 DEF Clashing, size
<1>. QED
    BY <1>6, <1>7 DEF size

\* What publicModelIDs computes.
LEMMA PublicIds ==
    ASSUME NEW models, IsFiniteSet(models)
    PROVE  \E kept \in SUBSET models :
             /\ publicModelIDs(models) = [m \in models |-> NameOf(kept, m)]
             /\ \A m \in models \ kept : \A n \in models \ {m} : NameOf(kept, m) \notin {NameOf(kept, n), n}
<1>. DEFINE size == Cardinality(models)
            c == CHOOSE g : Rounds(g, models, size)
<1>1. size \in Nat
    BY FS_CardinalityType
<1>2. Rounds(c, models, size)
    BY <1>1, RoundsExist
<1>3. publicModelIDs(models) = [m \in models |-> NameOf(c[size], m)]
    BY DEF publicModelIDs, Rounds, Clashing, NameOf
<1>. HIDE DEF c
<1>4. c[size] \subseteq models /\ Clashing(models, c[size]) \subseteq c[size]
    BY <1>2, RoundsSettle
<1>. HIDE DEF size
<1>5. \A m \in models \ c[size] : \A n \in models \ {m} : NameOf(c[size], m) \notin {NameOf(c[size], n), n}
    BY <1>4 DEF Clashing
<1>. QED
    BY <1>3, <1>4, <1>5

\* Models have different public ids, and none has the whole id of another.
LEMMA PublicIdsDiffer ==
    ASSUME NEW models, IsFiniteSet(models), NEW W, models \subseteq Seq(W), <<>> \notin models
    PROVE  LET public == publicModelIDs(models) IN
           /\ DOMAIN public = models
           /\ \A m \in models : public[m] \in {m, shortModelID(m)} /\ public[m] # <<>>
           /\ \A m, n \in models : public[m] \in {public[n], n} => m = n
<1>1. PICK kept \in SUBSET models :
        /\ publicModelIDs(models) = [m \in models |-> NameOf(kept, m)]
        /\ \A m \in models \ kept : \A n \in models \ {m} : NameOf(kept, m) \notin {NameOf(kept, n), n}
    BY PublicIds
<1>. DEFINE public == [m \in models |-> NameOf(kept, m)]
<1>2. \A m \in models : public[m] \in {m, shortModelID(m)} /\ public[m] # <<>>
    BY ShortIsId DEF NameOf
<1>3. ASSUME NEW m \in models, NEW n \in models, public[m] \in {public[n], n}, m # n
      PROVE  FALSE
    <2>1. m \in kept
        BY <1>1, <1>3
    <2>2. n \notin kept
        BY <1>3, <2>1 DEF NameOf
    <2>. QED
        BY <1>1, <1>3, <2>1, <2>2 DEF NameOf
<1>. QED
    BY <1>1, <1>2, <1>3

\* A model is found under its public and its whole id.
LEMMA IdsAreFound ==
    ASSUME NEW models, IsFiniteSet(models), models \subseteq Seq(STRING), <<>> \notin models,
           NEW public, public = publicModelIDs(models)
    PROVE  \A m \in models : \A id \in {m, public[m]} : Model(public, id) = {m}
<1>1. /\ DOMAIN public = models
      /\ \A m, n \in models : public[m] \in {public[n], n} => m = n
    BY PublicIdsDiffer
<1>. SUFFICES ASSUME NEW m \in models, NEW id \in {m, public[m]}
              PROVE  Model(public, id) = {m}
    OBVIOUS
<1>2. {k \in models : id \in {k, public[k]}} = {m}
    BY <1>1
<1>. QED
    BY <1>1, <1>2 DEF Model

\* And under its runner id, unless another model has that id.
LEMMA ModelsAreFound ==
    ASSUME NEW models, IsFiniteSet(models), models \subseteq Seq(STRING), <<>> \notin models,
           NEW public, public = publicModelIDs(models), NEW m \in models, ~Doubled(public, m)
    PROVE  Model(public, RunnerModelID(m)) = {m}
<1>1. DOMAIN public = models
    BY PublicIdsDiffer
<1>. DEFINE id == RunnerModelID(m)
            byID == {k \in models : id \in {k, public[k]}}
            byRunner == {k \in models : id = RunnerModelID(k)}
<1>2. Model(public, id) = IF byID # {} THEN byID ELSE byRunner
    BY <1>1 DEF Model
<1>3. CASE id \in {m, public[m]}
    <2>1. \A k \in models : \A i \in {k, public[k]} : Model(public, i) = {k}
        BY IdsAreFound
    <2>. QED
        BY <1>3, <2>1
<1>4. CASE id \notin {m, public[m]}
    <2>1. ASSUME NEW k \in byID
          PROVE  FALSE
        <3>1. k \in models \ {m} /\ id \in {k, public[k]}
            BY <1>4
        <3>. QED
            BY <1>1, <3>1 DEF Doubled
    <2>2. byRunner = {m}
        <3>1. ASSUME NEW k \in byRunner
              PROVE  k = m
            <4>1. RunnerModelID(k) # k
                BY <2>1
            <4>2. m \in Seq(STRING) /\ k \in Seq(STRING) /\ id = RunnerModelID(k)
                OBVIOUS
            <4>. QED
                BY <1>4, <4>1, <4>2, RunnersDiffer
        <3>2. m \in byRunner
            OBVIOUS
        <3>. HIDE DEF byRunner
        <3>. QED
            BY <3>1, <3>2
    <2>3. byID = {}
        BY <2>1
    <2>. HIDE DEF byID, byRunner
    <2>. QED
        BY <1>2, <2>2, <2>3
<1>. QED
    BY <1>3, <1>4

\* What is found under an id is what the id stands for.
LEMMA FoundResolves ==
    ASSUME NEW public, NEW m, NEW id, Model(public, id) = {m}
    PROVE  ResolveModel(public, id) = RunnerModelID(m) /\ PublicModelID(public, id) = public[m]
<1>1. (CHOOSE k \in {m} : TRUE) = m
    OBVIOUS
<1>. QED
    BY <1>1 DEF ResolveModel, PublicModelID

\* The short name of a configured default is not empty.
LEMMA DefaultIsNamed ==
    /\ Default # <<>> => configuredModelShortID(Default) # <<>>
    /\ Default = <<>> => configuredModelShortID(Default) = <<>>
<1>. DEFINE at == Cut(Default, ":")
            model == After(Default, at)
<1>1. Default \in Seq(STRING) /\ (Default = <<>> \/ validUpstreamModelName(Default))
    BY NamesAssumption DEF NamesAssumption
<1>2. at \in 0..Len(Default) /\ Len(Default) \in Nat
    BY <1>1, CutFinds, LenProperties
<1>3. configuredModelShortID(Default) = shortModelID(model)
    BY DEF configuredModelShortID
<1>4. ASSUME Default # <<>>
      PROVE  configuredModelShortID(Default) # <<>>
    <2>1. at > 1 /\ Cut(model, "/") # 0
        BY <1>1, <1>4 DEF validUpstreamModelName
    <2>. HIDE DEF at
    <2>2. at \in 1..Len(Default)
        BY <1>2, <2>1
    <2>3. model \in Seq(STRING)
        BY <1>1, <2>2, PartsOfId
    <2>. HIDE DEF model
    <2>4. Cut(model, "/") \in 0..Len(model) /\ Len(model) \in Nat
        BY <2>3, CutFinds, LenProperties
    <2>5. Len(model) # 0
        BY <2>1, <2>4
    <2>6. model # <<>>
        BY <2>5, EmptySeq
    <2>. QED
        BY <1>3, <2>3, <2>6, ShortIsId
<1>5. ASSUME Default = <<>>
      PROVE  configuredModelShortID(Default) = <<>>
    <2>1. at = 0
        BY <1>2, <1>5, EmptySeq
    <2>. HIDE DEF at
    <2>2. model = <<>>
        BY <1>5, <2>1, EmptySeq DEF After
    <2>. HIDE DEF model
    <2>3. Cut(<<>>, "/") = 0
        <3>1. <<>> \in Seq(STRING) /\ Len(<<>>) = 0
            BY EmptySeq
        <3>2. Cut(<<>>, "/") \in 0..Len(<<>>)
            BY <3>1, CutFinds
        <3>. QED
            BY <3>1, <3>2
    <2>. QED
        BY <1>3, <2>2, <2>3 DEF shortModelID
<1>. QED
    BY <1>4, <1>5

\* The short name of a default is another than its name.
LEMMA ShortNameIsShorter ==
    ASSUME Default # <<>>
    PROVE  configuredModelShortID(Default) # Default
<1>. DEFINE at == Cut(Default, ":")
            model == After(Default, at)
            bt == Cut(model, "/")
<1>1. Default \in Seq(STRING) /\ at > 1 /\ bt \notin {0, 1, Len(model)}
    BY NamesAssumption DEF NamesAssumption, validUpstreamModelName
<1>2. at \in 0..Len(Default) /\ Len(Default) \in Nat
    BY <1>1, CutFinds, LenProperties
<1>3. configuredModelShortID(Default) = IF bt \in {0, Len(model)} THEN model ELSE After(model, bt)
    BY DEF configuredModelShortID, shortModelID
<1>. HIDE DEF at
<1>4. at \in 1..Len(Default)
    BY <1>1, <1>2
<1>5. model \in Seq(STRING) /\ Len(model) = Len(Default) - at
    BY <1>1, <1>4, PartsOfId
<1>. HIDE DEF model
<1>6. bt \in 0..Len(model) /\ Len(model) \in Nat
    BY <1>5, CutFinds, LenProperties
<1>. HIDE DEF bt
<1>7. bt \in 1..Len(model)
    BY <1>1, <1>6
<1>8. Len(After(model, bt)) = Len(model) - bt
    BY <1>5, <1>7, PartsOfId
<1>9. configuredModelShortID(Default) = After(model, bt)
    BY <1>1, <1>3
<1>10. Len(configuredModelShortID(Default)) # Len(Default)
    BY <1>2, <1>4, <1>5, <1>6, <1>7, <1>8, <1>9
<1>. QED
    BY <1>10

\* Whatever else is found, it is not the default while that is not discovered.
LEMMA FoundIsNotDefault ==
    ASSUME NEW public, Model(public, Default) = {}
    PROVE  /\ \A m \in DOMAIN public : RunnerModelID(m) # Default
           /\ \A id : id # Default => ResolveModel(public, id) # Default
<1>1. \A m \in DOMAIN public : RunnerModelID(m) # Default
    <2>. SUFFICES ASSUME NEW m \in DOMAIN public, RunnerModelID(m) = Default
                  PROVE  FALSE
        OBVIOUS
    <2>. DEFINE byID == {k \in DOMAIN public : Default \in {k, public[k]}}
                byRunner == {k \in DOMAIN public : Default = RunnerModelID(k)}
    <2>1. Model(public, Default) = IF byID # {} THEN byID ELSE byRunner
        BY DEF Model
    <2>2. m \in byRunner
        OBVIOUS
    <2>. HIDE DEF byID, byRunner
    <2>. QED
        BY <2>1, <2>2
<1>2. ASSUME NEW id, id # Default
      PROVE  ResolveModel(public, id) # Default
    <2>1. CASE Model(public, id) = {}
        BY <1>2, <2>1 DEF ResolveModel
    <2>2. CASE Model(public, id) # {}
        <3>. DEFINE k == CHOOSE m \in Model(public, id) : TRUE
        <3>1. k \in Model(public, id) /\ ResolveModel(public, id) = RunnerModelID(k)
            BY <2>2 DEF ResolveModel
        <3>. HIDE DEF k
        <3>2. k \in DOMAIN public
            BY <3>1 DEF Model
        <3>. QED
            BY <1>1, <3>1, <3>2
    <2>. QED
        BY <2>1, <2>2
<1>. QED
    BY <1>1, <1>2

\* An id that is neither an alias nor a public id is listed for a default nobody
\* has discovered.
LEMMA ListedForDefault ==
    ASSUME NEW public, NEW id \in Models(public), id # <<>>,
           id \notin DOMAIN Aliases, id \notin Range(public),
           \A m \in DOMAIN public : public[m] # <<>>
    PROVE  MeansDefault(public, id)
<1>1. Default # <<>> /\ id = DefaultID(public)
    BY DEF Models
<1>2. Model(public, Default) = {}
    <2>. SUFFICES ASSUME Model(public, Default) # {}
                  PROVE  FALSE
        OBVIOUS
    <2>. DEFINE k == CHOOSE m \in Model(public, Default) : TRUE
    <2>1. k \in Model(public, Default) /\ PublicModelID(public, Default) = public[k]
        BY DEF PublicModelID
    <2>. HIDE DEF k
    <2>2. public[k] \in Range(public)
        BY <2>1 DEF Model, Range
    <2>. QED
        BY <1>1, <2>1, <2>2 DEF DefaultID, Model
<1>. QED
    BY <1>1, <1>2 DEF MeansDefault, Resolve, DefaultID, PublicModelID

\* The name in the answer to what is taken for the default.
LEMMA DefaultAnswers ==
    ASSUME NEW public, NEW id, MeansDefault(public, id)
    PROVE  /\ resolveModel(public, id) = Default /\ Model(public, Default) = {}
           /\ id \notin DOMAIN Aliases =>
                publicModelID(public, id, Default) = configuredModelShortID(id)
<1>1. id # <<>> /\ Model(public, Default) = {}
    BY DEF MeansDefault
<1>2. ResolveModel(public, Default) = Default /\ PublicModelID(public, Default) = <<>>
    BY <1>1 DEF ResolveModel, PublicModelID
<1>. QED
    BY <1>1, <1>2 DEF resolveModel, publicModelID

\* A doubled model is answered under the id of the other one.
LEMMA ModelAnswers ==
    ASSUME NEW models, IsFiniteSet(models), models \subseteq Seq(STRING), <<>> \notin models,
           NEW public, public = publicModelIDs(models), NEW m \in models,
           public[m] \notin DOMAIN Aliases
    PROVE  (publicModelID(public, public[m], RunnerModelID(m)) # public[m]) <=> Doubled(public, m)
<1>0. \A k \in models : \A i \in {k, public[k]} : Model(public, i) = {k}
    BY IdsAreFound, SMTT(30)
<1>1. /\ DOMAIN public = models
      /\ \A k \in models : public[k] # <<>>
      /\ \A k, n \in models : public[k] \in {public[n], n} => k = n
    BY PublicIdsDiffer
<1>2. ASSUME NEW n \in models, Model(public, RunnerModelID(m)) = {n}
      PROVE  publicModelID(public, public[m], RunnerModelID(m)) = public[n]
    <2>1. PublicModelID(public, RunnerModelID(m)) = public[n]
        BY <1>2, FoundResolves
    <2>. QED
        BY <1>1, <2>1 DEF publicModelID
<1>3. CASE ~Doubled(public, m)
    <2>1. Model(public, RunnerModelID(m)) = {m}
        BY <1>3, ModelsAreFound
    <2>. QED
        BY <1>2, <1>3, <2>1
<1>4. CASE Doubled(public, m)
    <2>1. PICK n \in models \ {m} : RunnerModelID(m) \in {n, public[n]}
        BY <1>1, <1>4 DEF Doubled
    <2>2. Model(public, RunnerModelID(m)) = {n}
        BY <1>0, <2>1
    <2>3. public[n] # public[m]
        BY <1>1, <2>1
    <2>. QED
        BY <1>2, <1>4, <2>1, <2>2, <2>3
<1>. QED
    BY <1>3, <1>4

\* Every id /v1/models lists leads to what it is listed for unless it is
\* ambiguous, and the answer carries it unless it is renamed.
LEMMA NamesResolve ==
    ASSUME NEW models, IsFiniteSet(models), models \subseteq Seq(STRING), <<>> \notin models,
           NEW public, public = publicModelIDs(models), NEW id \in Models(public), id # <<>>
    PROVE  /\ (resolveModel(public, id) # Target(public, id)) <=> Ambiguous(public, id)
           /\ Ambiguous(public, id) => resolveModel(public, id) = Default
           /\ (publicModelID(public, id, resolveModel(public, id)) # id) <=> Renamed(public, id)
<1>1. /\ DOMAIN public = models
      /\ \A m \in models : public[m] # <<>>
      /\ \A m, n \in models : public[m] \in {public[n], n} => m = n
    BY PublicIdsDiffer
<1>2. CASE MeansDefault(public, id) /\ id \in DOMAIN Aliases
    <2>1. Resolve(id) = id /\ id = configuredModelShortID(Default)
        BY <1>2 DEF MeansDefault
    <2>2. Default # <<>> /\ id # Default
        BY <2>1, DefaultIsNamed, ShortNameIsShorter
    <2>3. Target(public, id) = ResolveModel(public, id)
        BY <1>2, <2>1 DEF Target, Resolve
    <2>4. resolveModel(public, id) = Default /\ Target(public, id) # Default
        BY <1>2, <2>2, <2>3, DefaultAnswers, FoundIsNotDefault
    <2>5. publicModelID(public, id, resolveModel(public, id)) = id /\ ~Renamed(public, id)
        BY <1>2 DEF publicModelID, Renamed
    <2>. QED
        BY <1>2, <2>4, <2>5 DEF Ambiguous
<1>3. CASE MeansDefault(public, id) /\ id \notin DOMAIN Aliases
    <2>1. resolveModel(public, id) = Default /\ Model(public, Default) = {}
        BY <1>3, DefaultAnswers
    <2>2. (publicModelID(public, id, resolveModel(public, id)) # id) <=> Renamed(public, id)
        BY <1>3, <2>1, DefaultAnswers DEF Renamed
    <2>3. ASSUME id \in Range(public)
          PROVE  Target(public, id) # Default
        <3>1. PICK m \in models : public[m] = id
            BY <1>1, <2>3 DEF Range
        <3>2. Listed(public, id) \in models
            BY <1>1, <3>1 DEF Listed
        <3>3. Target(public, id) = RunnerModelID(Listed(public, id))
            BY <1>3, <2>3 DEF Target
        <3>. QED
            BY <1>1, <2>1, <3>2, <3>3, FoundIsNotDefault
    <2>4. ASSUME id \notin Range(public)
          PROVE  Target(public, id) = Default
        BY <1>3, <2>1, <2>4 DEF Target, ResolveModel
    <2>. QED
        BY <1>3, <2>1, <2>2, <2>3, <2>4 DEF Ambiguous
<1>4. CASE ~MeansDefault(public, id) /\ id \in DOMAIN Aliases
    <2>1. resolveModel(public, id) = Target(public, id)
        BY <1>4 DEF resolveModel, Target, Resolve
    <2>2. publicModelID(public, id, resolveModel(public, id)) = id
        BY <1>4 DEF publicModelID
    <2>. QED
        BY <1>4, <2>1, <2>2 DEF Ambiguous, Renamed
<1>5. CASE ~MeansDefault(public, id) /\ id \notin DOMAIN Aliases
    <2>1. id \in Range(public)
        BY <1>1, <1>5, ListedForDefault
    <2>2. PICK m \in models : id = public[m]
        BY <1>1, <2>1 DEF Range
    <2>3. Listed(public, id) = m
        BY <1>1, <2>2 DEF Listed
    <2>4. Model(public, id) = {m}
        <3>1. \A k \in models : \A i \in {k, public[k]} : Model(public, i) = {k}
            BY IdsAreFound, SMTT(30)
        <3>. QED
            BY <2>2, <3>1
    <2>5. resolveModel(public, id) = RunnerModelID(m)
        BY <1>5, <2>4, FoundResolves DEF resolveModel, Resolve
    <2>6. Target(public, id) = RunnerModelID(m)
        BY <1>5, <2>1, <2>3 DEF Target
    <2>7. (publicModelID(public, id, RunnerModelID(m)) # id) <=> Doubled(public, m)
        BY <1>5, <2>2, ModelAnswers
    <2>. QED
        BY <1>5, <2>3, <2>5, <2>6, <2>7 DEF Ambiguous, Renamed
<1>. QED
    BY <1>2, <1>3, <1>4, <1>5

\* The models all catalogs have are finitely many and in each of them.
LEMMA CommonIsCommon ==
    ASSUME NEW k \in SUBSET Catalogs
    PROVE  /\ IsFiniteSet(commonModels(k)) /\ \A c \in k : commonModels(k) \subseteq c
           /\ commonModels(k) \subseteq Seq(STRING) /\ <<>> \notin commonModels(k)
           /\ commonModels(k) # {} => k # {}
<1>1. \A c \in k : commonModels(k) \subseteq c
    BY DEF commonModels
<1>2. CASE k = {}
    <2>1. commonModels(k) = {}
        BY <1>2 DEF commonModels
    <2>. QED
        BY <1>2, <2>1, FS_EmptySet
<1>3. CASE k # {}
    <2>1. PICK c \in k : TRUE
        BY <1>3
    <2>2. IsFiniteSet(c) /\ c \subseteq Seq(STRING) /\ <<>> \notin c
        BY <2>1, CatalogsAssumption DEF CatalogsAssumption
    <2>3. IsFiniteSet(commonModels(k))
        BY <1>1, <2>1, <2>2, FS_Subset
    <2>. QED
        BY <1>1, <1>3, <2>1, <2>2, <2>3
<1>. QED
    BY <1>2, <1>3

\* A process that serves has named the models its catalogs have in common.
NamedInv ==
    \A p \in Processes : At(p, "serve") =>
        proc[p].public = publicModelIDs(commonModels(proc[p].catalogs))

LEMMA GotoNames ==
    ASSUME Types, NamedInv, NEW p \in Processes, NEW l, l # "serve", Goto(p, l)
    PROVE  NamedInv'
<1>1. \A q \in Processes \ {p} : proc'[q] = proc[q]
    BY DEF Types, Goto
<1>2. proc[p] \in Process
    BY DEF Types
<1>3. proc'[p] = [proc[p] EXCEPT !.pc = l]
    BY DEF Types, Goto
<1>4. proc'[p].pc = l
    BY <1>2, <1>3 DEF Process
<1>. QED
    BY <1>1, <1>4 DEF NamedInv, At

LEMMA ServedNames ==
    ASSUME Types, NamedInv, NEW p \in Processes, bootstrap(p)
    PROVE  NamedInv'
<1>. DEFINE w == proc[p]
            end == BatchEnd(w.start, Len(w.keys))
            Known(ready) == IF \E r \in ready : r.catalogs = {} THEN {}
                            ELSE UNION {r.catalogs : r \in ready}
<1>1. PICK results \in [w.start + 1..end -> Results] :
        LET ready == {r \in Range(results) : r.ready} IN
        proc' = [proc EXCEPT ![p] = IF ready # {} \/ end = Len(w.keys) THEN Served(w, ready)
                                    ELSE [w EXCEPT !.start = end]]
    BY DEF bootstrap
<1>. DEFINE ready == {r \in Range(results) : r.ready}
            known == Known(ready)
            names == publicModelIDs(commonModels(known))
<1>2. w \in Process /\ w.pc = "pool"
    BY DEF Types, bootstrap, At
<1>3. Served(w, ready) = [w EXCEPT !.pc = "serve", !.keys = <<>>, !.start = 0,
                                   !.catalogs = known, !.public = names]
    BY DEF Served
<1>. HIDE DEF end, ready, known, names, w
<1>4. Served(w, ready).catalogs = known /\ Served(w, ready).public = names
    BY <1>2, <1>3 DEF Process
<1>5. [w EXCEPT !.start = end].pc = "pool"
    BY <1>2 DEF Process
<1>6. proc'[p] \in {Served(w, ready), [w EXCEPT !.start = end]}
    BY <1>1 DEF Types, end, ready, w
<1>7. \A q \in Processes \ {p} : proc'[q] = proc[q]
    BY <1>1 DEF Types
<1>8. proc'[p].pc = "serve" => proc'[p].public = publicModelIDs(commonModels(proc'[p].catalogs))
    BY <1>4, <1>5, <1>6 DEF names
<1>. QED
    BY <1>7, <1>8 DEF NamedInv, At

LEMMA NamedAlways == Spec => []NamedInv
<1>1. Init => NamedInv
    BY DEF Init, NamedInv, At, NotRunning
<1>2. Types /\ NamedInv /\ [Next]_vars => NamedInv'
    <2>. SUFFICES ASSUME Types, NamedInv, [Next]_vars
                  PROVE  NamedInv'
        OBVIOUS
    <2>1. ASSUME NEW p \in Processes, NEW v, v.pc # "serve", proc' = [proc EXCEPT ![p] = v]
          PROVE  NamedInv'
        <3>1. proc'[p] = v /\ \A q \in Processes \ {p} : proc'[q] = proc[q]
            BY <2>1 DEF Types
        <3>. QED
            BY <2>1, <3>1 DEF NamedInv, At
    <2>2. ASSUME NEW p \in Processes, Open(p)
          PROVE  NamedInv'
        BY <2>2, GotoNames DEF Open, migrate, verifyMasterKey, insertVerifier, rereadVerifier,
                               importLegacyOnce, validate
    <2>3. ASSUME NEW p \in Processes, NEW mk \in MasterKeys, NEW v \in Versions, Start(p, mk, v)
          PROVE  NamedInv'
        <3>1. proc' = [proc EXCEPT ![p] = [NotRunning EXCEPT !.pc = "migrate", !.mk = mk, !.latest = v]]
            BY <2>3 DEF Start
        <3>2. [NotRunning EXCEPT !.pc = "migrate", !.mk = mk, !.latest = v].pc # "serve"
            BY DEF NotRunning
        <3>. QED
            BY <2>1, <3>1, <3>2
    <2>4. ASSUME NEW p \in Processes, PoolKeys(p)
          PROVE  NamedInv'
        <3>. DEFINE keys == [i \in DOMAIN db.rows |-> db.rows[i].key]
                    v == [proc[p] EXCEPT !.pc = "pool", !.keys = keys]
        <3>1. proc[p] \in Process /\ proc' = [proc EXCEPT ![p] = v]
            BY <2>4 DEF Types, PoolKeys
        <3>. HIDE DEF keys
        <3>2. v.pc # "serve"
            BY <3>1 DEF Process
        <3>. HIDE DEF v
        <3>. QED
            BY <2>1, <3>1, <3>2
    <2>5. ASSUME NEW p \in Processes, Stop(p)
          PROVE  NamedInv'
        <3>1. NotRunning.pc # "serve"
            BY DEF NotRunning
        <3>. QED
            BY <2>1, <2>5, <3>1 DEF Stop
    <2>6. ASSUME UNCHANGED proc
          PROVE  NamedInv'
        BY <2>6 DEF NamedInv, At
    <2>. QED
        BY <2>2, <2>3, <2>4, <2>5, <2>6, ServedNames
           DEF Next, vars, Manage, CreateAccount, DeleteAccount
<1>3. StartupInv => Types
    BY DEF StartupInv
<1>. QED
    BY <1>1, <1>2, <1>3, StartupInvariant, PTL DEF Spec

\* Whatever the names, models a process serves keep different public ids, each
\* is found under its public and its whole id, and every account that was ready
\* has it (publicModelIDs, commonModels, Pool.ResolveModel).
ModelsApart ==
    \A p \in Processes : At(p, "serve") =>
        LET public == proc[p].public IN
        /\ \A m, n \in DOMAIN public : public[m] = public[n] => m = n
        /\ \A m \in DOMAIN public :
             /\ \A id \in {m, public[m]} : ResolveModel(public, id) = RunnerModelID(m)
             /\ \A c \in proc[p].catalogs : m \in c

LEMMA ServedModels ==
    ASSUME Types, NamedInv, NEW p \in Processes, At(p, "serve")
    PROVE  LET models == commonModels(proc[p].catalogs) IN
           /\ proc[p].public = publicModelIDs(models) /\ DOMAIN proc[p].public = models
           /\ IsFiniteSet(models) /\ models \subseteq Seq(STRING) /\ <<>> \notin models
           /\ \A c \in proc[p].catalogs : c \in Catalogs /\ models \subseteq c
           /\ models # {} => proc[p].catalogs # {}
<1>1. proc[p].catalogs \in SUBSET Catalogs
    BY DEF Types, Process
<1>. DEFINE models == commonModels(proc[p].catalogs)
<1>2. /\ IsFiniteSet(models) /\ models \subseteq Seq(STRING) /\ <<>> \notin models
      /\ \A c \in proc[p].catalogs : c \in Catalogs /\ models \subseteq c
      /\ models # {} => proc[p].catalogs # {}
    BY <1>1, CommonIsCommon
<1>3. proc[p].public = publicModelIDs(models)
    BY DEF NamedInv
<1>. HIDE DEF models
<1>4. DOMAIN publicModelIDs(models) = models
    BY <1>2, PublicIdsDiffer
<1>. QED
    BY <1>2, <1>3, <1>4 DEF models

LEMMA ModelsStayApart ==
    ASSUME Types, NamedInv
    PROVE  ModelsApart
<1>. SUFFICES ASSUME NEW p \in Processes, At(p, "serve"), NEW public, public = proc[p].public
              PROVE  /\ \A m, n \in DOMAIN public : public[m] = public[n] => m = n
                     /\ \A m \in DOMAIN public :
                          /\ \A id \in {m, public[m]} : ResolveModel(public, id) = RunnerModelID(m)
                          /\ \A c \in proc[p].catalogs : m \in c
    BY DEF ModelsApart
<1>1. PICK models : /\ public = publicModelIDs(models) /\ DOMAIN public = models
                    /\ IsFiniteSet(models) /\ models \subseteq Seq(STRING) /\ <<>> \notin models
                    /\ \A c \in proc[p].catalogs : models \subseteq c
    BY ServedModels
<1>2. \A m, n \in models : public[m] = public[n] => m = n
    BY <1>1, PublicIdsDiffer
<1>3. ASSUME NEW m \in models, NEW id \in {m, public[m]}
      PROVE  ResolveModel(public, id) = RunnerModelID(m)
    <2>1. \A k \in models : \A i \in {k, public[k]} : Model(public, i) = {k}
        BY <1>1, IdsAreFound
    <2>2. Model(public, id) = {m}
        BY <1>3, <2>1
    <2>. QED
        BY <2>2, FoundResolves
<1>. QED
    BY <1>1, <1>2, <1>3

\* CatalogResolves: whatever the catalogs, the default and the aliases, ids are
\* mixed up where they are ambiguous and an answer has another id where that is
\* renamed, and nowhere else (Gateway.resolveModel, Gateway.publicModelID,
\* Gateway.Models, Pool.ResolveModel).
THEOREM IdsLeadWhereListed == Spec => []CatalogResolves
<1>1. ASSUME Types, NamedInv
      PROVE  CatalogResolves
    <2>. SUFFICES ASSUME NEW p \in Processes, At(p, "serve"), NEW public, public = proc[p].public
                  PROVE  /\ \A m \in DOMAIN public :
                              Doubled(public, m) \/ ResolveModel(public, RunnerModelID(m)) = RunnerModelID(m)
                         /\ \A id \in Models(public) \ {<<>>} :
                              /\ (resolveModel(public, id) # Target(public, id)) <=> Ambiguous(public, id)
                              /\ Ambiguous(public, id) => resolveModel(public, id) = Default
                              /\ (publicModelID(public, id, resolveModel(public, id)) # id)
                                   <=> Renamed(public, id)
        BY <1>1, ModelsStayApart DEF CatalogResolves, ModelsApart
    <2>1. PICK models : /\ public = publicModelIDs(models) /\ DOMAIN public = models
                        /\ IsFiniteSet(models) /\ models \subseteq Seq(STRING) /\ <<>> \notin models
        BY <1>1, ServedModels
    <2>2. ASSUME NEW m \in models, ~Doubled(public, m)
          PROVE  ResolveModel(public, RunnerModelID(m)) = RunnerModelID(m)
        <3>1. Model(public, RunnerModelID(m)) = {m}
            BY <2>1, <2>2, ModelsAreFound
        <3>. QED
            BY <3>1, FoundResolves
    <2>3. ASSUME NEW id \in Models(public) \ {<<>>}
          PROVE  /\ (resolveModel(public, id) # Target(public, id)) <=> Ambiguous(public, id)
                 /\ Ambiguous(public, id) => resolveModel(public, id) = Default
                 /\ (publicModelID(public, id, resolveModel(public, id)) # id) <=> Renamed(public, id)
        BY <2>1, NamesResolve
    <2>. QED
        BY <2>1, <2>2, <2>3
<1>2. StartupInv => Types
    BY DEF StartupInv
<1>. QED
    BY <1>1, <1>2, StartupInvariant, NamedAlways, PTL
=============================================================================

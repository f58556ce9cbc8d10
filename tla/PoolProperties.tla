--------------------------- MODULE PoolProperties ---------------------------
(***************************************************************************)
(* What must hold of the account pool.                                     *)
(***************************************************************************)
EXTENDS Pool

\* Every variable of the pool, of its callers and of the table has its type;
\* in particular an initialization never has fewer than zero attempts left.
TypeOK ==
    /\ row \in [Ids -> Row]
    /\ nextId \in Nat
    /\ acct \in [Ids -> Account]
    /\ configured \in Seq(Ids)
    /\ accounts \in Seq(Ids)
    /\ warmStart \in Nat
    /\ holder \in Workers \cup {Nobody}
    /\ pc \in [Procs -> Label]
    /\ job \in [Procs -> Job]
    /\ spent \in [calls: Nat, faults: Nat, rotations: Nat]
    /\ suspect \subseteq Ids

\* An account never gets a second slot, although Warm, ReloadKeys, SetEnabled
\* and Refresh may all bring it to addReady: the round robin and Len would
\* count it twice.
OneSlotEach ==
    \A i, j \in 1..Len(accounts) : accounts[i] = accounts[j] => i = j

\* An account that has not been initialized is initialized by one goroutine at
\* a time, unless a credential was replaced, which the program never does: Warm
\* runs without reconcileMu, so initing is all that keeps them apart.  One that
\* is initialized may be by two: claimInit reads it before it swaps initing, and
\* a deferred releaseInit may take another's claim away.
Initializing(p, a) == pc[p] \in {"init", "apply"} /\ job[p].a = a
SingleInitializer ==
    spent.rotations = 0 =>
        \A p, q \in Procs, a \in Ids :
            Initializing(p, a) /\ Initializing(q, a) => p = q \/ acct[a].initialized

\* A claim (initing) always belongs to an operation still under way: a leaked
\* claim would answer ErrInitializationInProgress for ever.
Claiming(p) == {"init", "apply", "ok", "failed"} \cup
               (IF job[p].claimed
                THEN {"rollback", "unrow", "persist", "enabled", "adding", "append", "unlock"}
                ELSE {})
ClaimOwned ==
    \A a \in Ids : acct[a].initing =>
        \E p \in Procs : job[p].a = a /\ pc[p] \in Claiming(p)

\* Claims keep first initializations apart and never outlive their operation.
ClaimsExclusive == SingleInitializer /\ ClaimOwned

\* A conversation never starts on an account without project and agent.
SelectableInitialized ==
    \A a \in Ids : Selectable(a) => acct[a].initialized

\* The project and agent of an initialized account belong to the key it has
\* now, however late an initialization with an older key comes back.  Only
\* while installCandidate has given it a key that does not work, and has yet to
\* store that it is not initialized, it has none; then it is out of selection.
Installing(a) == \E p \in Workers : At(p, "installed") /\ job[p].a = a
SettingsMatchKey ==
    \A a \in Ids : acct[a].initialized =>
        \/ acct[a].settings = acct[a].key.ver
        \/ acct[a].settings = -1 /\ Installing(a) /\ ~Selectable(a)

\* The pool only ever serves initialized accounts and between operations
\* exactly those the table has enabled.  The exceptions are the accounts in
\* suspect: those set from rows read before a concurrent change, or whose
\* write failed.
AtRest(a) == holder = Nobody /\ job[Warmer].a # a
PoolFollowsStore ==
    /\ SelectableInitialized
    /\ \A a \in Known \ suspect : AtRest(a) =>
         /\ Selectable(a) => row[a].state = "on"
         /\ row[a].state = "on" /\ acct[a].initialized => Selectable(a)

\* The same without exceptions, for an account the table has disabled: the
\* comment on Remove says the account is out of selection permanently.
ExhaustedStaysOut ==
    \A a \in Known : AtRest(a) /\ row[a].state = "off" => ~Selectable(a)

\* Every operation of the pool returns, every lock is handed on, and Warm gets
\* through the configured accounts, whatever it has to skip.
EveryCallReturns ==
    /\ \A p \in Workers : pc[p] # "idle" ~> pc[p] = "idle"
    /\ <>(pc[Warmer] = "done")

\* The pool implements Roster.
R == INSTANCE Roster WITH
       slots    <- accounts,
       disabled <- {a \in Ids : acct[a].disabled},
       removed  <- {a \in Ids : acct[a].removed}
ImplementsRoster == R!RosterSpec
=============================================================================

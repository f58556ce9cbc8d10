-------------------------------- MODULE Pool --------------------------------
(***************************************************************************)
(* The account pool (internal/pool/pool.go) beside the accounts table it   *)
(* is reconciled with (internal/storage/store.go, reached through the      *)
(* AccountRepository interface).  Goroutines call the pool concurrently:   *)
(* one Warm, and any number of callers of ReloadKeys, SetEnabledReason,    *)
(* DeleteByID, Remove and Refresh.  reconcileMu serialises those           *)
(* operations; Warm, At and PickExcept never take it and read the atomics  *)
(* of an account at any moment.  One step is one critical section of mu or *)
(* stateMu, one store call, one upstream round trip, or one atomic         *)
(* operation another goroutine can observe.                                *)
(*                                                                         *)
(* removeMu is only ever taken while reconcileMu is held, so it is never   *)
(* contended and has no variable here.  The plan of ReloadKeys, the one    *)
(* section of mu with many effects, is one step; so are disabled and       *)
(* removed where an operation stores or tests both, one right after the    *)
(* other.  cooldownUntil is only looked at when an account is picked:      *)
(* Gateway.tla has it.                                                     *)
(***************************************************************************)
EXTENDS Integers, Sequences, FiniteSetsExt, Functions

CONSTANTS
    MaxId,          \* bound on the ids the table may assign
    BootCount,      \* rows present when the process starts: ids 1..BootCount
    Workers,        \* goroutines that call the pool
    Warmer,         \* the goroutine that runs Warm
    Nobody,         \* no holder of reconcileMu
    BootstrapBatch, \* bootstrapAccounts
    WarmBatch,      \* maxWarmWorkers
    WarmAttempts,   \* maxWarmAttempts
    MaxCalls,       \* bound: operations started by the workers
    MaxFaults,      \* bound: store writes that fail
    MaxRotations,   \* bound: stored credentials replaced under a stable id
    Ops             \* the operations the workers call

ASSUME PoolAssumption ==
    /\ MaxId \in Nat /\ BootCount \in 0..MaxId
    /\ Warmer \notin Workers /\ Nobody \notin Workers \cup {Warmer}
    /\ BootstrapBatch \in Nat \ {0} /\ WarmBatch \in Nat \ {0}
    /\ WarmAttempts \in Nat \ {0}
    /\ MaxCalls \in Nat /\ MaxFaults \in Nat /\ MaxRotations \in Nat
    /\ Ops \subseteq {"reload", "enable", "disable", "delete", "remove", "refresh"}

VARIABLES
    row,        \* accounts table: [state: none | on | off, ver] of every id
    nextId,     \* AUTOINCREMENT: the next id, never one used before
    acct,       \* the Account objects
    configured, \* Pool.configured: ids in the order they became known
    accounts,   \* Pool.accounts: the stable slots sessions refer to
    warmStart,  \* Pool.warmStart
    holder,     \* holder of reconcileMu
    pc,         \* where each goroutine is
    job,        \* its local variables
    spent,      \* bounded budgets: calls, faults, rotations
    suspect     \* history: ids whose pool state was set from a stale snapshot
                \* or next to a failed store write

vars == <<row, nextId, acct, configured, accounts, warmStart, holder, pc, job,
          spent, suspect>>
table == <<row, nextId>>
lists == <<configured, accounts, warmStart>>

Ids   == 1..MaxId
Procs == Workers \cup {Warmer}

Row == [state: {"none", "on", "off"}, ver: Nat]
Key == [ver: Nat, on: BOOLEAN]
KeyOf(r) == [ver |-> r.ver, on |-> r.state = "on"]
NoRow    == [state |-> "none", ver |-> 0]

\* settings is the version of the key whose project and agent are installed,
\* -1 before any initialization.
Account == [disabled: BOOLEAN, removed: BOOLEAN, initing: BOOLEAN,
            initialized: BOOLEAN, ready: BOOLEAN,
            key: Key, settings: Nat \cup {-1}]

newAccount(r) == [disabled |-> r.state = "off", removed |-> FALSE,
                  initing |-> FALSE, initialized |-> FALSE, ready |-> FALSE,
                  key |-> KeyOf(r), settings |-> -1]

Op == {"none", "warm", "reload", "enable", "disable", "delete", "remove",
       "refresh"}
Label == {"idle", "lock", "plan", "changed", "installed", "flags", "need",
          "removed?", "disabled?", "swap", "init", "apply", "ok", "adding",
          "append", "failed", "enable", "persist", "enabled", "rollback",
          "unrow", "disable", "disabled", "delete", "deleted", "remove",
          "removing", "refresh", "unlock", "done"}
\* fresh: the candidate being installed was initialized.
Job == [op: Op, a: Ids \cup {0}, snap: [Ids -> Row], chg: SUBSET Ids,
        need: SUBSET Ids, tries: 0..WarmAttempts, key: Key, claimed: BOOLEAN,
        fresh: BOOLEAN]

NoSnapshot == [a \in Ids |-> NoRow]
NoJob == [op |-> "none", a |-> 0, snap |-> NoSnapshot, chg |-> {}, need |-> {},
          tries |-> 0, key |-> [ver |-> 0, on |-> FALSE], claimed |-> FALSE,
          fresh |-> FALSE]

Known  == Range(configured)
Slots  == Range(accounts)

\* An account PickExcept may hand out as soon as it is not cooling down
\* (Account.available on one of the slots).
Selectable(a) == a \in Slots /\ ~acct[a].disabled /\ ~acct[a].removed

\* The increasing sequences over a set: the order of ORDER BY id.
Ascending(S) == {s \in [1..Cardinality(S) -> S] :
                   \A i, j \in 1..Cardinality(S) : i < j => s[i] < s[j]}

-----------------------------------------------------------------------------
(***************************************************************************)
(* New: the rows of the table become accounts; batches are initialized, in *)
(* order, until an account is ready or the rows are exhausted.             *)
(***************************************************************************)
Bootstrapped(ok, end) ==
    LET enabled == {a \in 1..BootCount : row[a].state = "on"}
        start   == ((end - 1) \div BootstrapBatch) * BootstrapBatch
    IN  IF enabled = {}
        THEN end = 0 /\ ok = {}
        ELSE /\ end \in 1..BootCount
             /\ end = BootCount \/ end % BootstrapBatch = 0
             /\ ok \subseteq {a \in enabled : start < a /\ a <= end}
             /\ ok = {} => end = BootCount

Init ==
    /\ row \in [Ids -> [state: {"none", "on", "off"}, ver: {0}]]
    /\ \A a \in Ids : row[a].state = "none" <=> a > BootCount
    /\ nextId = BootCount + 1
    /\ configured = [i \in 1..BootCount |-> i]
    /\ \E ok \in SUBSET (1..BootCount), end \in 0..BootCount :
         /\ Bootstrapped(ok, end)
         /\ warmStart = end
         /\ acct = [a \in Ids |->
                      [newAccount(row[a]) EXCEPT
                         !.initialized = a \in ok, !.ready = a \in ok,
                         !.settings = IF a \in ok THEN 0 ELSE -1]]
         /\ accounts \in Ascending(ok)
    /\ holder = Nobody
    /\ pc = [p \in Procs |-> "idle"]
    /\ job = [p \in Procs |-> NoJob]
    /\ spent = [calls |-> 0, faults |-> 0, rotations |-> 0]
    /\ suspect = {}

-----------------------------------------------------------------------------
\* Helpers on the state.
Become(a, r)     == acct' = [acct EXCEPT ![a] = r]
Goto(p, l)       == pc' = [pc EXCEPT ![p] = l]
Step(p, l, j)    == Goto(p, l) /\ job' = [job EXCEPT ![p] = j]
At(p, l)         == pc[p] = l
SetState(a, s)   == row' = [row EXCEPT ![a].state = s]

\* Where a successful initialization leads: SetEnabled writes the row, the
\* others call addReady.
Proceed(j) == IF j.op = "enable" THEN "persist" ELSE "ok"

\* Where addReady, a refused claim or a failed initialization leads.
Resume(j) == CASE j.op = "warm"   -> "need"
               [] j.op = "reload" -> "changed"
               [] OTHER           -> "unlock"

\* A write of the store that does not happen: the row is gone, or the call
\* failed.
StoreFails(a) ==
    /\ \/ row[a].state = "none" /\ UNCHANGED <<spent, suspect>>
       \/ /\ spent.faults < MaxFaults
          /\ spent' = [spent EXCEPT !.faults = @ + 1]
          /\ suspect' = suspect \cup {a}
    /\ UNCHANGED table

-----------------------------------------------------------------------------
(***************************************************************************)
(* The surroundings: the admin API inserts rows; a credential may be       *)
(* replaced under its id (the caller of ReloadKeys may ask for that, and   *)
(* pool_test.go does; no store operation of the program does).             *)
(***************************************************************************)
CreateAccount ==
    /\ nextId <= MaxId
    /\ row' = [row EXCEPT ![nextId] = [state |-> "on", ver |-> 0]]
    /\ nextId' = nextId + 1
    /\ UNCHANGED <<acct, lists, holder, pc, job, spent, suspect>>

RotateKey(a) ==
    /\ spent.rotations < MaxRotations /\ row[a].state # "none"
    /\ row' = [row EXCEPT ![a].ver = @ + 1]
    /\ spent' = [spent EXCEPT !.rotations = @ + 1]
    /\ UNCHANGED <<nextId, acct, lists, holder, pc, job, suspect>>

-----------------------------------------------------------------------------
(***************************************************************************)
(* Callers.  Reload is called with the rows PoolKeys read, without         *)
(* reconcileMu; the others name an account.  Remove is called by the       *)
(* gateway for an account it picked, so one that has a slot.               *)
(***************************************************************************)
Call(p, op, a) ==
    /\ p \in Workers /\ At(p, "idle") /\ spent.calls < MaxCalls
    /\ CASE op = "reload" -> a = 0
         [] op = "remove" -> a \in Slots
         [] OTHER         -> a \in Ids
    /\ spent' = [spent EXCEPT !.calls = @ + 1]
    /\ Step(p, "lock", [NoJob EXCEPT !.op = op, !.a = a,
                          !.snap = IF op = "reload" THEN row ELSE NoSnapshot])
    /\ UNCHANGED <<table, acct, lists, holder, suspect>>

\* reconcileMu.Lock, then AccountByID (Remove looks at the slots instead).
Lock(p) ==
    /\ At(p, "lock") /\ holder = Nobody
    /\ LET j == job[p] IN
       \/ /\ j.op = "reload" \/ j.a \in Known
          /\ holder' = p
          /\ Goto(p, IF j.op = "reload" THEN "plan" ELSE j.op)
          /\ UNCHANGED job
       \/ /\ j.op # "reload" /\ j.a \notin Known
          /\ Step(p, "idle", NoJob)
          /\ UNCHANGED holder
    /\ UNCHANGED <<table, acct, lists, spent, suspect>>

\* The deferred releaseInit of an operation that claimed, then the unlocks.
Unlock(p) ==
    /\ At(p, "unlock")
    /\ acct' = IF job[p].claimed
               THEN [acct EXCEPT ![job[p].a].initing = FALSE] ELSE acct
    /\ holder' = Nobody
    /\ Step(p, "idle", NoJob)
    /\ UNCHANGED <<table, lists, spent, suspect>>

-----------------------------------------------------------------------------
(***************************************************************************)
(* Faulty variants of the definitions below, each a bug the properties of  *)
(* PoolProperties must notice.  No action uses them.                       *)
(***************************************************************************)
\* addReady without the compare-and-swap of ready.
joinsTwice(a) == ~acct[a].removed /\ ~acct[a].disabled

\* addReady that swaps ready before it looks at the flags.
swapsFirst(p) ==
    LET a == job[p].a IN
    /\ At(p, "adding")
    /\ Become(a, [acct[a] EXCEPT !.ready = TRUE])
    /\ Goto(p, IF acct[a].removed \/ acct[a].disabled \/ acct[a].ready
               THEN Resume(job[p]) ELSE "append")
    /\ UNCHANGED <<table, lists, holder, job, spent, suspect>>

\* initing is stored instead of swapped.
claimsBlindly(p) ==
    LET a == job[p].a IN
    /\ pc[p] \in {"swap", "refresh"}
    /\ Become(a, [acct[a] EXCEPT !.initing = TRUE])
    /\ Step(p, "init", [job[p] EXCEPT !.tries = 1, !.claimed = job[p].op # "warm"])
    /\ UNCHANGED <<table, lists, holder, spent, suspect>>

\* applyInitialization without the comparison of keys.
appliesBlindly(p) ==
    LET a == job[p].a IN
    /\ At(p, "apply")
    /\ Become(a, [acct[a] EXCEPT !.initialized = TRUE, !.settings = job[p].key.ver])
    /\ Goto(p, Proceed(job[p]))
    /\ UNCHANGED <<table, lists, holder, job, spent, suspect>>

\* The attempt counter is decremented without a test.
retriesForever(p) ==
    /\ At(p, "apply")
    /\ Step(p, "init", [job[p] EXCEPT !.tries = @ - 1])
    /\ UNCHANGED <<table, acct, lists, holder, spent, suspect>>

\* SetEnabled that gives up an initialized account with reconcileMu held.
returnsLocked(p) ==
    /\ At(p, "enable")
    /\ IF acct[job[p].a].initialized
       THEN Step(p, "idle", NoJob)
       ELSE Goto(p, "swap") /\ UNCHANGED job
    /\ UNCHANGED <<table, acct, lists, holder, spent, suspect>>

-----------------------------------------------------------------------------
(***************************************************************************)
(* Initialization of a claimed account (initializeAccountWithRetry): each  *)
(* attempt snapshots the key, talks to the upstream, and applies its       *)
(* result only if the key is still the one it started from.                *)
(***************************************************************************)
initializationSnapshot(p) ==
    /\ At(p, "init")
    /\ Step(p, "apply", [job[p] EXCEPT !.key = acct[job[p].a].key])
    /\ UNCHANGED <<table, acct, lists, holder, spent, suspect>>

applyInitialization(p) ==
    LET a == job[p].a IN
    /\ At(p, "apply") /\ acct[a].key = job[p].key
    /\ Become(a, [acct[a] EXCEPT !.initialized = TRUE, !.settings = job[p].key.ver])
    /\ Goto(p, Proceed(job[p]))
    /\ UNCHANGED <<table, lists, holder, job, spent, suspect>>

\* The upstream failed, or the key changed meanwhile.  A caller whose context
\* is cancelled gives up without using its remaining attempts.
AttemptFails(p) ==
    /\ At(p, "apply")
    /\ \/ /\ job[p].tries > 1
          /\ Step(p, "init", [job[p] EXCEPT !.tries = @ - 1])
       \/ /\ job[p].tries = 1 \/ p # Warmer
          /\ Goto(p, "failed") /\ UNCHANGED job
    /\ UNCHANGED <<table, acct, lists, holder, spent, suspect>>

\* What the four callers do when the last attempt failed.
InitializationFailed(p) ==
    /\ At(p, "failed")
    /\ \/ /\ job[p].op \in {"warm", "reload"}
          /\ Become(job[p].a, [acct[job[p].a] EXCEPT !.initing = FALSE])
          /\ Goto(p, Resume(job[p]))
       \/ /\ job[p].op = "refresh"
          /\ Goto(p, "unlock") /\ UNCHANGED acct
       \/ /\ job[p].op = "enable"
          /\ Goto(p, "rollback") /\ UNCHANGED acct
    /\ UNCHANGED <<table, lists, holder, job, spent, suspect>>

\* addReady: releaseInit; the flags and the compare-and-swap of ready; append.
joins(a) == ~acct[a].removed /\ ~acct[a].disabled /\ ~acct[a].ready

addReadyRelease(p) ==
    /\ At(p, "ok")
    /\ IF job[p].op = "refresh" /\ acct[job[p].a].ready
       THEN Goto(p, "unlock") /\ UNCHANGED acct
       ELSE /\ Become(job[p].a, [acct[job[p].a] EXCEPT !.initing = FALSE])
            /\ Goto(p, "adding")
    /\ UNCHANGED <<table, lists, holder, job, spent, suspect>>

addReadySwap(p) ==
    LET a == job[p].a IN
    /\ At(p, "adding")
    /\ IF joins(a)
       THEN Become(a, [acct[a] EXCEPT !.ready = TRUE]) /\ Goto(p, "append")
       ELSE Goto(p, Resume(job[p])) /\ UNCHANGED acct
    /\ UNCHANGED <<table, lists, holder, job, spent, suspect>>

addReadyAppend(p) ==
    /\ At(p, "append")
    /\ accounts' = Append(accounts, job[p].a)
    /\ Goto(p, Resume(job[p]))
    /\ UNCHANGED <<table, acct, configured, warmStart, holder, job, spent,
                   suspect>>

-----------------------------------------------------------------------------
(***************************************************************************)
(* The loop over accounts to initialize, shared by Warm and ReloadKeys.    *)
(* claimInit reads initialized, then removed, then disabled, and swaps     *)
(* initing when all that is over: what it has read may be old by then, and *)
(* an account that others have initialized meanwhile is initialized again. *)
(***************************************************************************)
claimInit(p) ==
    LET a == Min(job[p].need) IN
    /\ At(p, "need") /\ job[p].need # {}
    /\ Step(p, IF acct[a].initialized THEN "need" ELSE "removed?",
            [job[p] EXCEPT !.need = @ \ {a}, !.a = a])
    /\ UNCHANGED <<table, acct, lists, holder, spent, suspect>>

claimLoad(p) ==
    LET r == acct[job[p].a] IN
    /\ \/ At(p, "removed?") /\ Goto(p, IF r.removed THEN Resume(job[p]) ELSE "disabled?")
       \/ At(p, "disabled?") /\ Goto(p, IF r.disabled THEN Resume(job[p]) ELSE "swap")
    /\ UNCHANGED <<table, acct, lists, holder, job, spent, suspect>>

\* The compare-and-swap of initing, which SetEnabled and Refresh do as well.
\* These release their claim when they return, whoever it is by then, after
\* addReady has released it: a claim Warm took in between is lost.
claimSwap(p) ==
    LET a == job[p].a
        once == job[p].op = "refresh"
    IN
    /\ pc[p] \in {"swap", "refresh"}
    /\ IF acct[a].initing
       THEN Goto(p, Resume(job[p])) /\ UNCHANGED <<acct, job>>
       ELSE /\ Become(a, [acct[a] EXCEPT !.initing = TRUE])
            /\ Step(p, "init", [job[p] EXCEPT !.tries = IF once THEN 1 ELSE WarmAttempts,
                                  !.claimed = job[p].op \in {"enable", "refresh"}])
    /\ UNCHANGED <<table, lists, holder, spent, suspect>>

\* Warm takes its next batch under mu.
WarmNext ==
    LET end == IF warmStart + WarmBatch < Len(configured)
               THEN warmStart + WarmBatch ELSE Len(configured)
    IN
    /\ At(Warmer, "idle") /\ warmStart < Len(configured)
    /\ warmStart' = end
    /\ Step(Warmer, "need", [NoJob EXCEPT !.op = "warm",
                               !.need = {configured[i] : i \in warmStart + 1..end}])
    /\ UNCHANGED <<table, acct, configured, accounts, holder, spent, suspect>>

WarmBatchDone ==
    /\ At(Warmer, "need") /\ job[Warmer].need = {}
    /\ Step(Warmer, "idle", NoJob)
    /\ UNCHANGED <<table, acct, lists, holder, spent, suspect>>

\* Warm returns; rows that become known later are not its business.
WarmReturn ==
    /\ At(Warmer, "idle") /\ warmStart >= Len(configured)
    /\ Goto(Warmer, "done") /\ UNCHANGED job
    /\ UNCHANGED <<table, acct, lists, holder, spent, suspect>>

-----------------------------------------------------------------------------
(***************************************************************************)
(* ReloadKeys.                                                             *)
(***************************************************************************)
Desired(snap) == {a \in Ids : snap[a].state # "none"}
Rotated(snap) == {a \in Desired(snap) \cap Known : acct[a].key.ver # snap[a].ver}

\* An account after the plan: missing keys are soft-removed, changed ones
\* stopped until their runtime is installed, the others restored in place.
Planned(a, snap) ==
    LET off == snap[a].state = "off" IN
    CASE a \notin Known -> IF a \in Desired(snap) THEN newAccount(snap[a]) ELSE acct[a]
      [] a \in Known \ Desired(snap) -> [acct[a] EXCEPT !.removed = TRUE]
      [] a \in Rotated(snap) -> [acct[a] EXCEPT !.removed = TRUE, !.disabled = off]
      [] OTHER -> [acct[a] EXCEPT !.key = KeyOf(snap[a]), !.removed = FALSE,
                                  !.disabled = off]

ReloadPlan(p) ==
    LET snap == job[p].snap
        want == {a \in Desired(snap) \ Rotated(snap) :
                   /\ snap[a].state = "on"
                   /\ a \in Known => ~acct[a].initialized}
    IN
    /\ At(p, "plan")
    /\ acct' = [a \in Ids |-> Planned(a, snap)]
    /\ \E new \in Ascending(Desired(snap) \ Known) : configured' = configured \o new
    /\ Step(p, "changed", [job[p] EXCEPT !.chg = Rotated(snap), !.need = want])
    /\ suspect' = suspect \cup {a \in Ids : snap[a].state # row[a].state}
    /\ UNCHANGED <<table, accounts, warmStart, holder, spent>>

\* installCandidate, for the accounts whose key changed, one at a time.  The
\* candidate is private until then; its own attempts touch nothing others see.
\* Key and settings change together under stateMu, initialized after it.
installCandidate(p) ==
    LET a == Min(job[p].chg)
        r == job[p].snap[a]
    IN
    /\ At(p, "changed") /\ job[p].chg # {}
    /\ \E ok \in {TRUE, FALSE} :
         /\ ok => r.state = "on"
         /\ Become(a, [acct[a] EXCEPT !.key = KeyOf(r), !.settings = IF ok THEN r.ver ELSE -1])
         /\ Step(p, "installed", [job[p] EXCEPT !.chg = @ \ {a}, !.a = a, !.fresh = ok])
    /\ UNCHANGED <<table, lists, holder, spent, suspect>>

installInitialized(p) ==
    /\ At(p, "installed")
    /\ Become(job[p].a, [acct[job[p].a] EXCEPT !.initialized = job[p].fresh])
    /\ Goto(p, "flags")
    /\ UNCHANGED <<table, lists, holder, job, spent, suspect>>

\* What ReloadKeys does to the flags then: a disabled account is known again,
\* one that could not be initialized stays out, another goes to addReady.
InstallChanged(p) ==
    LET a == job[p].a IN
    /\ At(p, "flags")
    /\ \/ /\ job[p].fresh
          /\ Become(a, [acct[a] EXCEPT !.disabled = FALSE, !.removed = FALSE])
          /\ Goto(p, "ok")
       \/ /\ ~job[p].fresh /\ job[p].snap[a].state = "on"
          /\ Become(a, [acct[a] EXCEPT !.disabled = TRUE])
          /\ Goto(p, "changed")
       \/ /\ ~job[p].fresh /\ job[p].snap[a].state = "off"
          /\ Become(a, [acct[a] EXCEPT !.removed = FALSE])
          /\ Goto(p, "changed")
    /\ UNCHANGED <<table, lists, holder, job, spent, suspect>>

ChangedDone(p) ==
    /\ At(p, "changed") /\ job[p].chg = {}
    /\ Step(p, "need", [job[p] EXCEPT !.snap = NoSnapshot])
    /\ UNCHANGED <<table, acct, lists, holder, spent, suspect>>

\* Every account was tried, or the caller's context ended.
ReloadDone(p) ==
    /\ p # Warmer /\ At(p, "need")
    /\ Goto(p, "unlock") /\ UNCHANGED job
    /\ UNCHANGED <<table, acct, lists, holder, spent, suspect>>

-----------------------------------------------------------------------------
(***************************************************************************)
(* SetEnabledReason.                                                       *)
(***************************************************************************)
EnableClaim(p) ==
    /\ At(p, "enable")
    /\ Goto(p, IF acct[job[p].a].initialized THEN "persist" ELSE "swap")
    /\ UNCHANGED <<table, acct, lists, holder, job, spent, suspect>>

EnableRollback(p) ==
    /\ At(p, "rollback")
    /\ Become(job[p].a, [acct[job[p].a] EXCEPT !.disabled = TRUE])
    /\ Goto(p, "unrow")
    /\ UNCHANGED <<table, lists, holder, job, spent, suspect>>

\* The error of this write is ignored.
EnableRollbackRow(p) ==
    /\ At(p, "unrow")
    /\ \/ StoreFails(job[p].a)
       \/ /\ row[job[p].a].state # "none"
          /\ SetState(job[p].a, "off")
          /\ UNCHANGED <<nextId, spent, suspect>>
    /\ Goto(p, "unlock")
    /\ UNCHANGED <<acct, lists, holder, job>>

EnablePersist(p) ==
    LET a == job[p].a IN
    /\ At(p, "persist")
    /\ \/ /\ StoreFails(a)
          /\ Become(a, [acct[a] EXCEPT !.disabled = TRUE])
          /\ Goto(p, "unlock")
       \/ /\ row[a].state # "none"
          /\ SetState(a, "on")
          /\ Goto(p, "enabled")
          /\ UNCHANGED <<nextId, acct, spent, suspect>>
    /\ UNCHANGED <<lists, holder, job>>

\* disabled and removed (and the cooldown) are cleared before addReady.
EnableApply(p) ==
    LET a == job[p].a IN
    /\ At(p, "enabled")
    /\ Become(a, [acct[a] EXCEPT !.disabled = FALSE, !.removed = FALSE])
    /\ Goto(p, "ok")
    /\ UNCHANGED <<table, lists, holder, job, spent, suspect>>

\* Disabling and deleting write the table first, then the flags.
StoreFirst(p, at, state, then) ==
    LET a == job[p].a IN
    /\ At(p, at)
    /\ \/ StoreFails(a) /\ Goto(p, "unlock")
       \/ /\ row[a].state # "none"
          /\ SetState(a, state)
          /\ Goto(p, then)
          /\ UNCHANGED <<nextId, spent, suspect>>
    /\ UNCHANGED <<acct, lists, holder, job>>

DisableRow(p) == StoreFirst(p, "disable", "off", "disabled")
DeleteRow(p)  == StoreFirst(p, "delete", "none", "deleted")

DisableApply(p) ==
    LET a == job[p].a IN
    /\ pc[p] \in {"disabled", "deleted"}
    /\ Become(a, [acct[a] EXCEPT !.disabled = TRUE,
                                 !.removed = @ \/ pc[p] = "deleted"])
    /\ Goto(p, "unlock")
    /\ UNCHANGED <<table, lists, holder, job, spent, suspect>>

-----------------------------------------------------------------------------
(***************************************************************************)
(* Remove stops selection first and takes that back if the table refuses.  *)
(***************************************************************************)
Remove(p) ==
    LET a == job[p].a IN
    /\ At(p, "remove")
    /\ IF acct[a].disabled
       THEN Goto(p, "unlock") /\ UNCHANGED acct
       ELSE Become(a, [acct[a] EXCEPT !.disabled = TRUE]) /\ Goto(p, "removing")
    /\ UNCHANGED <<table, lists, holder, job, spent, suspect>>

RemoveRow(p) ==
    LET a == job[p].a IN
    /\ At(p, "removing")
    /\ \/ /\ StoreFails(a)
          /\ Become(a, [acct[a] EXCEPT !.disabled = FALSE])
       \/ /\ row[a].state # "none"
          /\ SetState(a, "off")
          /\ UNCHANGED <<nextId, acct, spent, suspect>>
    /\ Goto(p, "unlock")
    /\ UNCHANGED <<lists, holder, job>>

-----------------------------------------------------------------------------
Initialize(p) ==
    \/ initializationSnapshot(p) \/ applyInitialization(p) \/ AttemptFails(p)
    \/ InitializationFailed(p)
    \/ addReadyRelease(p) \/ addReadySwap(p) \/ addReadyAppend(p)
    \/ claimInit(p) \/ claimLoad(p) \/ claimSwap(p)

Reload(p) ==
    \/ ReloadPlan(p) \/ ChangedDone(p) \/ ReloadDone(p)
    \/ installCandidate(p) \/ installInitialized(p) \/ InstallChanged(p)

SetEnabledReason(p) ==
    \/ EnableClaim(p) \/ EnableRollback(p) \/ EnableRollbackRow(p)
    \/ EnablePersist(p) \/ EnableApply(p)
    \/ DisableRow(p) \/ DeleteRow(p) \/ DisableApply(p)

Warm == WarmNext \/ WarmBatchDone \/ WarmReturn \/ Initialize(Warmer)

Work(p) ==
    \/ Lock(p) \/ Unlock(p)
    \/ Initialize(p) \/ Reload(p) \/ SetEnabledReason(p)
    \/ Remove(p) \/ RemoveRow(p)

Surroundings ==
    \/ CreateAccount
    \/ \E a \in Ids : RotateKey(a)

Next ==
    \/ Surroundings
    \/ Warm
    \/ \E p \in Workers :
         \/ Work(p)
         \/ \E op \in Ops, a \in Ids \cup {0} : Call(p, op, a)

Spec == Init /\ [][Next]_vars

\* Goroutines are scheduled, store calls and round trips end (each carries a
\* timeout), and sync.Mutex hands itself to a waiter that has waited long.
Fairness == WF_vars(Warm) /\ \A p \in Workers : WF_vars(Work(p)) /\ SF_vars(Lock(p))
FairSpec == Spec /\ Fairness
=============================================================================

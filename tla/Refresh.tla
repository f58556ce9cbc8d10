------------------------------- MODULE Refresh -------------------------------
(***************************************************************************)
(* Health checks of the admin service (internal/admin/service.go): a task  *)
(* hands accounts to its workers, each of which checks one account at a    *)
(* time under the lock of that account; the progress of a manual task (a   *)
(* reload) is counted and broadcast to subscribers, whose channels may be  *)
(* full.  Administrators edit accounts under the same locks, and the       *)
(* gateway removes exhausted ones without.                                 *)
(*                                                                         *)
(* An operation of the pool is one step here; Pool opens it up.  A worker  *)
(* is known by the account it has: the accounts of a task are distinct.    *)
(* Every row belongs to an account the pool knows, and the pool is not     *)
(* reloaded from older rows meanwhile: Pool has that.                      *)
(***************************************************************************)
EXTENDS Integers, FiniteSets, Sequences

CONSTANTS
    Accounts,    \* rows at the start
    Tasks,       \* tasks that may be started
    Workers,     \* of a task (2)
    Subscribers, \* clients of reload/stream
    Capacity,    \* of a subscriber's channel (8)
    MaxEdits,    \* bound: edits by administrators, and removals
    MaxFaults    \* bound: store writes that fail

ASSUME RefreshAssumption ==
    /\ IsFiniteSet(Accounts) /\ IsFiniteSet(Tasks)
    /\ {Workers, Capacity} \subseteq Nat \ {0} /\ {MaxEdits, MaxFaults} \subseteq Nat

VARIABLES
    row,      \* accounts table: enabled, disabled by hand or as exhausted, deleted
    mem,      \* Account.disabled: the pool's own flag
    locked,   \* accountLocks that are held
    task,     \* refreshAccounts: what it tracks, and how far its feeder is
    work,     \* where each account of a task is
    reload,   \* reloadState: running, total, done, exhausted, invalid
    sub,      \* handleReloadStream
    stopping, \* ctx is done
    split,    \* history: rows that were disabled without the pool
    stale,    \* history: checks whose account was edited meanwhile
    spent     \* budgets used: edits, faults

flags == <<row, mem, locked, split, stale>>
vars  == <<flags, task, work, reload, sub, stopping, spent>>

Idle == [a \in Accounts |-> "none"]

Init ==
    /\ row = [a \in Accounts |-> "on"] /\ mem = [a \in Accounts |-> "on"]
    /\ locked = {} /\ split = {} /\ stale = {}
    /\ task = [t \in Tasks |-> [kind |-> "none", phase |-> "new"]]
    /\ work = [t \in Tasks |-> Idle]
    /\ reload = [running |-> FALSE, total |-> 0, done |-> 0, exhausted |-> 0, invalid |-> 0]
    /\ sub = [s \in Subscribers |-> [pc |-> "new", ch |-> <<>>, missed |-> FALSE]]
    /\ stopping = FALSE
    /\ spent = [edits |-> 0, faults |-> 0]

At(t, a, l)   == work[t][a] = l
Goto(t, a, l) == work' = [work EXCEPT ![t][a] = l]
Queued(t)     == {a \in Accounts : At(t, a, "queued")}
Busy(t)       == {a \in Accounts : work[t][a] \in {"lock", "check", "disable"}}
Edit          == spent.edits < MaxEdits /\ spent' = [spent EXCEPT !.edits = @ + 1]

-----------------------------------------------------------------------------
(***************************************************************************)
(* Faulty variants of the definitions below; no action uses them.          *)
(***************************************************************************)
\* A second reload is let in.
startsTwice == TRUE

\* The last broadcast goes out before running is reset.
announcesRunning == reload

\* A failed check is counted as exhausted too.
countsTwice(res) == [reload EXCEPT !.done = @ + 1,
                                   !.exhausted = IF res # "ok" THEN @ + 1 ELSE @,
                                   !.invalid = IF res = "invalid" THEN @ + 1 ELSE @]

\* lockAccount hands out a lock per call.
lockFresh(a) == a \notin locked /\ UNCHANGED locked

-----------------------------------------------------------------------------
(***************************************************************************)
(* Progress.                                                               *)
(***************************************************************************)
Over(p) == ~p.running /\ p.done >= p.total

\* broadcastProgressLocked: a full channel misses the event.
Broadcast(p) ==
    sub' = [s \in Subscribers |->
              IF sub[s].pc # "reading" THEN sub[s]
              ELSE IF Len(sub[s].ch) < Capacity
                   THEN [sub[s] EXCEPT !.ch = Append(@, p)]
                   ELSE [sub[s] EXCEPT !.missed = @ \/ Over(p)]]

SubscriberStep(s, r) ==
    /\ sub' = [sub EXCEPT ![s] = r]
    /\ UNCHANGED <<flags, task, work, reload, stopping, spent>>
Gone(s, pc) == [pc |-> pc, ch |-> <<>>, missed |-> FALSE]

\* Registering and the snapshot are one critical section.
Subscribe(s) ==
    /\ sub[s].pc = "new"
    /\ SubscriberStep(s, [sub[s] EXCEPT !.pc = IF Over(reload) THEN "ended" ELSE "reading"])

Receive(s) ==
    /\ sub[s].pc = "reading" /\ sub[s].ch # <<>>
    /\ SubscriberStep(s, IF Over(Head(sub[s].ch)) THEN Gone(s, "ended")
                         ELSE [sub[s] EXCEPT !.ch = Tail(@)])

\* Its context or the service's is done.
Leave(s) == sub[s].pc = "reading" /\ SubscriberStep(s, Gone(s, "left"))

-----------------------------------------------------------------------------
(***************************************************************************)
(* A task starts with the rows there are, or some of them.                 *)
(***************************************************************************)
Rows == {a \in Accounts : row[a] # "none"}
Started(t, kind, ids) ==
    /\ task[t].phase = "new" /\ ~stopping
    /\ task' = [task EXCEPT ![t] = [kind |-> kind, phase |-> "feeding"]]
    /\ work' = [work EXCEPT ![t] = [a \in Accounts |-> IF a \in ids THEN "queued" ELSE "none"]]
    /\ UNCHANGED <<flags, sub, stopping, spent>>

\* startRefresh refuses while a reload is running.
MayStart == ~reload.running

StartManual(t) ==
    /\ MayStart
    /\ \E ids \in {Rows} \cup (SUBSET Rows \ {{}}) :
         /\ Started(t, "manual", ids)
         /\ reload' = [running |-> TRUE, total |-> Cardinality(ids), done |-> 0,
                       exhausted |-> 0, invalid |-> 0]

\* autoRefreshing lets one in at a time.
StartAuto(t) ==
    /\ \A u \in Tasks : task[u].kind = "auto" => task[u].phase = "ended"
    /\ Started(t, "auto", Rows)
    /\ UNCHANGED reload

\* refreshOne for one account, by its own route or after it was added.
StartSingle(t) ==
    /\ \E a \in Rows : Started(t, "single", {a})
    /\ UNCHANGED reload

-----------------------------------------------------------------------------
(***************************************************************************)
(* The feeder.                                                             *)
(***************************************************************************)
Take(t, a) ==
    /\ task[t].phase = "feeding" /\ At(t, a, "queued") /\ Cardinality(Busy(t)) < Workers
    /\ Goto(t, a, "lock")
    /\ UNCHANGED <<flags, task, reload, sub, stopping, spent>>

Close(t) ==
    /\ task[t].phase = "feeding" /\ (Queued(t) = {} \/ stopping)
    /\ task' = [task EXCEPT ![t].phase = "closed"]
    /\ work' = [work EXCEPT ![t] = [a \in Accounts |-> IF a \in Queued(t) THEN "none" ELSE @[a]]]
    /\ UNCHANGED <<flags, reload, sub, stopping, spent>>

\* What is broadcast last.
Final == [reload EXCEPT !.running = FALSE]

\* Both workers have returned.
End(t) ==
    /\ task[t].phase = "closed" /\ Busy(t) = {}
    /\ task' = [task EXCEPT ![t].phase = "ended"]
    /\ IF task[t].kind = "manual"
       THEN reload' = [reload EXCEPT !.running = FALSE] /\ Broadcast(Final)
       ELSE UNCHANGED <<reload, sub>>
    /\ UNCHANGED <<flags, work, stopping, spent>>

-----------------------------------------------------------------------------
(***************************************************************************)
(* refreshOne.  Its context ends with the service, or with the request     *)
(* that asked for it.                                                      *)
(***************************************************************************)
LockAccount(a)   == a \notin locked /\ locked' = locked \cup {a}
UnlockAccount(a) == locked' = locked \ {a}
Cancelled(t)     == stopping \/ task[t].kind = "single"

Counted(res) == [reload EXCEPT !.done = @ + 1,
                               !.exhausted = IF res = "exhausted" THEN @ + 1 ELSE @,
                               !.invalid = IF res = "invalid" THEN @ + 1 ELSE @]

\* The lock is given back and, in a reload, the result is counted.
Return(t, a, res) ==
    /\ Goto(t, a, "none")
    /\ stale' = stale \ {<<t, a>>}
    /\ IF task[t].kind = "manual"
       THEN reload' = Counted(res) /\ Broadcast(reload')
       ELSE UNCHANGED <<reload, sub>>
    /\ UNCHANGED <<task, stopping>>

\* The account is read at once.
Lock(t, a) ==
    /\ At(t, a, "lock") /\ row[a] # "none" /\ ~stopping
    /\ LockAccount(a)
    /\ Goto(t, a, "check")
    /\ UNCHANGED <<row, mem, split, stale, task, reload, sub, stopping, spent>>

\* It was deleted, or the context is done.
LockFails(t, a) ==
    /\ At(t, a, "lock") /\ a \notin locked /\ (row[a] = "none" \/ Cancelled(t))
    /\ Return(t, a, "invalid")
    /\ UNCHANGED <<row, mem, locked, split, spent>>

\* BillingUsage fails; so may initializing the account, later on.
CheckFails(t, a) ==
    /\ At(t, a, "check")
    /\ Return(t, a, "invalid") /\ UnlockAccount(a)
    /\ UNCHANGED <<row, mem, split, spent>>

\* The account has funds.  That alone does not enable it.
CheckActive(t, a) ==
    /\ At(t, a, "check") /\ ~stopping
    /\ Return(t, a, IF row[a] = "exhausted" THEN "exhausted" ELSE "ok")
    /\ UnlockAccount(a)
    /\ UNCHANGED <<row, mem, split, spent>>

\* It has none: UpdateHealth disables the row ...
CheckExhausted(t, a) ==
    /\ At(t, a, "check") /\ ~stopping
    /\ row' = [row EXCEPT ![a] = "exhausted"]
    /\ Goto(t, a, "disable")
    /\ UNCHANGED <<mem, locked, split, stale, task, reload, sub, stopping, spent>>

\* ... then SetEnabledReason does, the row once more and the pool.
Disable(t, a) ==
    /\ At(t, a, "disable")
    /\ row' = [row EXCEPT ![a] = "exhausted"] /\ mem' = [mem EXCEPT ![a] = "off"]
    /\ split' = split \ {a}
    /\ Return(t, a, "exhausted") /\ UnlockAccount(a)
    /\ UNCHANGED spent

\* Reading the row again fails, or writing it, which is not reported.
DisableFails(t, a) ==
    /\ At(t, a, "disable")
    /\ \/ Cancelled(t) /\ UNCHANGED spent
       \/ /\ ~Cancelled(t) /\ spent.faults < MaxFaults
          /\ spent' = [spent EXCEPT !.faults = @ + 1]
    /\ split' = split \cup {a}
    /\ \E res \in {"invalid", "exhausted"} : Return(t, a, res)
    /\ UnlockAccount(a)
    /\ UNCHANGED <<row, mem>>

-----------------------------------------------------------------------------
(***************************************************************************)
(* Administrators, who hold the lock for one operation of the pool, and    *)
(* the gateway.                                                            *)
(***************************************************************************)
Changed(a, r) ==
    /\ row' = [row EXCEPT ![a] = r]
    /\ mem' = [mem EXCEPT ![a] = IF r = "on" THEN "on" ELSE "off"]
    /\ split' = split \ {a}
    /\ UNCHANGED <<locked, task, work, reload, sub, stopping>>

\* SetEnabled (either way) and DeleteByID.
Patch(a, r) ==
    /\ a \notin locked /\ row[a] # "none" /\ Edit
    /\ Changed(a, r)
    /\ stale' = stale \cup {<<t, a>> : t \in {u \in Tasks : work[u][a] \in {"check", "disable"}}}

\* Pool.Remove, for a request of the gateway.
RemoveExhausted(a) ==
    /\ mem[a] = "on" /\ row[a] # "none" /\ Edit
    /\ Changed(a, "exhausted")
    /\ UNCHANGED stale

Stop ==
    /\ ~stopping /\ stopping' = TRUE
    /\ UNCHANGED <<flags, task, work, reload, sub, spent>>

-----------------------------------------------------------------------------
Check(t, a) ==
    \/ LockFails(t, a) \/ CheckFails(t, a) \/ CheckActive(t, a)
    \/ CheckExhausted(t, a) \/ Disable(t, a) \/ DisableFails(t, a)

Next ==
    \/ \E t \in Tasks :
         \/ StartManual(t) \/ StartAuto(t) \/ StartSingle(t) \/ Close(t) \/ End(t)
         \/ \E a \in Accounts : Take(t, a) \/ Lock(t, a) \/ Check(t, a)
    \/ \E s \in Subscribers : Subscribe(s) \/ Receive(s) \/ Leave(s)
    \/ \E a \in Accounts : RemoveExhausted(a) \/ \E r \in {"on", "off", "none"} : Patch(a, r)
    \/ Stop

Spec == Init /\ [][Next]_vars
=============================================================================

---------------------------- MODULE RefreshProofs ----------------------------
(***************************************************************************)
(* Proofs about health checks and reloads, for every number of accounts,   *)
(* tasks, workers, subscribers, edits and faults.                          *)
(***************************************************************************)
EXTENDS RefreshProperties, SequenceTheorems, FiniteSetTheorems, TLAPS

(***************************************************************************)
(* The inductive invariant.                                                *)
(***************************************************************************)
Task  == [kind: {"none", "manual", "auto", "single"},
          phase: {"new", "feeding", "closed", "ended"}]
Place == {"none", "queued", "lock", "check", "disable"}
Subscription == [pc: {"new", "reading", "ended", "left"}, ch: Seq(Progress), missed: BOOLEAN]

Types ==
    /\ row \in [Accounts -> {"on", "off", "exhausted", "none"}]
    /\ mem \in [Accounts -> {"on", "off"}]
    /\ locked \subseteq Accounts /\ split \subseteq Accounts
    /\ task \in [Tasks -> Task] /\ work \in [Tasks -> [Accounts -> Place]]
    /\ reload \in Progress /\ reload.exhausted + reload.invalid <= reload.done
    /\ sub \in [Subscribers -> Subscription] /\ stopping \in BOOLEAN

\* Accounts are with a task while it is under way, and queued while it feeds.
PhasesInv ==
    \A t \in Tasks : /\ task[t].phase \in {"new", "ended"} => \A a \in Accounts : work[t][a] = "none"
                     /\ task[t].phase = "closed" => \A a \in Accounts : work[t][a] # "queued"

\* At most as many accounts are out as there are workers.
WorkersInv == \A t \in Tasks : Cardinality(Busy(t)) <= Workers

\* A lock is held by the one task that checks the account.
LocksInv == \A a \in Accounts : IF a \in locked THEN \E t \in Tasks : Checking(a) = {t}
                                ELSE Checking(a) = {}

\* The row and the pool only disagree between the two writes of a check.
AgreeInv ==
    /\ \A a \in Accounts \ split :
         (\A t \in Tasks : work[t][a] # "disable") => (mem[a] = "on" <=> row[a] = "on")
    /\ stale = {}

\* A channel holds at most what it has room for.
ChannelsInv == \A s \in Subscribers : Len(sub[s].ch) <= Capacity

RefreshInv ==
    /\ Types /\ PhasesInv /\ WorkersInv /\ LocksInv /\ AgreeInv
    /\ ProgressTrue /\ ChannelsInv /\ LastEventKnown

(***************************************************************************)
(* Lemmas about the model's operators.                                     *)
(***************************************************************************)
\* A result is counted once, as one thing.
LEMMA CountedFields ==
    ASSUME reload \in Progress, NEW res
    PROVE  /\ Counted(res) \in Progress
           /\ Counted(res).running = reload.running /\ Counted(res).total = reload.total
           /\ Counted(res).done = reload.done + 1
           /\ Counted(res).exhausted + Counted(res).invalid <= reload.exhausted + reload.invalid + 1
<1>1. /\ reload.running \in BOOLEAN /\ reload.total \in Nat /\ reload.done \in Nat
      /\ reload.exhausted \in Nat /\ reload.invalid \in Nat
    BY DEF Progress
<1>. DEFINE c == [reload EXCEPT !.done = reload.done + 1]
            d == [c EXCEPT !.exhausted = IF res = "exhausted" THEN c.exhausted + 1 ELSE c.exhausted]
<1>2. c \in Progress /\ c.running = reload.running /\ c.total = reload.total
      /\ c.done = reload.done + 1 /\ c.exhausted = reload.exhausted /\ c.invalid = reload.invalid
    BY <1>1 DEF Progress
<1>3. Counted(res) = [d EXCEPT !.invalid = IF res = "invalid" THEN d.invalid + 1 ELSE d.invalid]
    BY Zenon DEF Counted
<1>. HIDE DEF c
<1>4. d \in Progress /\ d.running = reload.running /\ d.total = reload.total
      /\ d.done = reload.done + 1 /\ d.invalid = reload.invalid
      /\ d.exhausted = IF res = "exhausted" THEN reload.exhausted + 1 ELSE reload.exhausted
    BY <1>1, <1>2 DEF Progress
<1>. HIDE DEF d
<1>5. Counted(res) \in Progress
      /\ Counted(res).running = reload.running /\ Counted(res).total = reload.total
      /\ Counted(res).done = reload.done + 1 /\ Counted(res).exhausted = d.exhausted
      /\ Counted(res).invalid = IF res = "invalid" THEN reload.invalid + 1 ELSE reload.invalid
    BY <1>1, <1>3, <1>4 DEF Progress
<1>. QED
    BY <1>1, <1>4, <1>5

\* What an event does to one subscriber.
LEMMA BroadcastTo ==
    ASSUME sub \in [Subscribers -> Subscription], NEW p \in Progress, Broadcast(p)
    PROVE  /\ sub' \in [Subscribers -> Subscription]
           /\ \A s \in Subscribers :
                /\ sub'[s].pc = sub[s].pc
                /\ sub[s].pc # "reading" => sub'[s] = sub[s]
                /\ sub[s].pc = "reading" /\ Len(sub[s].ch) < Capacity =>
                     sub'[s].ch = Append(sub[s].ch, p) /\ sub'[s].missed = sub[s].missed
                /\ sub[s].pc = "reading" /\ ~(Len(sub[s].ch) < Capacity) =>
                     sub'[s].ch = sub[s].ch /\ sub'[s].missed = (sub[s].missed \/ Over(p))
<1>. DEFINE room(s) == [sub[s] EXCEPT !.ch = Append(sub[s].ch, p)]
            full(s) == [sub[s] EXCEPT !.missed = sub[s].missed \/ Over(p)]
            new(s) == IF sub[s].pc # "reading" THEN sub[s]
                      ELSE IF Len(sub[s].ch) < Capacity THEN room(s) ELSE full(s)
<1>1. sub' = [s \in Subscribers |-> new(s)]
    BY DEF Broadcast
<1>2. ASSUME NEW s \in Subscribers
      PROVE  /\ room(s) \in Subscription /\ full(s) \in Subscription
             /\ room(s).pc = sub[s].pc /\ room(s).ch = Append(sub[s].ch, p)
             /\ room(s).missed = sub[s].missed
             /\ full(s).pc = sub[s].pc /\ full(s).ch = sub[s].ch
             /\ full(s).missed = (sub[s].missed \/ Over(p))
    <2>1. sub[s] \in Subscription /\ sub[s].ch \in Seq(Progress)
        BY DEF Subscription
    <2>2. Append(sub[s].ch, p) \in Seq(Progress) /\ (sub[s].missed \/ Over(p)) \in BOOLEAN
        BY <2>1
    <2>. QED
        BY <2>1, <2>2 DEF Subscription
<1>. HIDE DEF room, full
<1>3. \A s \in Subscribers : sub'[s] = new(s) /\ new(s) \in Subscription
    BY <1>1, <1>2
<1>. QED
    BY <1>1, <1>2, <1>3

\* Where one account of one task goes.
LEMMA GotoOne ==
    ASSUME work \in [Tasks -> [Accounts -> Place]], NEW t \in Tasks, NEW a \in Accounts,
           NEW l \in Place, Goto(t, a, l)
    PROVE  /\ work' \in [Tasks -> [Accounts -> Place]]
           /\ \A u \in Tasks, b \in Accounts :
                work'[u][b] = IF u = t /\ b = a THEN l ELSE work[u][b]
BY DEF Goto

\* What a worker that is done leaves behind.
LEMMA ReturnFields ==
    ASSUME Types, NEW t \in Tasks, NEW a \in Accounts, NEW res, Return(t, a, res)
    PROVE  /\ work' \in [Tasks -> [Accounts -> Place]]
           /\ \A u \in Tasks, b \in Accounts :
                work'[u][b] = IF u = t /\ b = a THEN "none" ELSE work[u][b]
           /\ stale' \subseteq stale /\ task' = task /\ stopping' = stopping
           /\ reload' \in Progress /\ sub' \in [Subscribers -> Subscription]
           /\ task[t].kind # "manual" => reload' = reload /\ sub' = sub
           /\ task[t].kind = "manual" =>
                /\ Broadcast(reload')
                /\ reload'.running = reload.running /\ reload'.total = reload.total
                /\ reload'.done = reload.done + 1
                /\ reload'.exhausted + reload'.invalid <= reload.exhausted + reload.invalid + 1
<1>1. "none" \in Place /\ Goto(t, a, "none") /\ stale' = stale \ {<<t, a>>}
      /\ task' = task /\ stopping' = stopping
    BY DEF Return, Place
<1>2. /\ work' \in [Tasks -> [Accounts -> Place]]
      /\ \A u \in Tasks, b \in Accounts :
           work'[u][b] = IF u = t /\ b = a THEN "none" ELSE work[u][b]
    BY <1>1, GotoOne DEF Types
<1>3. task[t].kind = "manual" => reload' = Counted(res) /\ Broadcast(reload')
    BY DEF Return
<1>4. task[t].kind # "manual" => reload' = reload /\ sub' = sub
    BY DEF Return
<1>5. reload' \in Progress
    BY <1>3, <1>4, CountedFields DEF Types
<1>6. sub' \in [Subscribers -> Subscription]
    BY <1>3, <1>4, <1>5, BroadcastTo DEF Types
<1>. QED
    BY <1>1, <1>2, <1>3, <1>4, <1>5, <1>6, CountedFields DEF Types

(***************************************************************************)
(* Types.                                                                  *)
(***************************************************************************)
\* A task that starts has the accounts it was given, all queued.
LEMMA StartedFields ==
    ASSUME Types, PhasesInv, NEW t \in Tasks, NEW kind \in {"manual", "auto", "single"}, NEW ids,
           ids \subseteq Accounts, Started(t, kind, ids)
    PROVE  /\ task' \in [Tasks -> Task] /\ work' \in [Tasks -> [Accounts -> Place]]
           /\ task[t].phase = "new" /\ \A a \in Accounts : work[t][a] = "none"
           /\ \A u \in Tasks : task'[u] = IF u = t THEN [kind |-> kind, phase |-> "feeding"] ELSE task[u]
           /\ \A u \in Tasks, a \in Accounts :
                work'[u][a] = IF u = t THEN IF a \in ids THEN "queued" ELSE "none" ELSE work[u][a]
           /\ UNCHANGED <<row, mem, locked, split, stale, sub, stopping, spent>>
<1>1. [kind |-> kind, phase |-> "feeding"] \in Task
    BY DEF Task
<1>2. [a \in Accounts |-> IF a \in ids THEN "queued" ELSE "none"] \in [Accounts -> Place]
    BY DEF Place
<1>. QED
    BY <1>1, <1>2 DEF Started, Types, PhasesInv, flags

LEMMA CloseFields ==
    ASSUME Types, NEW t \in Tasks, Close(t)
    PROVE  /\ work' \in [Tasks -> [Accounts -> Place]] /\ task' \in [Tasks -> Task]
           /\ task[t].phase = "feeding" /\ (Queued(t) = {} \/ stopping)
           /\ task'[t].phase = "closed" /\ task'[t].kind = task[t].kind
           /\ \A u \in Tasks \ {t} : task'[u] = task[u]
           /\ \A u \in Tasks, a \in Accounts :
                work'[u][a] = IF u = t /\ work[t][a] = "queued" THEN "none" ELSE work[u][a]
           /\ UNCHANGED <<row, mem, locked, split, stale, reload, sub, stopping, spent>>
<1>. DEFINE new == [a \in Accounts |-> IF a \in Queued(t) THEN "none" ELSE work[t][a]]
<1>1. new \in [Accounts -> Place]
    BY DEF Place, Types
<1>2. \A a \in Accounts : new[a] = IF work[t][a] = "queued" THEN "none" ELSE work[t][a]
    BY DEF Queued, At
<1>3. work' = [work EXCEPT ![t] = new]
    BY DEF Close
<1>4. [task[t] EXCEPT !.phase = "closed"] \in Task
      /\ [task[t] EXCEPT !.phase = "closed"].phase = "closed"
      /\ [task[t] EXCEPT !.phase = "closed"].kind = task[t].kind
    BY DEF Types, Task
<1>5. task' = [task EXCEPT ![t] = [task[t] EXCEPT !.phase = "closed"]]
    BY DEF Close
<1>. HIDE DEF new
<1>6. UNCHANGED <<row, mem, locked, split, stale, reload, sub, stopping, spent>>
    BY DEF Close, flags
<1>. QED
    BY <1>1, <1>2, <1>3, <1>4, <1>5, <1>6 DEF Close, Types

LEMMA EndFields ==
    ASSUME Types, NEW t \in Tasks, End(t)
    PROVE  /\ task' \in [Tasks -> Task] /\ task[t].phase = "closed" /\ Busy(t) = {}
           /\ task'[t].phase = "ended" /\ task'[t].kind = task[t].kind
           /\ \A u \in Tasks \ {t} : task'[u] = task[u]
           /\ reload' \in Progress /\ reload'.exhausted + reload'.invalid <= reload'.done
           /\ reload'.total = reload.total /\ reload'.done = reload.done
           /\ sub' \in [Subscribers -> Subscription]
           /\ task[t].kind = "manual" => ~reload'.running /\ Broadcast(reload')
           /\ task[t].kind # "manual" => reload' = reload /\ sub' = sub
           /\ UNCHANGED <<row, mem, locked, split, stale, work, stopping, spent>>
<1>1. [task[t] EXCEPT !.phase = "ended"] \in Task
      /\ [task[t] EXCEPT !.phase = "ended"].phase = "ended"
      /\ [task[t] EXCEPT !.phase = "ended"].kind = task[t].kind
    BY DEF Types, Task
<1>2. task' = [task EXCEPT ![t] = [task[t] EXCEPT !.phase = "ended"]]
    BY DEF End
<1>3. task[t].kind = "manual" =>
        reload' = [reload EXCEPT !.running = FALSE] /\ Broadcast(reload')
    BY DEF End, Final
<1>4. task[t].kind # "manual" => reload' = reload /\ sub' = sub
    BY DEF End
<1>5. /\ reload' \in Progress /\ reload'.exhausted + reload'.invalid <= reload'.done
      /\ reload'.total = reload.total /\ reload'.done = reload.done
      /\ task[t].kind = "manual" => ~reload'.running
    BY <1>3, <1>4 DEF Types, Progress
<1>6. sub' \in [Subscribers -> Subscription]
    BY <1>3, <1>4, <1>5, BroadcastTo DEF Types
<1>7. UNCHANGED <<row, mem, locked, split, stale, work, stopping, spent>>
    BY DEF End, flags
<1>. QED
    BY <1>1, <1>2, <1>3, <1>4, <1>5, <1>6, <1>7 DEF End, Types

\* One subscriber at a time registers, reads or goes.
LEMMA SubscriberFields ==
    ASSUME Types, NEW s \in Subscribers, Subscribe(s) \/ Receive(s) \/ Leave(s)
    PROVE  /\ sub' \in [Subscribers -> Subscription]
           /\ \A u \in Subscribers \ {s} : sub'[u] = sub[u]
           /\ \/ sub[s].pc = "new" /\ sub'[s].ch = sub[s].ch
                 /\ (sub'[s].pc = "reading" => ~Over(reload))
              \/ sub'[s].pc # "reading" /\ sub'[s].ch = <<>>
              \/ /\ sub[s].pc = "reading" /\ sub[s].ch # <<>> /\ ~Over(Head(sub[s].ch))
                 /\ sub'[s].ch = Tail(sub[s].ch) /\ sub'[s].missed = sub[s].missed
           /\ UNCHANGED <<row, mem, locked, split, stale, task, work, reload, stopping, spent>>
<1>1. sub[s] \in Subscription /\ sub[s].ch \in Seq(Progress)
    BY DEF Types, Subscription
<1>2. \A pc \in {"ended", "left"} : /\ Gone(s, pc) \in Subscription /\ Gone(s, pc).pc = pc
                                    /\ Gone(s, pc).ch = <<>>
    BY DEF Gone, Subscription
<1>3. ASSUME NEW r \in Subscription, SubscriberStep(s, r)
      PROVE  /\ sub' \in [Subscribers -> Subscription] /\ sub'[s] = r
             /\ \A u \in Subscribers \ {s} : sub'[u] = sub[u]
             /\ UNCHANGED <<row, mem, locked, split, stale, task, work, reload, stopping, spent>>
    BY <1>3 DEF SubscriberStep, Types, flags
<1>4. CASE Subscribe(s)
    <2>. DEFINE pc == IF Over(reload) THEN "ended" ELSE "reading"
                r == [sub[s] EXCEPT !.pc = pc]
    <2>1. r \in Subscription /\ r.pc = pc /\ r.ch = sub[s].ch
        BY <1>1 DEF Subscription
    <2>2. SubscriberStep(s, r) /\ sub[s].pc = "new"
        BY <1>4 DEF Subscribe
    <2>3. pc = "reading" => ~Over(reload)
        OBVIOUS
    <2>. HIDE DEF r, pc
    <2>. QED
        BY <1>3, <2>1, <2>2, <2>3
<1>5. CASE Receive(s)
    <2>1. CASE Over(Head(sub[s].ch))
        BY <1>2, <1>3, <1>5, <2>1 DEF Receive
    <2>2. CASE ~Over(Head(sub[s].ch))
        <3>. DEFINE r == [sub[s] EXCEPT !.ch = Tail(sub[s].ch)]
        <3>1. SubscriberStep(s, r) /\ sub[s].pc = "reading" /\ sub[s].ch # <<>>
            BY <1>5, <2>2 DEF Receive
        <3>2. Tail(sub[s].ch) \in Seq(Progress)
            BY <1>1, <3>1
        <3>3. r \in Subscription /\ r.ch = Tail(sub[s].ch) /\ r.missed = sub[s].missed
            BY <1>1, <3>2 DEF Subscription
        <3>. HIDE DEF r
        <3>. QED
            BY <1>3, <2>2, <3>1, <3>3
    <2>. QED
        BY <2>1, <2>2
<1>6. CASE Leave(s)
    BY <1>2, <1>3, <1>6 DEF Leave
<1>. QED
    BY <1>4, <1>5, <1>6

\* The fields of the tables that an edit or a check writes.
LEMMA FlagTypes ==
    ASSUME Types, NEW a \in Accounts, NEW r \in {"on", "off", "exhausted", "none"}
    PROVE  /\ [row EXCEPT ![a] = r] \in [Accounts -> {"on", "off", "exhausted", "none"}]
           /\ [mem EXCEPT ![a] = IF r = "on" THEN "on" ELSE "off"] \in [Accounts -> {"on", "off"}]
BY DEF Types

LEMMA TypesStep ==
    ASSUME Types, PhasesInv, [Next]_vars
    PROVE  Types'
<1>1. ASSUME NEW t \in Tasks, NEW kind \in {"manual", "auto", "single"},
             NEW ids \in SUBSET Accounts, Started(t, kind, ids),
             reload' \in Progress, reload'.exhausted + reload'.invalid <= reload'.done
      PROVE  Types'
    BY <1>1, StartedFields DEF Types
<1>2. Rows \subseteq Accounts
    BY DEF Rows
<1>3. ASSUME NEW t \in Tasks, StartManual(t)
      PROVE  Types'
    <2>1. PICK ids \in {Rows} \cup (SUBSET Rows \ {{}}) :
             /\ Started(t, "manual", ids)
             /\ reload' = [running |-> TRUE, total |-> Cardinality(ids), done |-> 0,
                           exhausted |-> 0, invalid |-> 0]
        BY <1>3 DEF StartManual
    <2>2. ids \in SUBSET Accounts
        BY <1>2
    <2>3. Cardinality(ids) \in Nat
        BY <2>2, RefreshAssumption, FS_Subset, FS_CardinalityType DEF RefreshAssumption
    <2>4. reload' \in Progress /\ reload'.exhausted + reload'.invalid <= reload'.done
        BY <2>1, <2>3 DEF Progress
    <2>. QED
        BY <1>1, <2>1, <2>2, <2>4
<1>4. ASSUME NEW t \in Tasks, StartAuto(t) \/ StartSingle(t)
      PROVE  Types'
    <2>1. reload' \in Progress /\ reload'.exhausted + reload'.invalid <= reload'.done
        BY <1>4 DEF StartAuto, StartSingle, Types
    <2>2. CASE StartAuto(t)
        BY <1>1, <1>2, <2>1, <2>2 DEF StartAuto
    <2>3. CASE StartSingle(t)
        <3>1. PICK a \in Rows : Started(t, "single", {a})
            BY <2>3 DEF StartSingle
        <3>2. {a} \in SUBSET Accounts
            BY <1>2
        <3>. QED
            BY <1>1, <2>1, <3>1, <3>2
    <2>. QED
        BY <1>4, <2>2, <2>3
<1>5. ASSUME NEW t \in Tasks, Close(t)
      PROVE  Types'
    BY <1>5, CloseFields DEF Types
<1>6. ASSUME NEW t \in Tasks, End(t)
      PROVE  Types'
    BY <1>6, EndFields DEF Types
<1>7. ASSUME NEW t \in Tasks, NEW a \in Accounts, Take(t, a) \/ Lock(t, a) \/ CheckExhausted(t, a)
      PROVE  Types'
    <2>1. work' \in [Tasks -> [Accounts -> Place]]
        <3>1. {"lock", "check", "disable"} \subseteq Place
            BY DEF Place
        <3>. QED
            BY <1>7, <3>1, GotoOne DEF Types, Take, Lock, CheckExhausted
    <2>2. row' \in [Accounts -> {"on", "off", "exhausted", "none"}]
        BY <1>7, FlagTypes DEF Types, Take, Lock, CheckExhausted, flags
    <2>3. locked' \subseteq Accounts
        BY <1>7 DEF Types, Take, Lock, CheckExhausted, LockAccount, flags
    <2>. QED
        BY <1>7, <2>1, <2>2, <2>3 DEF Types, Take, Lock, CheckExhausted, flags
<1>8. ASSUME NEW t \in Tasks, NEW a \in Accounts, NEW res, Return(t, a, res)
      PROVE  /\ work' \in [Tasks -> [Accounts -> Place]] /\ task' \in [Tasks -> Task]
             /\ reload' \in Progress /\ reload'.exhausted + reload'.invalid <= reload'.done
             /\ sub' \in [Subscribers -> Subscription] /\ stopping' \in BOOLEAN
    <2>1. reload'.exhausted + reload'.invalid <= reload'.done
        BY SMTT(30), <1>8, ReturnFields DEF Types, Progress
    <2>. QED
        BY <1>8, <2>1, ReturnFields DEF Types
<1>9. ASSUME NEW t \in Tasks, NEW a \in Accounts, LockFails(t, a) \/ CheckFails(t, a) \/ CheckActive(t, a)
      PROVE  Types'
    <2>1. /\ row' = row /\ mem' = mem /\ split' = split /\ locked' \subseteq locked
          /\ \E res : Return(t, a, res)
        BY <1>9 DEF LockFails, CheckFails, CheckActive, UnlockAccount
    <2>. QED
        BY <1>8, <2>1 DEF Types
<1>10. ASSUME NEW t \in Tasks, NEW a \in Accounts, Disable(t, a) \/ DisableFails(t, a)
       PROVE  Types'
    <2>1. /\ split' \subseteq split \cup {a} /\ locked' \subseteq locked
          /\ \E res : Return(t, a, res)
        BY <1>10 DEF Disable, DisableFails, UnlockAccount
    <2>2. /\ row' \in [Accounts -> {"on", "off", "exhausted", "none"}]
          /\ mem' \in [Accounts -> {"on", "off"}]
        BY <1>10 DEF Disable, DisableFails, Types
    <2>. QED
        BY <1>8, <2>1, <2>2 DEF Types
<1>11. ASSUME NEW s \in Subscribers, Subscribe(s) \/ Receive(s) \/ Leave(s)
       PROVE  Types'
    BY <1>11, SubscriberFields DEF Types
<1>12. ASSUME NEW a \in Accounts, NEW r \in {"on", "off", "exhausted", "none"}, Changed(a, r)
       PROVE  Types'
    BY <1>12, FlagTypes DEF Changed, Types
<1>13. ASSUME NEW a \in Accounts, RemoveExhausted(a) \/ \E r \in {"on", "off", "none"} : Patch(a, r)
       PROVE  Types'
    BY <1>12, <1>13 DEF RemoveExhausted, Patch
<1>14. CASE Stop \/ UNCHANGED vars
    BY <1>14 DEF Stop, vars, flags, Types
<1>. QED
    BY <1>3, <1>4, <1>5, <1>6, <1>7, <1>9, <1>10, <1>11, <1>13, <1>14 DEF Next, Check

(***************************************************************************)
(* The steps, as what they do to the accounts of a task.                   *)
(***************************************************************************)
Starts(t, ids) ==
    \/ /\ Started(t, "manual", ids) /\ ~reload.running
       /\ reload' = [running |-> TRUE, total |-> Cardinality(ids), done |-> 0,
                     exhausted |-> 0, invalid |-> 0]
    \/ \E kind \in {"auto", "single"} : Started(t, kind, ids) /\ reload' = reload

\* A worker takes an account, or goes on with it.
Takes(t, a) ==
    \/ Take(t, a)
    \/ (Lock(t, a) \/ CheckExhausted(t, a)) /\ UNCHANGED <<task, reload, sub, stopping>>

Returns(t, a) ==
    /\ work[t][a] \in {"lock", "check", "disable"} /\ \E res : Return(t, a, res)
    /\ LockFails(t, a) \/ CheckFails(t, a) \/ CheckActive(t, a) \/ Disable(t, a) \/ DisableFails(t, a)

Elsewhere ==
    \/ \E s \in Subscribers : Subscribe(s) \/ Receive(s) \/ Leave(s)
    \/ \E a \in Accounts : RemoveExhausted(a) \/ \E r \in {"on", "off", "none"} : Patch(a, r)
    \/ Stop \/ UNCHANGED vars

LEMMA Steps ==
    ASSUME Types, [Next]_vars
    PROVE  \/ \E t \in Tasks, ids \in SUBSET Accounts : Starts(t, ids)
           \/ \E t \in Tasks : Close(t) \/ End(t)
           \/ \E t \in Tasks, a \in Accounts : Takes(t, a) \/ Returns(t, a)
           \/ Elsewhere /\ UNCHANGED <<task, work, reload>>
<1>1. Rows \subseteq Accounts
    BY DEF Rows
<1>2. ASSUME NEW t \in Tasks, StartManual(t) \/ StartAuto(t) \/ StartSingle(t)
      PROVE  \E ids \in SUBSET Accounts : Starts(t, ids)
    <2>1. CASE StartManual(t)
        BY <1>1, <2>1 DEF StartManual, MayStart, Starts
    <2>2. CASE StartAuto(t)
        BY <1>1, <2>2 DEF StartAuto, Starts
    <2>3. CASE StartSingle(t)
        <3>1. PICK a \in Rows : Started(t, "single", {a})
            BY <2>3 DEF StartSingle
        <3>2. {a} \in SUBSET Accounts
            BY <1>1
        <3>. QED
            BY <2>3, <3>1, <3>2 DEF StartSingle, Starts
    <2>. QED
        BY <1>2, <2>1, <2>2, <2>3
<1>3. ASSUME NEW t \in Tasks, NEW a \in Accounts, Take(t, a) \/ Lock(t, a) \/ Check(t, a)
      PROVE  Takes(t, a) \/ Returns(t, a)
    <2>1. CASE Take(t, a) \/ Lock(t, a) \/ CheckExhausted(t, a)
        BY <2>1 DEF Takes, Lock, CheckExhausted
    <2>2. CASE LockFails(t, a) \/ CheckFails(t, a) \/ CheckActive(t, a)
        BY <2>2 DEF Returns, LockFails, CheckFails, CheckActive, At
    <2>3. CASE Disable(t, a) \/ DisableFails(t, a)
        BY <2>3 DEF Returns, Disable, DisableFails, At
    <2>. QED
        BY <1>3, <2>1, <2>2, <2>3 DEF Check
<1>4. ASSUME Elsewhere
      PROVE  UNCHANGED <<task, work, reload>>
    <2>1. ASSUME NEW s \in Subscribers, Subscribe(s) \/ Receive(s) \/ Leave(s)
          PROVE  UNCHANGED <<task, work, reload>>
        BY <2>1, SubscriberFields
    <2>. QED
        BY <1>4, <2>1 DEF Elsewhere, RemoveExhausted, Patch, Changed, Stop, vars
<1>. QED
    BY <1>2, <1>3, <1>4 DEF Next, Elsewhere

\* Where the accounts are after each.
LEMMA StartMoves ==
    ASSUME Types, PhasesInv, NEW t \in Tasks, NEW ids \in SUBSET Accounts, Starts(t, ids)
    PROVE  /\ task[t].phase = "new" /\ \A a \in Accounts : work[t][a] = "none"
           /\ \A u \in Tasks \ {t} : task'[u] = task[u] /\ work'[u] = work[u]
           /\ task'[t].phase = "feeding"
           /\ \A a \in Accounts : work'[t][a] = IF a \in ids THEN "queued" ELSE "none"
           /\ UNCHANGED <<row, mem, locked, split, stale, sub, stopping, spent>>
           /\ \/ /\ task'[t].kind = "manual" /\ ~reload.running
                 /\ reload'.running /\ reload'.total = Cardinality(ids) /\ reload'.done = 0
              \/ task'[t].kind # "manual" /\ reload' = reload
<1>1. PICK kind \in {"manual", "auto", "single"} :
         /\ Started(t, kind, ids)
         /\ \/ /\ kind = "manual" /\ ~reload.running
               /\ reload'.running /\ reload'.total = Cardinality(ids) /\ reload'.done = 0
            \/ kind # "manual" /\ reload' = reload
    BY DEF Starts
<1>2. \A u \in Tasks \ {t} : work'[u] = work[u]
    BY <1>1 DEF Started, Types
<1>. QED
    BY <1>1, <1>2, StartedFields

LEMMA TakeMoves ==
    ASSUME Types, NEW t \in Tasks, NEW a \in Accounts, Takes(t, a)
    PROVE  /\ \A u \in Tasks, b \in Accounts : ~(u = t /\ b = a) => work'[u][b] = work[u][b]
           /\ \/ Take(t, a) /\ work[t][a] = "queued" /\ work'[t][a] = "lock"
                 /\ task[t].phase = "feeding"
              \/ Lock(t, a) /\ work[t][a] = "lock" /\ work'[t][a] = "check"
              \/ CheckExhausted(t, a) /\ work[t][a] = "check" /\ work'[t][a] = "disable"
           /\ UNCHANGED <<mem, split, stale, task, reload, sub, stopping>>
<1>1. {"lock", "check", "disable"} \subseteq Place
    BY DEF Place
<1>2. CASE Take(t, a)
    BY <1>1, <1>2, GotoOne DEF Take, At, Types, flags
<1>3. CASE Lock(t, a)
    BY <1>1, <1>3, GotoOne DEF Lock, At, Types
<1>4. CASE CheckExhausted(t, a)
    BY <1>1, <1>4, GotoOne DEF CheckExhausted, At, Types
<1>. QED
    BY <1>2, <1>3, <1>4 DEF Takes

\* A phase tells where accounts may be.
LEMMA PhasesStep ==
    ASSUME Types, PhasesInv, [Next]_vars
    PROVE  PhasesInv'
<1>. SUFFICES ASSUME NEW u \in Tasks
              PROVE  /\ task'[u].phase \in {"new", "ended"} => \A a \in Accounts : work'[u][a] = "none"
                     /\ task'[u].phase = "closed" => \A a \in Accounts : work'[u][a] # "queued"
    BY DEF PhasesInv
<1>1. task \in [Tasks -> Task] /\ work \in [Tasks -> [Accounts -> Place]]
    BY DEF Types
<1>2. ASSUME NEW t \in Tasks, NEW ids \in SUBSET Accounts, Starts(t, ids)
      PROVE  /\ task'[u].phase \in {"new", "ended"} => \A a \in Accounts : work'[u][a] = "none"
             /\ task'[u].phase = "closed" => \A a \in Accounts : work'[u][a] # "queued"
    BY <1>2, StartMoves DEF PhasesInv
<1>3. ASSUME NEW t \in Tasks, Close(t)
      PROVE  /\ task'[u].phase \in {"new", "ended"} => \A a \in Accounts : work'[u][a] = "none"
             /\ task'[u].phase = "closed" => \A a \in Accounts : work'[u][a] # "queued"
    BY <1>3, CloseFields DEF PhasesInv
<1>4. ASSUME NEW t \in Tasks, End(t)
      PROVE  /\ task'[u].phase \in {"new", "ended"} => \A a \in Accounts : work'[u][a] = "none"
             /\ task'[u].phase = "closed" => \A a \in Accounts : work'[u][a] # "queued"
    <2>1. task[t].phase = "closed" /\ Busy(t) = {}
        BY <1>4, EndFields
    <2>2. \A a \in Accounts : work[t][a] \in Place /\ work[t][a] # "queued"
        BY <1>1, <2>1 DEF PhasesInv
    <2>3. \A a \in Accounts : work[t][a] = "none"
        BY <2>1, <2>2 DEF Busy, Place
    <2>. QED
        BY <1>4, <2>3, EndFields DEF PhasesInv
<1>5. ASSUME NEW t \in Tasks, NEW a \in Accounts, Takes(t, a)
      PROVE  /\ task'[u].phase \in {"new", "ended"} => \A b \in Accounts : work'[u][b] = "none"
             /\ task'[u].phase = "closed" => \A b \in Accounts : work'[u][b] # "queued"
    <2>1. task[t].phase \in {"feeding", "closed"}
        <3>1. work[t][a] # "none"
            BY <1>5, TakeMoves
        <3>. QED
            BY <1>1, <3>1 DEF PhasesInv, Task
    <2>. QED
        BY <1>5, <2>1, TakeMoves DEF PhasesInv
<1>6. ASSUME NEW t \in Tasks, NEW a \in Accounts, Returns(t, a)
      PROVE  /\ task'[u].phase \in {"new", "ended"} => \A b \in Accounts : work'[u][b] = "none"
             /\ task'[u].phase = "closed" => \A b \in Accounts : work'[u][b] # "queued"
    BY <1>6, ReturnFields DEF Returns, PhasesInv
<1>. QED
    BY <1>2, <1>3, <1>4, <1>5, <1>6, Steps DEF PhasesInv

(***************************************************************************)
(* The counts: of workers, of locks, of what is done.                      *)
(***************************************************************************)
LEMMA FiniteWork ==
    ASSUME NEW t
    PROVE  /\ IsFiniteSet(Busy(t)) /\ IsFiniteSet(Queued(t)) /\ IsFiniteSet(Busy(t) \cup Queued(t))
           /\ Cardinality(Busy(t)) \in Nat /\ Cardinality(Busy(t) \cup Queued(t)) \in Nat
<1>1. Busy(t) \subseteq Accounts /\ Queued(t) \subseteq Accounts
    BY DEF Busy, Queued
<1>2. IsFiniteSet(Busy(t)) /\ IsFiniteSet(Queued(t)) /\ IsFiniteSet(Busy(t) \cup Queued(t))
    BY <1>1, RefreshAssumption, FS_Subset DEF RefreshAssumption
<1>. QED
    BY <1>2, FS_CardinalityType

\* Which accounts of a task are out and queued after a step.
LEMMA BusyMoves ==
    ASSUME Types, PhasesInv, NEW u \in Tasks
    PROVE  /\ \A t \in Tasks, ids \in SUBSET Accounts : Starts(t, ids) =>
                IF u = t THEN Busy(u)' = {} /\ Queued(u)' = ids
                ELSE Busy(u)' = Busy(u) /\ Queued(u)' = Queued(u)
           /\ \A t \in Tasks : Close(t) =>
                /\ Busy(u)' = Busy(u) /\ (u # t => Queued(u)' = Queued(u))
                /\ (u = t => Queued(u)' = {})
           /\ \A t \in Tasks, a \in Accounts : Takes(t, a) =>
                /\ Busy(u)' = IF u = t THEN Busy(u) \cup {a} ELSE Busy(u)
                /\ Busy(u)' \cup Queued(u)' = Busy(u) \cup Queued(u)
                /\ Busy(u)' # Busy(u) => Cardinality(Busy(u)) < Workers
           /\ \A t \in Tasks, a \in Accounts : Returns(t, a) =>
                /\ Busy(u)' = IF u = t THEN Busy(u) \ {a} ELSE Busy(u)
                /\ Queued(u)' = Queued(u) /\ (u = t => a \in Busy(u) /\ a \notin Queued(u))
<1>1. \A b \in Accounts : work[u][b] \in Place
    BY DEF Types
<1>2. ASSUME NEW t \in Tasks, NEW ids \in SUBSET Accounts, Starts(t, ids)
      PROVE  IF u = t THEN Busy(u)' = {} /\ Queued(u)' = ids
             ELSE Busy(u)' = Busy(u) /\ Queued(u)' = Queued(u)
    BY <1>2, StartMoves DEF Busy, Queued, At
<1>3. ASSUME NEW t \in Tasks, Close(t)
      PROVE  /\ Busy(u)' = Busy(u) /\ (u # t => Queued(u)' = Queued(u))
             /\ (u = t => Queued(u)' = {})
    BY <1>1, <1>3, CloseFields DEF Busy, Queued, At, Place
<1>4. ASSUME NEW t \in Tasks, NEW a \in Accounts, Takes(t, a)
      PROVE  /\ Busy(u)' = IF u = t THEN Busy(u) \cup {a} ELSE Busy(u)
             /\ Busy(u)' \cup Queued(u)' = Busy(u) \cup Queued(u)
             /\ Busy(u)' # Busy(u) => Cardinality(Busy(u)) < Workers
    <2>1. \A v \in Tasks, b \in Accounts : ~(v = t /\ b = a) => work'[v][b] = work[v][b]
        BY <1>4, TakeMoves
    <2>2. CASE u # t
        BY <2>1, <2>2 DEF Busy, Queued, At
    <2>3. CASE u = t
        <3>1. Queued(u)' \subseteq Queued(u) /\ Queued(u) \subseteq Queued(u)' \cup {a}
            BY <1>4, <2>1, <2>3, TakeMoves DEF Queued, At
        <3>2. Busy(u)' = Busy(u) \cup {a}
            BY <1>4, <2>1, <2>3, TakeMoves DEF Busy
        <3>3. a \in Busy(u) \cup Queued(u)
            BY <1>4, <2>3, TakeMoves DEF Busy, Queued, At
        <3>4. Take(t, a) \/ a \in Busy(u)
            BY <1>4, <2>3, TakeMoves DEF Busy
        <3>. QED
            BY <2>3, <3>1, <3>2, <3>3, <3>4 DEF Take
    <2>. QED
        BY <2>2, <2>3
<1>5. ASSUME NEW t \in Tasks, NEW a \in Accounts, Returns(t, a)
      PROVE  /\ Busy(u)' = IF u = t THEN Busy(u) \ {a} ELSE Busy(u)
             /\ Queued(u)' = Queued(u) /\ (u = t => a \in Busy(u) /\ a \notin Queued(u))
    BY <1>1, <1>5, ReturnFields DEF Returns, Busy, Queued, At, Place
<1>. QED
    BY <1>2, <1>3, <1>4, <1>5

LEMMA WorkersStep ==
    ASSUME Types, PhasesInv, WorkersInv, [Next]_vars
    PROVE  WorkersInv'
<1>. SUFFICES ASSUME NEW u \in Tasks
              PROVE  Cardinality(Busy(u)') <= Workers
    BY DEF WorkersInv
<1>1. Cardinality(Busy(u)) <= Workers /\ Workers \in Nat \ {0}
    BY RefreshAssumption DEF WorkersInv, RefreshAssumption
<1>2. IsFiniteSet(Busy(u)) /\ Cardinality(Busy(u)) \in Nat
    BY FiniteWork
<1>3. ASSUME Busy(u)' \subseteq Busy(u)
      PROVE  Cardinality(Busy(u)') <= Workers
    BY <1>1, <1>2, <1>3, FS_Subset, FS_CardinalityType
<1>4. ASSUME NEW t \in Tasks, NEW ids \in SUBSET Accounts, Starts(t, ids)
      PROVE  Busy(u)' \subseteq Busy(u)
    BY <1>4, BusyMoves
<1>5. ASSUME NEW t \in Tasks, Close(t) \/ End(t)
      PROVE  Busy(u)' \subseteq Busy(u)
    BY <1>5, BusyMoves, EndFields DEF Busy
<1>6. ASSUME NEW t \in Tasks, NEW a \in Accounts, Takes(t, a), Busy(u)' # Busy(u)
      PROVE  Cardinality(Busy(u)') <= Workers
    <2>1. Cardinality(Busy(u)) < Workers /\ Busy(u)' = Busy(u) \cup {a}
        BY <1>6, BusyMoves
    <2>. QED
        BY SMTT(30), <1>1, <1>2, <2>1, FS_AddElement
<1>7. ASSUME NEW t \in Tasks, NEW a \in Accounts, Returns(t, a)
      PROVE  Busy(u)' \subseteq Busy(u)
    BY <1>7, BusyMoves
<1>8. UNCHANGED <<task, work, reload>> => Busy(u)' = Busy(u)
    BY DEF Busy
<1>. QED
    BY <1>3, <1>4, <1>5, <1>6, <1>7, <1>8, Steps

(***************************************************************************)
(* Locks, and what is decided under them.                                  *)
(***************************************************************************)
\* Which tasks check an account, after a step.
LEMMA CheckingMoves ==
    ASSUME Types, PhasesInv, NEW b \in Accounts
    PROVE  /\ \A t \in Tasks, ids \in SUBSET Accounts : Starts(t, ids) => Checking(b)' = Checking(b)
           /\ \A t \in Tasks : Close(t) => Checking(b)' = Checking(b)
           /\ \A t \in Tasks, a \in Accounts : Takes(t, a) =>
                Checking(b)' = IF Lock(t, a) /\ a = b THEN Checking(b) \cup {t} ELSE Checking(b)
           /\ \A t \in Tasks, a \in Accounts : Returns(t, a) =>
                Checking(b)' = IF a = b THEN Checking(b) \ {t} ELSE Checking(b)
<1>1. ASSUME NEW t \in Tasks, NEW ids \in SUBSET Accounts, Starts(t, ids)
      PROVE  Checking(b)' = Checking(b)
    BY <1>1, StartMoves DEF Checking
<1>2. ASSUME NEW t \in Tasks, Close(t)
      PROVE  Checking(b)' = Checking(b)
    BY <1>2, CloseFields DEF Checking
<1>3. ASSUME NEW t \in Tasks, NEW a \in Accounts, Takes(t, a)
      PROVE  Checking(b)' = IF Lock(t, a) /\ a = b THEN Checking(b) \cup {t} ELSE Checking(b)
    <2>1. \A u \in Tasks, c \in Accounts : ~(u = t /\ c = a) => work'[u][c] = work[u][c]
        BY <1>3, TakeMoves
    <2>2. CASE a # b
        BY <2>1, <2>2 DEF Checking
    <2>3. CASE a = b /\ Take(t, a)
        <3>1. work[t][a] = "queued" /\ work'[t][a] = "lock" /\ ~Lock(t, a)
            BY <1>3, <2>3, TakeMoves DEF Take, Lock, At
        <3>. QED
            BY <2>1, <2>3, <3>1 DEF Checking
    <2>4. CASE a = b /\ Lock(t, a)
        <3>1. work[t][a] = "lock" /\ work'[t][a] = "check"
            BY <1>3, <2>4, TakeMoves DEF Lock, At
        <3>. QED
            BY <2>1, <2>4, <3>1 DEF Checking
    <2>5. CASE a = b /\ CheckExhausted(t, a)
        <3>1. work[t][a] = "check" /\ work'[t][a] = "disable" /\ ~Lock(t, a)
            BY <1>3, <2>5, TakeMoves DEF CheckExhausted, Lock, At
        <3>. QED
            BY <2>1, <2>5, <3>1 DEF Checking
    <2>. QED
        BY <1>3, <2>2, <2>3, <2>4, <2>5 DEF Takes
<1>4. ASSUME NEW t \in Tasks, NEW a \in Accounts, Returns(t, a)
      PROVE  Checking(b)' = IF a = b THEN Checking(b) \ {t} ELSE Checking(b)
    BY <1>4, ReturnFields DEF Returns, Checking
<1>. QED
    BY <1>1, <1>2, <1>3, <1>4

LEMMA LocksStep ==
    ASSUME Types, PhasesInv, LocksInv, [Next]_vars
    PROVE  LocksInv'
<1>. SUFFICES ASSUME NEW b \in Accounts
              PROVE  IF b \in locked' THEN \E u \in Tasks : Checking(b)' = {u} ELSE Checking(b)' = {}
    BY DEF LocksInv
<1>1. IF b \in locked THEN \E u \in Tasks : Checking(b) = {u} ELSE Checking(b) = {}
    BY DEF LocksInv
<1>2. ASSUME Checking(b)' = Checking(b), locked' = locked
      PROVE  IF b \in locked' THEN \E u \in Tasks : Checking(b)' = {u} ELSE Checking(b)' = {}
    BY <1>1, <1>2
<1>3. ASSUME NEW t \in Tasks, NEW ids \in SUBSET Accounts, Starts(t, ids)
      PROVE  Checking(b)' = Checking(b) /\ locked' = locked
    BY <1>3, CheckingMoves, StartMoves
<1>4. ASSUME NEW t \in Tasks, Close(t) \/ End(t)
      PROVE  Checking(b)' = Checking(b) /\ locked' = locked
    BY <1>4, CheckingMoves, CloseFields, EndFields DEF Checking
<1>5. ASSUME NEW t \in Tasks, NEW a \in Accounts, Takes(t, a)
      PROVE  IF b \in locked' THEN \E u \in Tasks : Checking(b)' = {u} ELSE Checking(b)' = {}
    <2>1. CASE Lock(t, a)
        <3>1. a \notin locked /\ locked' = locked \cup {a}
            BY <2>1 DEF Lock, LockAccount
        <3>2. Checking(b)' = IF a = b THEN Checking(b) \cup {t} ELSE Checking(b)
            BY <1>5, <2>1, CheckingMoves
        <3>. QED
            BY <1>1, <3>1, <3>2
    <2>2. CASE ~Lock(t, a)
        <3>1. locked' = locked
            BY <1>5, <2>2 DEF Takes, Take, CheckExhausted, flags
        <3>2. Checking(b)' = Checking(b)
            BY <1>5, <2>2, CheckingMoves
        <3>. QED
            BY <1>2, <3>1, <3>2
    <2>. QED
        BY <2>1, <2>2
<1>6. ASSUME NEW t \in Tasks, NEW a \in Accounts, Returns(t, a)
      PROVE  IF b \in locked' THEN \E u \in Tasks : Checking(b)' = {u} ELSE Checking(b)' = {}
    <2>1. Checking(b)' = IF a = b THEN Checking(b) \ {t} ELSE Checking(b)
        BY <1>6, CheckingMoves
    <2>2. CASE LockFails(t, a)
        <3>1. work[t][a] = "lock" /\ locked' = locked
            BY <2>2 DEF LockFails, At
        <3>2. a = b => t \notin Checking(b)
            BY <3>1 DEF Checking
        <3>3. Checking(b)' = Checking(b)
            BY <2>1, <3>2
        <3>. QED
            BY <1>2, <3>1, <3>3
    <2>3. CASE CheckFails(t, a) \/ CheckActive(t, a) \/ Disable(t, a) \/ DisableFails(t, a)
        <3>1. work[t][a] \in {"check", "disable"} /\ locked' = locked \ {a}
            BY <2>3 DEF CheckFails, CheckActive, Disable, DisableFails, At, UnlockAccount
        <3>2. a = b => t \in Checking(b)
            BY <3>1 DEF Checking
        <3>. QED
            BY <1>1, <2>1, <3>1, <3>2
    <2>. QED
        BY <1>6, <2>2, <2>3 DEF Returns
<1>7. ASSUME Elsewhere, UNCHANGED <<task, work, reload>>
      PROVE  Checking(b)' = Checking(b) /\ locked' = locked
    <2>1. ASSUME NEW s \in Subscribers, Subscribe(s) \/ Receive(s) \/ Leave(s)
          PROVE  locked' = locked
        BY <2>1, SubscriberFields
    <2>2. locked' = locked
        BY <1>7, <2>1 DEF Elsewhere, RemoveExhausted, Patch, Changed, Stop, vars, flags
    <2>. QED
        BY <1>7, <2>2 DEF Checking
<1>. QED
    BY <1>2, <1>3, <1>4, <1>5, <1>6, <1>7, Steps

\* An edit needs the lock, so no check is under way that it could overtake.
LEMMA AgreeStep ==
    ASSUME Types, PhasesInv, LocksInv, AgreeInv, [Next]_vars
    PROVE  AgreeInv'
<1>. DEFINE Between(a) == \E t \in Tasks : work[t][a] = "disable"
            Agree(a) == mem[a] = "on" <=> row[a] = "on"
<1>1. \A a \in Accounts : a \in split \/ Between(a) \/ Agree(a)
    BY DEF AgreeInv
<1>2. stale = {}
    BY DEF AgreeInv
<1>3. SUFFICES /\ stale' = {}
               /\ \A b \in Accounts : b \in split' \/ Between(b)' \/ Agree(b)'
    BY DEF AgreeInv
<1>4. /\ row \in [Accounts -> {"on", "off", "exhausted", "none"}]
      /\ mem \in [Accounts -> {"on", "off"}]
    BY DEF Types
<1>5. ASSUME UNCHANGED <<row, mem, split, stale>>, \A b \in Accounts : Between(b) => Between(b)'
      PROVE  /\ stale' = {}
             /\ \A b \in Accounts : b \in split' \/ Between(b)' \/ Agree(b)'
    BY <1>1, <1>2, <1>5
<1>6. ASSUME NEW t \in Tasks, NEW ids \in SUBSET Accounts, Starts(t, ids)
      PROVE  UNCHANGED <<row, mem, split, stale>> /\ \A b \in Accounts : Between(b) => Between(b)'
    BY <1>6, StartMoves
<1>7. ASSUME NEW t \in Tasks, Close(t) \/ End(t)
      PROVE  UNCHANGED <<row, mem, split, stale>> /\ \A b \in Accounts : Between(b) => Between(b)'
    BY <1>7, CloseFields, EndFields
<1>8. ASSUME NEW t \in Tasks, NEW a \in Accounts, Takes(t, a)
      PROVE  /\ stale' = {}
             /\ \A b \in Accounts : b \in split' \/ Between(b)' \/ Agree(b)'
    <2>1. /\ \A u \in Tasks, b \in Accounts : ~(u = t /\ b = a) => work'[u][b] = work[u][b]
          /\ work[t][a] # "disable" /\ UNCHANGED <<mem, split, stale>>
        BY <1>8, TakeMoves
    <2>2. CASE CheckExhausted(t, a)
        <3>1. work'[t][a] = "disable" /\ \A b \in Accounts \ {a} : row'[b] = row[b]
            BY <1>4, <1>8, <2>2, TakeMoves DEF CheckExhausted, Take, Lock, At
        <3>2. Between(a)' /\ \A b \in Accounts \ {a} : (Between(b) => Between(b)') /\ (Agree(b) => Agree(b)')
            BY <2>1, <3>1
        <3>. QED
            BY <1>1, <1>2, <2>1, <3>2
    <2>3. CASE Take(t, a) \/ Lock(t, a)
        <3>1. row' = row
            BY <2>3 DEF Take, Lock, flags
        <3>2. \A b \in Accounts : Between(b) => Between(b)'
            BY <2>1
        <3>. QED
            BY <1>5, <2>1, <3>1, <3>2
    <2>. QED
        BY <1>8, <2>2, <2>3 DEF Takes
<1>9. ASSUME NEW t \in Tasks, NEW a \in Accounts, Returns(t, a)
      PROVE  /\ stale' = {}
             /\ \A b \in Accounts : b \in split' \/ Between(b)' \/ Agree(b)'
    <2>1. /\ \A u \in Tasks, b \in Accounts : ~(u = t /\ b = a) => work'[u][b] = work[u][b]
          /\ stale' = {}
        BY <1>2, <1>9, ReturnFields DEF Returns
    <2>2. CASE LockFails(t, a) \/ CheckFails(t, a) \/ CheckActive(t, a)
        <3>1. UNCHANGED <<row, mem, split>> /\ work[t][a] # "disable"
            BY <2>2 DEF LockFails, CheckFails, CheckActive, At
        <3>2. \A b \in Accounts : Between(b) => Between(b)'
            BY <2>1, <3>1
        <3>. QED
            BY <1>2, <1>5, <2>1, <3>1, <3>2
    <2>3. CASE Disable(t, a)
        <3>1. /\ row' = [row EXCEPT ![a] = "exhausted"] /\ mem' = [mem EXCEPT ![a] = "off"]
              /\ split' = split \ {a}
            BY <2>3 DEF Disable
        <3>2. \A b \in Accounts \ {a} : Between(b) => Between(b)'
            BY <2>1
        <3>3. Agree(a)' /\ \A b \in Accounts \ {a} : Agree(b) => Agree(b)'
            BY <1>4, <3>1
        <3>. QED
            BY <1>1, <2>1, <3>1, <3>2, <3>3
    <2>4. CASE DisableFails(t, a)
        <3>1. split' = split \cup {a} /\ UNCHANGED <<row, mem>>
            BY <2>4 DEF DisableFails
        <3>2. \A b \in Accounts \ {a} : Between(b) => Between(b)'
            BY <2>1
        <3>. QED
            BY <1>1, <2>1, <3>1, <3>2
    <2>. QED
        BY <1>9, <2>2, <2>3, <2>4 DEF Returns
<1>10. ASSUME NEW a \in Accounts, NEW r \in {"on", "off", "exhausted", "none"}, Changed(a, r), stale' = {}
       PROVE  /\ stale' = {}
              /\ \A b \in Accounts : b \in split' \/ Between(b)' \/ Agree(b)'
    <2>1. /\ row' = [row EXCEPT ![a] = r]
          /\ mem' = [mem EXCEPT ![a] = IF r = "on" THEN "on" ELSE "off"]
          /\ split' = split \ {a} /\ work' = work
        BY <1>10 DEF Changed
    <2>2. Agree(a)' /\ \A b \in Accounts \ {a} : Agree(b) => Agree(b)'
        BY <1>4, <2>1
    <2>. QED
        BY <1>1, <1>10, <2>1, <2>2
<1>11. ASSUME NEW a \in Accounts, RemoveExhausted(a)
       PROVE  /\ stale' = {}
              /\ \A b \in Accounts : b \in split' \/ Between(b)' \/ Agree(b)'
    BY <1>2, <1>10, <1>11 DEF RemoveExhausted
<1>12. ASSUME NEW a \in Accounts, NEW r \in {"on", "off", "none"}, Patch(a, r)
       PROVE  /\ stale' = {}
              /\ \A b \in Accounts : b \in split' \/ Between(b)' \/ Agree(b)'
    <2>1. Checking(a) = {}
        BY <1>12 DEF Patch, LocksInv
    <2>2. stale' = {}
        BY <1>2, <1>12, <2>1 DEF Patch, Checking
    <2>. QED
        BY <1>10, <1>12, <2>2 DEF Patch
<1>13. ASSUME NEW s \in Subscribers, Subscribe(s) \/ Receive(s) \/ Leave(s)
       PROVE  UNCHANGED <<row, mem, split, stale, work>>
    BY <1>13, SubscriberFields
<1>14. Stop \/ UNCHANGED vars => UNCHANGED <<row, mem, split, stale, work>>
    BY DEF Stop, vars, flags
<1>. QED
    BY <1>5, <1>6, <1>7, <1>8, <1>9, <1>11, <1>12, <1>13, <1>14, Steps DEF Elsewhere

(***************************************************************************)
(* Progress.                                                               *)
(***************************************************************************)
\* What is not done yet of a task.
Left(t) == Cardinality(Busy(t) \cup Queued(t))

LEMMA LeftMoves ==
    ASSUME Types, PhasesInv, NEW u \in Tasks
    PROVE  /\ \A ids \in SUBSET Accounts : Starts(u, ids) => Left(u)' = Cardinality(ids)
           /\ Close(u) /\ ~stopping => Left(u)' = Left(u)
           /\ \A t \in Tasks, a \in Accounts : Takes(t, a) => Left(u)' = Left(u)
           /\ \A t \in Tasks, a \in Accounts : Returns(t, a) =>
                Left(u)' = IF u = t THEN Left(u) - 1 ELSE Left(u)
<1>1. ASSUME NEW ids \in SUBSET Accounts, Starts(u, ids)
      PROVE  Left(u)' = Cardinality(ids)
    <2>1. Busy(u)' \cup Queued(u)' = ids
        BY <1>1, BusyMoves
    <2>. QED
        BY <2>1 DEF Left
<1>2. ASSUME Close(u), ~stopping
      PROVE  Left(u)' = Left(u)
    <2>1. Busy(u)' = Busy(u) /\ Queued(u)' = {} /\ Queued(u) = {}
        BY <1>2, BusyMoves, CloseFields
    <2>. QED
        BY <2>1 DEF Left
<1>3. ASSUME NEW t \in Tasks, NEW a \in Accounts, Takes(t, a)
      PROVE  Left(u)' = Left(u)
    BY <1>3, BusyMoves DEF Left
<1>4. ASSUME NEW t \in Tasks, NEW a \in Accounts, Returns(t, a)
      PROVE  Left(u)' = IF u = t THEN Left(u) - 1 ELSE Left(u)
    <2>1. IsFiniteSet(Busy(u) \cup Queued(u))
        BY FiniteWork
    <2>2. CASE u # t
        BY <1>4, <2>2, BusyMoves DEF Left
    <2>3. CASE u = t
        <3>1. a \in Busy(u) \cup Queued(u)
              /\ Busy(u)' \cup Queued(u)' = (Busy(u) \cup Queued(u)) \ {a}
            BY <1>4, <2>3, BusyMoves
        <3>. QED
            BY <2>1, <2>3, <3>1, FS_RemoveElement DEF Left
    <2>. QED
        BY <2>2, <2>3
<1>. QED
    BY <1>1, <1>2, <1>3, <1>4

LEMMA ProgressStep ==
    ASSUME Types, PhasesInv, ProgressTrue, [Next]_vars
    PROVE  ProgressTrue'
<1>. DEFINE Manual(t) == task[t].kind = "manual" /\ task[t].phase \in {"feeding", "closed"}
            AddsUp(t) == task[t].phase = "feeding" \/ ~stopping => reload.done + Left(t) = reload.total
            P == /\ reload.running <=> \E t \in Tasks : Manual(t)
                 /\ \A t \in Tasks : Manual(t) => AddsUp(t) /\ \A u \in Tasks : Manual(u) => u = t
                 /\ ~reload.running /\ ~stopping => reload.done = reload.total
<1>1. P
    BY DEF ProgressTrue, Reloading, Left
<1>2. P' => ProgressTrue'
    BY DEF ProgressTrue, Reloading, Left
<1>3. reload.total \in Nat /\ reload.done \in Nat /\ reload.running \in BOOLEAN
      /\ \A t \in Tasks : Left(t) \in Nat
    BY FiniteWork DEF Types, Progress, Left
<1>4. ASSUME NEW t \in Tasks, NEW ids \in SUBSET Accounts, Starts(t, ids)
      PROVE  P'
    <2>1. /\ ~Manual(t) /\ task'[t].phase = "feeding" /\ stopping' = stopping
          /\ \A u \in Tasks \ {t} : task'[u] = task[u] /\ work'[u] = work[u]
        BY <1>4, StartMoves
    <2>2. \A u \in Tasks \ {t} : (Manual(u)' <=> Manual(u)) /\ Left(u)' = Left(u)
        BY <2>1 DEF Left, Busy, Queued, At
    <2>3. CASE /\ task'[t].kind = "manual" /\ ~reload.running
               /\ reload'.running /\ reload'.total = Cardinality(ids) /\ reload'.done = 0
        <3>1. Left(t)' = Cardinality(ids) /\ Cardinality(ids) \in Nat
            BY <1>4, LeftMoves, RefreshAssumption, FS_Subset, FS_CardinalityType DEF RefreshAssumption
        <3>. QED
            BY <1>1, <2>1, <2>2, <2>3, <3>1
    <2>4. CASE task'[t].kind # "manual" /\ reload' = reload
        BY <1>1, <2>1, <2>2, <2>4
    <2>. QED
        BY <1>4, <2>3, <2>4, StartMoves
<1>5. ASSUME NEW t \in Tasks, Close(t)
      PROVE  P'
    <2>1. /\ task[t].phase = "feeding" /\ task'[t].phase = "closed" /\ task'[t].kind = task[t].kind
          /\ \A u \in Tasks \ {t} : task'[u] = task[u]
          /\ stopping' = stopping /\ reload' = reload
        BY <1>5, CloseFields
    <2>2. \A u \in Tasks : Manual(u)' <=> Manual(u)
        BY <2>1
    <2>3. ~stopping => Left(t)' = Left(t)
        BY <1>5, LeftMoves
    <2>4. \A u \in Tasks \ {t} : Left(u)' = Left(u)
        BY <1>5, BusyMoves DEF Left
    <2>. QED
        BY <1>1, <2>1, <2>2, <2>3, <2>4
<1>6. ASSUME NEW t \in Tasks, End(t)
      PROVE  P'
    <2>1. /\ task[t].phase = "closed" /\ task'[t].phase = "ended" /\ task'[t].kind = task[t].kind
          /\ \A u \in Tasks \ {t} : task'[u] = task[u]
          /\ stopping' = stopping /\ work' = work /\ Busy(t) = {}
          /\ reload'.total = reload.total /\ reload'.done = reload.done
        BY <1>6, EndFields
    <2>2. Left(t) = 0
        <3>1. Queued(t) = {}
            BY <2>1 DEF PhasesInv, Queued, At
        <3>. QED
            BY <2>1, <3>1, FS_EmptySet DEF Left
    <2>3. ~Manual(t)' /\ \A u \in Tasks \ {t} : (Manual(u)' <=> Manual(u)) /\ Left(u)' = Left(u)
        BY <2>1 DEF Left, Busy, Queued, At
    <2>4. CASE task[t].kind = "manual"
        <3>1. ~reload'.running /\ Manual(t)
            BY <1>6, <2>1, <2>4, EndFields
        <3>2. ~stopping => reload.done = reload.total
            BY <1>1, <1>3, <2>2, <3>1
        <3>. QED
            BY <1>1, <2>1, <2>3, <3>1, <3>2
    <2>5. CASE task[t].kind # "manual"
        <3>1. reload' = reload
            BY <1>6, <2>5, EndFields
        <3>. QED
            BY <1>1, <2>1, <2>3, <2>5, <3>1
    <2>. QED
        BY <2>4, <2>5
<1>7. ASSUME NEW t \in Tasks, NEW a \in Accounts, Takes(t, a)
      PROVE  P'
    <2>1. UNCHANGED <<task, reload, stopping>> /\ \A u \in Tasks : Left(u)' = Left(u)
        BY <1>7, TakeMoves, LeftMoves
    <2>. QED
        BY <1>1, <2>1
<1>8. ASSUME NEW t \in Tasks, NEW a \in Accounts, Returns(t, a)
      PROVE  P'
    <2>1. PICK res : Return(t, a, res)
        BY <1>8 DEF Returns
    <2>2. UNCHANGED <<task, stopping>>
          /\ \A u \in Tasks : Left(u)' = IF u = t THEN Left(u) - 1 ELSE Left(u)
        BY <1>8, <2>1, ReturnFields, LeftMoves
    <2>3. CASE task[t].kind # "manual"
        BY <1>1, <2>1, <2>2, <2>3, ReturnFields
    <2>4. CASE task[t].kind = "manual"
        <3>1. Manual(t)
            <4>1. task[t] \in Task /\ work[t][a] # "none"
                BY <1>8 DEF Returns, Types
            <4>2. task[t].phase \in {"feeding", "closed"}
                BY <4>1 DEF PhasesInv, Task
            <4>. QED
                BY <2>4, <4>2
        <3>2. reload'.running = reload.running /\ reload'.total = reload.total
              /\ reload'.done = reload.done + 1
            BY <2>1, <2>4, ReturnFields
        <3>3. \A u \in Tasks : Manual(u) => u = t
            BY <1>1, <3>1
        <3>4. AddsUp(t)'
            BY <1>1, <1>3, <2>2, <3>1, <3>2
        <3>. QED
            BY <1>1, <2>2, <3>1, <3>2, <3>3, <3>4
    <2>. QED
        BY <2>3, <2>4
<1>9. ASSUME Elsewhere, UNCHANGED <<task, work, reload>>
      PROVE  P'
    <2>1. ASSUME NEW s \in Subscribers, Subscribe(s) \/ Receive(s) \/ Leave(s)
          PROVE  stopping' = stopping
        BY <2>1, SubscriberFields
    <2>2. stopping => stopping'
        BY <1>9, <2>1 DEF Elsewhere, RemoveExhausted, Patch, Changed, Stop, vars
    <2>3. \A u \in Tasks : Left(u)' = Left(u)
        BY <1>9 DEF Left, Busy, Queued, At
    <2>. QED
        BY <1>1, <1>9, <2>2, <2>3
<1>. HIDE DEF P
<1>. QED
    BY <1>2, <1>4, <1>5, <1>6, <1>7, <1>8, <1>9, Steps

(***************************************************************************)
(* Events.                                                                 *)
(***************************************************************************)
\* What the code does about reload it tells every channel that has room.
LEMMA ToldOrNot ==
    ASSUME Types, PhasesInv, [Next]_vars
    PROVE  \/ reload' = reload /\ sub' = sub
           \/ reload' \in Progress /\ Broadcast(reload')
           \/ reload'.running /\ sub' = sub
           \/ reload' = reload /\ \E s \in Subscribers : Subscribe(s) \/ Receive(s) \/ Leave(s)
<1>1. ASSUME NEW t \in Tasks, NEW ids \in SUBSET Accounts, Starts(t, ids)
      PROVE  (reload' = reload /\ sub' = sub) \/ (reload'.running /\ sub' = sub)
    BY <1>1, StartMoves
<1>2. ASSUME NEW t \in Tasks, Close(t)
      PROVE  reload' = reload /\ sub' = sub
    BY <1>2, CloseFields
<1>3. ASSUME NEW t \in Tasks, End(t)
      PROVE  (reload' = reload /\ sub' = sub) \/ (reload' \in Progress /\ Broadcast(reload'))
    BY <1>3, EndFields
<1>4. ASSUME NEW t \in Tasks, NEW a \in Accounts, Takes(t, a)
      PROVE  reload' = reload /\ sub' = sub
    BY <1>4, TakeMoves
<1>5. ASSUME NEW t \in Tasks, NEW a \in Accounts, Returns(t, a)
      PROVE  (reload' = reload /\ sub' = sub) \/ (reload' \in Progress /\ Broadcast(reload'))
    BY <1>5, ReturnFields DEF Returns
<1>6. ASSUME Elsewhere, UNCHANGED <<task, work, reload>>
      PROVE  \/ reload' = reload /\ sub' = sub
             \/ reload' = reload /\ \E s \in Subscribers : Subscribe(s) \/ Receive(s) \/ Leave(s)
    BY <1>6 DEF Elsewhere, RemoveExhausted, Patch, Changed, Stop, vars
<1>. QED
    BY <1>1, <1>2, <1>3, <1>4, <1>5, <1>6, Steps

LEMMA ChannelsStep ==
    ASSUME Types, PhasesInv, ChannelsInv, LastEventKnown, [Next]_vars
    PROVE  ChannelsInv' /\ LastEventKnown'
<1>. DEFINE Told(s) == sub[s].missed \/ \E i \in DOMAIN sub[s].ch : Over(sub[s].ch[i])
            OK(s) == Len(sub[s].ch) <= Capacity /\ (sub[s].pc = "reading" /\ Over(reload) => Told(s))
<1>1. SUFFICES ASSUME NEW s \in Subscribers
               PROVE  OK(s)'
    BY DEF ChannelsInv, LastEventKnown
<1>2. OK(s) /\ sub[s] \in Subscription /\ sub[s].ch \in Seq(Progress) /\ Len(sub[s].ch) \in Nat
    BY DEF ChannelsInv, LastEventKnown, Types, Subscription
<1>3. Capacity \in Nat \ {0}
    BY RefreshAssumption DEF RefreshAssumption
<1>4. CASE reload' = reload /\ sub' = sub
    BY <1>2, <1>4 DEF Over
<1>5. CASE reload' \in Progress /\ Broadcast(reload')
    <2>1. CASE sub[s].pc # "reading"
        <3>1. sub'[s] = sub[s]
            BY <1>5, <2>1, BroadcastTo DEF Types
        <3>. QED
            BY <1>2, <2>1, <3>1
    <2>2. CASE sub[s].pc = "reading" /\ Len(sub[s].ch) < Capacity
        <3>1. sub'[s].ch = Append(sub[s].ch, reload')
            BY <1>5, <2>2, BroadcastTo DEF Types
        <3>2. /\ Len(sub'[s].ch) = Len(sub[s].ch) + 1 /\ DOMAIN sub'[s].ch = 1..Len(sub[s].ch) + 1
              /\ sub'[s].ch[Len(sub[s].ch) + 1] = reload'
            BY <1>2, <1>5, <3>1
        <3>3. Len(sub[s].ch) + 1 \in DOMAIN sub'[s].ch
            BY <1>2, <3>2
        <3>4. Over(reload)' => Told(s)'
            BY <3>2, <3>3 DEF Over
        <3>. QED
            BY <1>2, <1>3, <2>2, <3>2, <3>4
    <2>3. CASE sub[s].pc = "reading" /\ ~(Len(sub[s].ch) < Capacity)
        <3>1. sub'[s].ch = sub[s].ch /\ sub'[s].missed = (sub[s].missed \/ Over(reload'))
            BY <1>5, <2>3, BroadcastTo DEF Types
        <3>. QED
            BY <1>2, <3>1 DEF Over
    <2>. QED
        BY <2>1, <2>2, <2>3
<1>6. CASE reload'.running /\ sub' = sub
    BY <1>2, <1>6 DEF Over
<1>7. ASSUME reload' = reload, NEW r \in Subscribers, Subscribe(r) \/ Receive(r) \/ Leave(r)
      PROVE  OK(s)'
    <2>1. CASE s # r
        BY <1>2, <1>7, <2>1, SubscriberFields DEF Over
    <2>2. CASE s = r
        <3>1. CASE sub[s].pc = "new" /\ sub'[s].ch = sub[s].ch /\ (sub'[s].pc = "reading" => ~Over(reload))
            BY <1>2, <1>7, <3>1 DEF Over
        <3>2. CASE sub'[s].pc # "reading" /\ sub'[s].ch = <<>>
            BY <1>3, <3>2
        <3>3. CASE /\ sub[s].pc = "reading" /\ sub[s].ch # <<>> /\ ~Over(Head(sub[s].ch))
                   /\ sub'[s].ch = Tail(sub[s].ch) /\ sub'[s].missed = sub[s].missed
            <4>1. /\ Len(sub'[s].ch) = Len(sub[s].ch) - 1 /\ Len(sub[s].ch) > 0
                  /\ \A i \in 1..Len(sub[s].ch) - 1 : sub'[s].ch[i] = sub[s].ch[i + 1]
                  /\ DOMAIN sub'[s].ch = 1..Len(sub[s].ch) - 1
                  /\ DOMAIN sub[s].ch = 1..Len(sub[s].ch)
                BY <1>2, <3>3
            <4>2. ASSUME Over(reload), ~sub[s].missed
                  PROVE  \E i \in DOMAIN sub'[s].ch : Over(sub'[s].ch[i])
                <5>1. PICK i \in DOMAIN sub[s].ch : Over(sub[s].ch[i])
                    BY <1>2, <3>3, <4>2
                <5>2. Head(sub[s].ch) = sub[s].ch[1]
                    BY <1>2, <3>3
                <5>3. i \in 1..Len(sub[s].ch) /\ i # 1
                    BY <3>3, <4>1, <5>1, <5>2
                <5>4. i - 1 \in 1..Len(sub[s].ch) - 1 /\ i - 1 + 1 = i
                    BY <1>2, <5>3
                <5>5. i - 1 \in DOMAIN sub'[s].ch /\ sub'[s].ch[i - 1] = sub[s].ch[i]
                    BY <4>1, <5>4
                <5>. QED
                    BY <5>1, <5>5
            <4>3. Len(sub'[s].ch) <= Capacity
                BY <1>2, <1>3, <4>1
            <4>4. Over(reload)' = Over(reload)
                BY <1>7 DEF Over
            <4>5. sub[s].missed \in BOOLEAN
                BY <1>2 DEF Subscription
            <4>6. Over(reload) => Told(s)'
                BY <3>3, <4>2, <4>5
            <4>. QED
                BY <4>3, <4>4, <4>6
        <3>. QED
            BY <1>7, <2>2, <3>1, <3>2, <3>3, SubscriberFields
    <2>. QED
        BY <2>1, <2>2
<1>. QED
    BY <1>4, <1>5, <1>6, <1>7, ToldOrNot

(***************************************************************************)
(* The theorems.                                                           *)
(***************************************************************************)
LEMMA RefreshStarts == Init => RefreshInv
<1>. SUFFICES ASSUME Init
              PROVE  RefreshInv
    OBVIOUS
<1>1. {Workers, Capacity} \subseteq Nat \ {0}
    BY RefreshAssumption DEF RefreshAssumption
<1>2. \A t \in Tasks, a \in Accounts : work[t][a] = "none"
    BY DEF Init, Idle
<1>3. Types
    <2>1. reload \in Progress /\ reload.exhausted + reload.invalid <= reload.done
        BY DEF Init, Progress
    <2>2. sub \in [Subscribers -> Subscription]
        BY DEF Init, Subscription
    <2>. QED
        BY <2>1, <2>2 DEF Init, Types, Task, Place, Idle
<1>4. PhasesInv
    BY <1>2 DEF PhasesInv, Init
<1>5. WorkersInv
    <2>1. \A t \in Tasks : Busy(t) = {}
        BY <1>2 DEF Busy
    <2>. QED
        BY <1>1, <2>1, FS_EmptySet DEF WorkersInv
<1>6. LocksInv
    BY <1>2 DEF LocksInv, Checking, Init
<1>7. AgreeInv
    BY DEF AgreeInv, Init
<1>8. ProgressTrue
    BY DEF ProgressTrue, Reloading, Init
<1>9. ChannelsInv /\ LastEventKnown
    <2>1. \A s \in Subscribers : sub[s].pc = "new" /\ sub[s].ch = <<>>
        BY DEF Init
    <2>2. Len(<<>>) = 0
        OBVIOUS
    <2>. QED
        BY <1>1, <2>1, <2>2 DEF ChannelsInv, LastEventKnown
<1>. QED
    BY <1>3, <1>4, <1>5, <1>6, <1>7, <1>8, <1>9 DEF RefreshInv

\* Health checks keep to the inductive invariant, whatever they meet.
LEMMA RefreshInvariant == Spec => []RefreshInv
<1>1. Init => RefreshInv
    BY RefreshStarts
<1>2. RefreshInv /\ [Next]_vars => RefreshInv'
    <2>. SUFFICES ASSUME RefreshInv, [Next]_vars
                  PROVE  RefreshInv'
        OBVIOUS
    <2>. USE DEF RefreshInv
    <2>1. Types'
        BY TypesStep
    <2>2. PhasesInv'
        BY PhasesStep
    <2>3. WorkersInv'
        BY WorkersStep
    <2>4. LocksInv'
        BY LocksStep
    <2>5. AgreeInv'
        BY AgreeStep
    <2>6. ProgressTrue'
        BY ProgressStep
    <2>7. ChannelsInv' /\ LastEventKnown'
        BY ChannelsStep
    <2>. QED
        BY <2>1, <2>2, <2>3, <2>4, <2>5, <2>6, <2>7
<1>. QED
    BY <1>1, <1>2, PTL DEF Spec

\* RefreshTypeOK: every variable has its type, no more accounts of a task are
\* out than it has workers, no channel holds more than it has room for, and
\* no account is counted as two things (refreshAccounts, its workers and the
\* subscribers of a reload).
THEOREM RefreshTypes == Spec => []RefreshTypeOK
<1>1. RefreshInv => RefreshTypeOK
    <2>. SUFFICES ASSUME RefreshInv
                  PROVE  RefreshTypeOK
        OBVIOUS
    <2>1. \A s \in Subscribers : sub[s].pc \in {"new", "reading", "ended", "left"}
                                 /\ sub[s].ch \in Seq(Progress) /\ Len(sub[s].ch) <= Capacity
        BY DEF RefreshInv, Types, Subscription, ChannelsInv
    <2>2. stale \subseteq Tasks \X Accounts
        BY DEF RefreshInv, AgreeInv
    <2>. QED
        BY <2>1, <2>2 DEF RefreshInv, RefreshTypeOK, Types, Task, Place, WorkersInv
<1>. QED
    BY <1>1, RefreshInvariant, PTL

\* ProgressTrue: one reload is under way at a time, what is done, out and
\* queued adds up to its total, and a reload nobody cut short ends with all
\* of it done (startRefresh, refreshAccounts, reloadState).
THEOREM ProgressIsTrue == Spec => []ProgressTrue
<1>1. RefreshInv => ProgressTrue
    BY DEF RefreshInv
<1>. QED
    BY <1>1, RefreshInvariant, PTL

\* ChecksAtomic: one task checks an account at a time and holds its lock, the
\* row and the pool agree once it is done unless a store call failed, and no
\* edit overtakes it (refreshOne, lockAccount).
THEOREM ChecksAreAtomic == Spec => []ChecksAtomic
<1>1. RefreshInv => ChecksAtomic
    <2>. SUFFICES ASSUME RefreshInv
                  PROVE  ChecksAtomic
        OBVIOUS
    <2>1. ASSUME NEW a \in Accounts
          PROVE  Cardinality(Checking(a)) = IF a \in locked THEN 1 ELSE 0
        <3>1. CASE a \in locked
            <4>1. PICK t \in Tasks : Checking(a) = {t}
                BY <3>1 DEF RefreshInv, LocksInv
            <4>. QED
                BY <3>1, <4>1, FS_Singleton
        <3>2. CASE a \notin locked
            BY <3>2, FS_EmptySet DEF RefreshInv, LocksInv
        <3>. QED
            BY <3>1, <3>2
    <2>2. ASSUME NEW a \in Accounts \ (locked \cup split)
          PROVE  mem[a] = "on" <=> row[a] = "on"
        <3>1. Checking(a) = {}
            BY DEF RefreshInv, LocksInv
        <3>2. \A t \in Tasks : work[t][a] # "disable"
            BY <3>1 DEF Checking
        <3>. QED
            BY <3>2 DEF RefreshInv, AgreeInv
    <2>. QED
        BY <2>1, <2>2 DEF RefreshInv, AgreeInv, ChecksAtomic
<1>. QED
    BY <1>1, RefreshInvariant, PTL

\* LastEventKnown: who watches a reload that is over has the last event, or
\* will read it, unless its channel was full (broadcastProgressLocked and
\* handleReloadStream).
THEOREM LastEventIsKnown == Spec => []LastEventKnown
<1>1. RefreshInv => LastEventKnown
    BY DEF RefreshInv
<1>. QED
    BY <1>1, RefreshInvariant, PTL
=============================================================================

------------------------- MODULE RefreshProperties -------------------------
(***************************************************************************)
(* What must hold of health checks and reloads.                            *)
(***************************************************************************)
EXTENDS Refresh

Progress == [running: BOOLEAN, total: Nat, done: Nat, exhausted: Nat, invalid: Nat]

\* Every variable has its type; an account is only counted as one thing.
RefreshTypeOK ==
    /\ row \in [Accounts -> {"on", "off", "exhausted", "none"}]
    /\ mem \in [Accounts -> {"on", "off"}]
    /\ locked \subseteq Accounts /\ split \subseteq Accounts
    /\ stale \subseteq Tasks \X Accounts
    /\ task \in [Tasks -> [kind: {"none", "manual", "auto", "single"},
                           phase: {"new", "feeding", "closed", "ended"}]]
    /\ work \in [Tasks -> [Accounts -> {"none", "queued", "lock", "check", "disable"}]]
    /\ \A t \in Tasks : Cardinality(Busy(t)) <= Workers
    /\ reload \in Progress /\ reload.exhausted + reload.invalid <= reload.done
    /\ \A s \in Subscribers : /\ sub[s].pc \in {"new", "reading", "ended", "left"}
                              /\ sub[s].ch \in Seq(Progress) /\ Len(sub[s].ch) <= Capacity
    /\ stopping \in BOOLEAN

\* The progress shown is that of the one reload under way: what is done, in
\* the hands of a worker and still queued adds up to the total, and a reload
\* that was not cut short by shutdown ends with everything done.  Tasks that
\* run beside it leave it alone.
Reloading == {t \in Tasks : task[t].kind = "manual" /\ task[t].phase \in {"feeding", "closed"}}
ProgressTrue ==
    /\ reload.running <=> Reloading # {}
    /\ \A t \in Reloading :
         /\ Reloading = {t}
         /\ task[t].phase = "feeding" \/ ~stopping =>
              reload.done + Cardinality(Busy(t) \cup Queued(t)) = reload.total
    /\ ~reload.running /\ ~stopping => reload.done = reload.total

\* An account is checked by one task at a time, which holds its lock until it
\* is done with it; a check disables the account in the table and in the pool,
\* or in neither, unless a store call failed in between; and what it found was
\* never overtaken by an administrator's edit.
Checking(a) == {t \in Tasks : work[t][a] \in {"check", "disable"}}
ChecksAtomic ==
    /\ \A a \in Accounts : Cardinality(Checking(a)) = IF a \in locked THEN 1 ELSE 0
    /\ \A a \in Accounts \ (locked \cup split) : mem[a] = "on" <=> row[a] = "on"
    /\ stale = {}

\* A client that watches a reload which is over has been told, or is about to
\* read it, unless just that event found its channel full: only then does it
\* wait for nothing.
LastEventKnown ==
    \A s \in Subscribers :
        sub[s].pc = "reading" /\ Over(reload) =>
            sub[s].missed \/ \E i \in DOMAIN sub[s].ch : Over(sub[s].ch[i])
=============================================================================

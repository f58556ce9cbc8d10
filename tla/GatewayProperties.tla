------------------------- MODULE GatewayProperties -------------------------
(***************************************************************************)
(* What must hold of the gateway's requests.                               *)
(***************************************************************************)
EXTENDS Gateway

Created == Requests \X (1..Cardinality(Ids)) \X Ids
Todo    == {NoTodo} \cup Created

Request == [pc: {"idle", "pick", "acquire", "create", "send", "wait", "policy",
                 "cooling", "recheck", "put", "done"},
            resuming: BOOLEAN, acc: SUBSET Ids, todo: Todo,
            excluded: SUBSET Ids, attempt: Nat, limit: Nat, tried: SUBSET Ids,
            seen: SUBSET Todo, fail: Failures \cup {"none"},
            out: {"none", "reply", "failed", "unavailable", "gone"}]

CoolDownCall == [acc: SUBSET Ids, until: Nat, current: Nat \cup {Unread}]

\* Every variable has its type; an account is never tried more often than
\* there are accounts, so todos are numbered within the type.
GatewayTypeOK ==
    /\ slots \in Seq(Ids) /\ disabled \subseteq Ids /\ removed \subseteq Ids
    /\ cooldown \in [Ids -> Nat] /\ cooling \in [Callers -> CoolDownCall]
    /\ inflight \in [Ids -> Nat]
    /\ req \in [Requests -> Request]
    /\ sessions \subseteq [todo: Todo, slot: 1..Len(slots)]
    /\ spent \in [changes: Nat, faults: Nat]

\* The inflight counters are exactly the requests using an account, on every
\* path out of complete: a count left behind makes leastBusy avoid a healthy
\* account for ever.
Holds(q, a) ==
    /\ a \in req[q].acc
    /\ \/ req[q].pc \in {"create", "send", "wait", "put"}
       \/ req[q].pc \in {"policy", "cooling"} /\ req[q].resuming
InflightBalanced ==
    \A a \in Ids : inflight[a] = Cardinality({q \in Requests : Holds(q, a)})

\* A streaming client only ever sees text of one todo: once a byte went out,
\* the request does not fail over (the protocol output would be duplicated).
OneVisibleTodo == \A q \in Requests : Cardinality(req[q].seen) <= 1

\* A request never comes back to an account it has tried, even if that has
\* been enabled or has cooled off meanwhile: so failing over always ends.
TriesDistinct ==
    [][\A q \in Requests : At(q, "acquire") /\ req'[q].pc = "create" =>
         Acc(q) \notin req[q].tried]_vars

\* A session leads back to the account its todo lives on, and a request that
\* resumes a todo talks to that account, whatever happened to the pool.
SessionsNameOwner ==
    /\ \A s \in sessions : slots[s.slot] = s.todo[3]
    /\ \A q \in Requests :
         req[q].pc \in {"send", "wait", "put"} => req[q].acc = {req[q].todo[3]}

\* Failures that overlap never shorten a cooldown: it ends when its time is
\* over, which passes for all accounts alike, or when an administrator ends
\* it; and a call of CoolDown that returns leaves the account cooling at least
\* as long as it was called for, whatever the others stored meanwhile.
CooldownsOnlyExtend ==
    [][/\ \A a \in Ids : cooldown'[a] < cooldown[a] /\ cooldown'[a] # 0 =>
            \A b \in Ids : cooldown[b] > 0 => cooldown'[b] < cooldown[b]
       /\ \A c \in Callers : \A a \in cooling[c].acc :
            cooling'[c] = Quiet => cooldown'[a] >= cooling[c].until]_vars

\* Every request is answered, however many accounts fail and whatever the
\* administrator does meanwhile: it can always take its next step, and every
\* step brings it closer to its answer, because failing over uses up an account.
\* Only CoolDown may go round before it returns, each time because another end
\* was stored since it looked.
Phase == [idle |-> 9, recheck |-> 8, pick |-> 7, acquire |-> 6, create |-> 5,
          send |-> 5, wait |-> 4, policy |-> 3, cooling |-> 2, put |-> 1]
StepsLeft(q) ==
    IF At(q, "done") THEN 0
    ELSE 10 * Cardinality(Ids \ req[q].excluded) + Phase[req[q].pc]
FailoverEnds ==
    [][\A q \in Requests :
         req'[q].pc # req[q].pc => StepsLeft(q)' < StepsLeft(q)]_vars
EveryRequestAnswers ==
    /\ [](\A q \in Requests : ~At(q, "idle") /\ ~At(q, "done") =>
            ENABLED (Advance(q) \/ loadCooldown(q) \/ swapCooldown(q)))
    /\ FailoverEnds
=============================================================================

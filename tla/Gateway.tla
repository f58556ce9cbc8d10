------------------------------ MODULE Gateway ------------------------------
(***************************************************************************)
(* Requests of the gateway (internal/gateway/gateway.go, complete and      *)
(* startNewConversationExcept) on top of the account pool.  A request      *)
(* starts a conversation, failing over from account to account, or resumes *)
(* the todo of an earlier reply on the account that owns it.  The pool is  *)
(* the abstract one of Roster, which Pool implements; this module adds     *)
(* what Pool leaves out, the cooldowns and the inflight counters.  Calls   *)
(* of CoolDown, by requests and by health checks, overlap: each loads the  *)
(* cooldown, compares, and stores only if nobody stored since.             *)
(*                                                                         *)
(* A todo is <<request, number, account>>: the account it was created on   *)
(* is part of its identity, as it is upstream.  Waiting for the assistant  *)
(* is a result here and a protocol in Turn.  Sessions do not expire here,  *)
(* only in Conversation.  The health columns MarkInvalid writes are shown  *)
(* to the administrator and read by nobody else.                           *)
(***************************************************************************)
EXTENDS Integers, Roster, FiniteSetsExt

CONSTANTS
    Requests,    \* goroutines serving one request each
    Streaming,   \* those of them whose client asked for a stream (emit # nil)
    MaxAttempts, \* maxNewConversationAttempts
    Strategy,    \* cfg.Pool.Strategy
    Failures,    \* the failures the upstream produces
    MaxChanges,  \* bound: changes made to accounts by the administrator
    MaxFaults    \* bound: store writes that fail

ASSUME GatewayAssumption ==
    /\ IsFiniteSet(Ids) /\ IsFiniteSet(Requests) /\ Streaming \subseteq Requests
    /\ Requests \cap Ids = {}
    /\ MaxAttempts \in Nat \ {0}
    /\ Strategy \in {"round_robin", "least_busy"}
    /\ Failures \subseteq {"slow", "run", "empty", "auth", "paid", "rate",
                           "transient", "other"}
    /\ MaxChanges \in Nat /\ MaxFaults \in Nat

VARIABLES
    cooldown, \* seconds left until cooldownUntil of every account
    cooling,  \* the calls of CoolDown under way
    inflight, \* inflight of every account
    req,      \* the requests
    sessions, \* session.Store: the slot that owns each todo
    spent     \* budgets used: changes, faults

clocks == <<cooldown, cooling>>
own    == <<clocks, inflight, req, sessions, spent>>
vars   == <<roster, own>>

\* CoolDown is called by requests and by the health check of an account, of
\* which there is one at a time (lockAccount).  A call knows the account, the
\* seconds left until its own end, and those of the end it has loaded.
Callers == Requests \cup Ids
Unread  == -1
Quiet   == [acc |-> {}, until |-> 0, current |-> Unread]

NoTodo == <<>>
Idle == [pc |-> "idle", resuming |-> FALSE, acc |-> {}, todo |-> NoTodo,
         excluded |-> {}, attempt |-> 0, limit |-> 0,
         tried |-> {}, seen |-> {}, fail |-> "none", out |-> "none"]

Init ==
    /\ slots \in UNION {[1..n -> Ids] : n \in 0..Cardinality(Ids)}
    /\ disabled \in SUBSET (Ids \ Range(slots)) /\ removed = {}
    /\ RosterInit
    /\ cooldown = [a \in Ids |-> 0]
    /\ cooling = [c \in Callers |-> Quiet]
    /\ inflight = [a \in Ids |-> 0]
    /\ req = [q \in Requests |-> Idle]
    /\ sessions = {}
    /\ spent = [changes |-> 0, faults |-> 0]

At(q, l)     == req[q].pc = l
Become(q, r) == req' = [req EXCEPT ![q] = r]
Goto(q, l)   == req' = [req EXCEPT ![q].pc = l]
Acc(q)       == CHOOSE a \in req[q].acc : TRUE
Acquired(a)  == inflight' = [inflight EXCEPT ![a] = @ + 1]
Released(a)  == inflight' = [inflight EXCEPT ![a] = @ - 1]
Answer(q, out) == Become(q, [Idle EXCEPT !.pc = "done", !.out = out])

-----------------------------------------------------------------------------
(***************************************************************************)
(* Faulty variants of the definitions below; no action uses them.          *)
(***************************************************************************)
\* CoolDown that stores its end although another was stored since it looked.
storesBlindly(c) ==
    /\ cooling[c].current # Unread
    /\ \E a \in cooling[c].acc : cooldown' = [cooldown EXCEPT ![a] = cooling[c].until]
    /\ cooling' = [cooling EXCEPT ![c] = Quiet]
    /\ UNCHANGED <<roster, inflight, req, sessions, spent>>

\* An account whose conversation failed after creation is not excluded.
excludesCreateOnly(q) == req[q].excluded \cup
                         (IF req[q].todo = NoTodo THEN req[q].acc ELSE {})

\* Failing over although the client has seen text of the failed todo.
finalOnResume(q) == req[q].resuming

\* The session entry counts enabled accounts only.
indexOfEnabled(a) ==
    Max({1, Cardinality({i \in DOMAIN slots : slots[i] \notin disabled /\
                           \E j \in DOMAIN slots : slots[j] = a /\ i <= j})})

\* A failed creation that returns without Release.
createLeaks(q, k) ==
    /\ At(q, "create") /\ k \in Failures
    /\ Become(q, [req[q] EXCEPT !.pc = "policy", !.fail = k])
    /\ UNCHANGED <<roster, clocks, inflight, sessions, spent>>

\* A failed wait that releases the account of a resumed request as well.
waitReleases(q, k) ==
    /\ At(q, "wait") /\ k \in Failures
    /\ Become(q, [req[q] EXCEPT !.pc = "policy", !.fail = k])
    /\ Released(Acc(q))
    /\ UNCHANGED <<roster, clocks, sessions, spent>>

\* A failure without a policy is tried again.
retriesOthers(q) ==
    /\ At(q, "policy") /\ req[q].fail = "other"
    /\ Become(q, [req[q] EXCEPT !.pc = "pick", !.fail = "none", !.todo = NoTodo])
    /\ UNCHANGED <<roster, clocks, inflight, sessions, spent>>

-----------------------------------------------------------------------------
(***************************************************************************)
(* Selection.                                                              *)
(***************************************************************************)
available(a) == a \notin disabled /\ a \notin removed /\ cooldown[a] = 0

\* The account reached at an offset from where the scan starts.
Scanned(start, offset) == slots[((start + offset) % Len(slots)) + 1]
Eligible(start, excluded) ==
    {k \in 0..Len(slots) - 1 : /\ Scanned(start, k) \notin excluded
                               /\ available(Scanned(start, k))}

roundRobin(start, excluded) == Scanned(start, Min(Eligible(start, excluded)))

leastBusy(start, excluded) ==
    LET busy(k) == inflight[Scanned(start, k)]
        ks == Eligible(start, excluded)
    IN  Scanned(start, Min({k \in ks : \A l \in ks : busy(k) <= busy(l)}))

\* PickExcept: at most one account.  The counter rr that gives the start of
\* the scan is shared by all requests, so any slot may be it.
PickExcept(start, excluded) ==
    IF Eligible(start, excluded) = {} THEN {}
    ELSE {IF Strategy = "least_busy" THEN leastBusy(start, excluded)
          ELSE roundRobin(start, excluded)}
Starts == 0..Max({Len(slots) - 1, 0})

-----------------------------------------------------------------------------
(***************************************************************************)
(* A new conversation.                                                     *)
(***************************************************************************)
\* startNewConversationExcept is entered with the exclusions so far.
EnabledLen == Cardinality({i \in DOMAIN slots : slots[i] \notin disabled \cup removed})
Entered(r) == [r EXCEPT !.pc = "pick", !.attempt = 0, !.todo = NoTodo,
                        !.limit = Min({EnabledLen, MaxAttempts})]

StartNew(q) ==
    /\ At(q, "idle")
    /\ Become(q, Entered(Idle))
    /\ UNCHANGED <<roster, clocks, inflight, sessions, spent>>

Pick(q) ==
    /\ At(q, "pick")
    /\ \E start \in Starts :
         LET found == IF req[q].attempt < req[q].limit
                      THEN PickExcept(start, req[q].excluded) ELSE {}
         IN  IF found = {}
             THEN Answer(q, "unavailable")
             ELSE Become(q, [req[q] EXCEPT !.pc = "acquire", !.acc = found])
    /\ UNCHANGED <<roster, clocks, inflight, sessions, spent>>

Acquire(q) ==
    /\ At(q, "acquire")
    /\ Acquired(Acc(q))
    /\ Become(q, [req[q] EXCEPT !.pc = "create", !.tried = @ \cup req[q].acc])
    /\ UNCHANGED <<roster, clocks, sessions, spent>>

\* PrepareSubscription, the attachments and the todo, or the first of them
\* that fails.
CreateTodo(q) ==
    /\ At(q, "create")
    /\ Become(q, [req[q] EXCEPT !.pc = "wait",
                    !.todo = <<q, Cardinality(req[q].tried), Acc(q)>>])
    /\ UNCHANGED <<roster, clocks, inflight, sessions, spent>>

\* The upstream answers without an id.
CreateNothing(q) ==
    /\ At(q, "create")
    /\ Released(Acc(q))
    /\ Answer(q, "failed")
    /\ UNCHANGED <<roster, clocks, sessions, spent>>

CreateFails(q, k) ==
    /\ At(q, "create") /\ k \in Failures \ {"slow", "run", "empty"}
    /\ Released(Acc(q))
    /\ Become(q, [req[q] EXCEPT !.pc = "policy", !.fail = k])
    /\ UNCHANGED <<roster, clocks, sessions, spent>>

-----------------------------------------------------------------------------
(***************************************************************************)
(* A resumed conversation; its account is released when complete returns.  *)
(***************************************************************************)
Resume(q) ==
    /\ At(q, "idle")
    /\ \E s \in sessions :
         \/ /\ AtSlot(s.slot) = {}
            /\ Answer(q, "gone") /\ UNCHANGED inflight
         \/ \E a \in AtSlot(s.slot) :
              /\ Acquired(a)
              /\ Become(q, [Idle EXCEPT !.pc = "send", !.resuming = TRUE,
                              !.acc = {a}, !.todo = s.todo])
    /\ UNCHANGED <<roster, clocks, sessions, spent>>

\* metadata names a todo the store does not know.
ResumeUnknown(q) ==
    /\ At(q, "idle")
    /\ Answer(q, "gone")
    /\ UNCHANGED <<roster, clocks, inflight, sessions, spent>>

\* The message is accepted upstream; a stream starts at once.
Send(q) ==
    /\ At(q, "send")
    /\ Become(q, [req[q] EXCEPT !.pc = "wait",
                    !.seen = IF q \in Streaming THEN {req[q].todo} ELSE {}])
    /\ UNCHANGED <<roster, clocks, inflight, sessions, spent>>

\* The subscription or the message fails, which is the account's fault ...
SendFails(q, k) ==
    /\ At(q, "send") /\ k \in Failures \ {"slow", "run", "empty"}
    /\ Become(q, [req[q] EXCEPT !.pc = "policy", !.fail = k])
    /\ UNCHANGED <<roster, clocks, inflight, sessions, spent>>

\* ... or reading the last turn, an attachment or the client does, which is
\* not: the error is returned as it is.
SendAborts(q) ==
    /\ At(q, "send")
    /\ Released(Acc(q))
    /\ Answer(q, "failed")
    /\ UNCHANGED <<roster, clocks, sessions, spent>>

-----------------------------------------------------------------------------
(***************************************************************************)
(* Waiting for the assistant, new and resumed.                             *)
(***************************************************************************)
Delta(q) ==
    /\ At(q, "wait") /\ q \in Streaming
    /\ Become(q, [req[q] EXCEPT !.seen = @ \cup {req[q].todo}])
    /\ UNCHANGED <<roster, clocks, inflight, sessions, spent>>

WaitDone(q) ==
    /\ At(q, "wait")
    /\ Become(q, [req[q] EXCEPT !.pc = "put",
                    !.seen = IF q \in Streaming THEN @ \cup {req[q].todo} ELSE @])
    /\ UNCHANGED <<roster, clocks, inflight, sessions, spent>>

\* The client is gone when a stream that has not started yet is to start.
StartStreamFails(q) ==
    /\ At(q, "wait") /\ q \in Streaming /\ req[q].seen = {} /\ ~req[q].resuming
    /\ Released(Acc(q))
    /\ Answer(q, "failed")
    /\ UNCHANGED <<roster, clocks, sessions, spent>>

\* A new conversation releases its account at once, a resumed one when its
\* request ends.
WaitFails(q, k) ==
    /\ At(q, "wait") /\ k \in Failures
    /\ Become(q, [req[q] EXCEPT !.pc = "policy", !.fail = k])
    /\ IF req[q].resuming THEN UNCHANGED inflight ELSE Released(Acc(q))
    /\ UNCHANGED <<roster, clocks, sessions, spent>>

-----------------------------------------------------------------------------
(***************************************************************************)
(* A failed account.                                                       *)
(***************************************************************************)
accountFailurePolicy(k) ==
    CASE k \in {"slow", "empty"} -> [action |-> "cooldown", secs |-> 600]
      [] k \in {"run", "rate"}   -> [action |-> "cooldown", secs |-> 120]
      [] k = "auth"              -> [action |-> "cooldown", secs |-> 3600]
      [] k = "transient"         -> [action |-> "cooldown", secs |-> 30]
      [] k = "paid"              -> [action |-> "remove", secs |-> 0]
      [] OTHER                   -> [action |-> "none", secs |-> 0]

\* Account.CoolDown is called ...
called(c, a, secs) ==
    cooling' = [cooling EXCEPT ![c] = [acc |-> {a}, until |-> secs, current |-> Unread]]

\* ... loads the end of the cooldown, and returns if that is not before its
\* own ...
loadCooldown(c) ==
    /\ cooling[c].current = Unread
    /\ \E a \in cooling[c].acc :
         cooling' = [cooling EXCEPT ![c] = IF cooldown[a] >= @.until THEN Quiet
                                           ELSE [@ EXCEPT !.current = cooldown[a]]]
    /\ UNCHANGED <<roster, cooldown, inflight, req, sessions, spent>>

\* ... or stores its own, unless the cooldown has changed: then it loads again.
swapCooldown(c) ==
    /\ cooling[c].current # Unread
    /\ \E a \in cooling[c].acc :
         \/ /\ cooldown[a] = cooling[c].current
            /\ cooldown' = [cooldown EXCEPT ![a] = cooling[c].until]
            /\ cooling' = [cooling EXCEPT ![c] = Quiet]
         \/ /\ cooldown[a] # cooling[c].current
            /\ cooling' = [cooling EXCEPT ![c].current = Unread]
            /\ UNCHANGED cooldown
    /\ UNCHANGED <<roster, inflight, req, sessions, spent>>

\* Failures after which no other account may be tried: the todo is given, or
\* the client has seen some of it.
Final(q) == req[q].resuming \/ req[q].seen # {}

Excluded(q) == req[q].excluded \cup req[q].acc

\* The failure ends the request, or the next account is looked for.
AfterFailure(q) ==
    IF Final(q)
    THEN /\ Answer(q, "failed")
         /\ IF req[q].resuming THEN Released(Acc(q)) ELSE UNCHANGED inflight
    ELSE /\ Become(q, [req[q] EXCEPT
                         !.pc = IF req[q].todo = NoTodo THEN "pick" ELSE "recheck",
                         !.attempt = @ + 1, !.excluded = Excluded(q)])
         /\ UNCHANGED inflight

NoPolicy(q) ==
    /\ At(q, "policy") /\ accountFailurePolicy(req[q].fail).action = "none"
    /\ Answer(q, "failed")
    /\ IF req[q].resuming THEN Released(Acc(q)) ELSE UNCHANGED inflight
    /\ UNCHANGED <<roster, clocks, sessions, spent>>

CoolDown(q) ==
    /\ At(q, "policy") /\ accountFailurePolicy(req[q].fail).action = "cooldown"
    /\ called(q, Acc(q), accountFailurePolicy(req[q].fail).secs)
    /\ Goto(q, "cooling")
    /\ UNCHANGED <<roster, cooldown, inflight, sessions, spent>>

CoolDownReturns(q) ==
    /\ At(q, "cooling") /\ cooling[q] = Quiet
    /\ AfterFailure(q)
    /\ UNCHANGED <<roster, clocks, sessions, spent>>

\* Pool.Remove; nothing to do for an account that is disabled already.
Remove(q) ==
    /\ At(q, "policy") /\ accountFailurePolicy(req[q].fail).action = "remove"
    /\ disabled' = disabled \cup req[q].acc
    /\ AfterFailure(q)
    /\ UNCHANGED <<slots, removed, clocks, sessions, spent>>

\* Its store write fails: the account stays, the request ends.
RemoveFails(q) ==
    /\ At(q, "policy") /\ accountFailurePolicy(req[q].fail).action = "remove"
    /\ Acc(q) \notin disabled /\ spent.faults < MaxFaults
    /\ spent' = [spent EXCEPT !.faults = @ + 1]
    /\ Answer(q, "failed")
    /\ IF req[q].resuming THEN Released(Acc(q)) ELSE UNCHANGED inflight
    /\ UNCHANGED <<roster, clocks, sessions>>

\* After a conversation that failed once created: is there another account?
\* If so, creation starts over with its attempts counted from zero.
Recheck(q) ==
    /\ At(q, "recheck")
    /\ IF \E start \in Starts : PickExcept(start, req[q].excluded) # {}
       THEN Become(q, Entered(req[q]))
       ELSE Answer(q, IF req[q].fail = "empty" THEN "failed" ELSE "unavailable")
    /\ UNCHANGED <<roster, clocks, inflight, sessions, spent>>

-----------------------------------------------------------------------------
\* The reply is remembered under the slot of its account, then complete
\* returns, which releases the account.
IndexOf(a) == CHOOSE i \in DOMAIN slots : slots[i] = a

Put(q) ==
    /\ At(q, "put")
    /\ sessions' = {s \in sessions : s.todo # req[q].todo} \cup
                   {[todo |-> req[q].todo, slot |-> IndexOf(Acc(q))]}
    /\ Released(Acc(q))
    /\ Answer(q, "reply")
    /\ UNCHANGED <<roster, clocks, spent>>

-----------------------------------------------------------------------------
(***************************************************************************)
(* The surroundings: the pool and the administrator.                       *)
(***************************************************************************)
Spend == /\ spent.changes < MaxChanges
         /\ spent' = [spent EXCEPT !.changes = @ + 1]

\* The pool stores one flag at a time and appends one slot at a time.
Reconcile ==
    /\ Spend
    /\ \E a \in Ids :
         \/ Assign(a)
         \/ /\ \/ disabled' \in {disabled \cup {a}, disabled \ {a}} /\ removed' = removed
               \/ removed' \in {removed \cup {a}, removed \ {a}} /\ disabled' = disabled
            /\ UNCHANGED slots
    /\ UNCHANGED <<clocks, inflight, req, sessions>>

\* SetEnabled clears the cooldown with the flags.
Enable(a) ==
    /\ Spend
    /\ disabled' = disabled \ {a} /\ removed' = removed \ {a}
    /\ cooldown' = [cooldown EXCEPT ![a] = 0]
    /\ UNCHANGED <<slots, cooling, inflight, req, sessions>>

\* The balance refresh is refused by the upstream, and cools the account down.
HealthCheck(a) ==
    /\ cooling[a] = Quiet /\ Spend
    /\ called(a, a, 3600)
    /\ UNCHANGED <<roster, cooldown, inflight, req, sessions>>

\* Time passes, up to the next end of a cooldown; the ends a call of CoolDown
\* holds come closer by as much.
Later(secs, d) == IF secs > d THEN secs - d ELSE 0
Tick ==
    \E a \in Ids :
      /\ cooldown[a] > 0
      /\ \A b \in Ids : cooldown[b] > 0 => cooldown[a] <= cooldown[b]
      /\ cooldown' = [b \in Ids |-> Later(cooldown[b], cooldown[a])]
      /\ cooling' = [c \in Callers |->
           [acc |-> cooling[c].acc, until |-> Later(cooling[c].until, cooldown[a]),
            current |-> IF cooling[c].current = Unread THEN Unread
                        ELSE Later(cooling[c].current, cooldown[a])]]
      /\ UNCHANGED <<roster, inflight, req, sessions, spent>>

-----------------------------------------------------------------------------
Start(q) == StartNew(q) \/ Resume(q) \/ ResumeUnknown(q)

Advance(q) ==
    \/ Pick(q) \/ Acquire(q) \/ CreateTodo(q) \/ CreateNothing(q)
    \/ Send(q) \/ SendAborts(q) \/ WaitDone(q) \/ StartStreamFails(q)
    \/ \E k \in Failures : CreateFails(q, k) \/ SendFails(q, k) \/ WaitFails(q, k)
    \/ NoPolicy(q) \/ CoolDown(q) \/ CoolDownReturns(q) \/ Remove(q) \/ RemoveFails(q)
    \/ Recheck(q) \/ Put(q)

Next ==
    \/ \E q \in Requests : Start(q) \/ Advance(q) \/ Delta(q)
    \/ \E c \in Callers : loadCooldown(c) \/ swapCooldown(c)
    \/ Reconcile \/ Tick
    \/ \E a \in Ids : Enable(a) \/ HealthCheck(a)

Spec == Init /\ [][Next]_vars
=============================================================================

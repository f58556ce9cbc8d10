# Verification of todo2api

TLA+ models of `akihitohyh/todo2api`, a gateway that serves the OpenAI, Responses
and Anthropic chat APIs from a pool of accounts of an asynchronous agent service
(the *upstream*): a chat request becomes a *todo* there, and the answer comes
back over a WebSocket and over REST. TLC checks the models on small instances,
TLAPS proves the theorems of the `...Proofs` modules for all values of the constants.
Paths below are relative to `src/internal/` unless they say otherwise.

    tlc -config MCPool_safety.cfg MCPool      # any run: module and cfg of PROJECT.json
    tlapm ConversationProofs.tla              # any module of theorems

## Inventory

| Component | State it keeps | Operations | Talks to |
|---|---|---|---|
| Account pool, `pool/pool.go` | `configured` (all accounts), `accounts` (stable slots, append only), per account the flags `disabled`, `removed`, `initing`, `initialized`, `ready`, the key, settings, `inflight`, `cooldownUntil`; model catalogue | `New`, `Warm`, `ReloadKeys`, `SetEnabledReason`, `DeleteByID`, `Refresh`, `Remove`, `PickExcept`, `At`, `IndexOf`, `CoolDown` | store (through `AccountRepository`), upstream |
| Gateway requests, `gateway/gateway.go` | per request: account, todo, exclusions, whether the stream started | `Complete`, `Stream` (`complete`, `startNewConversationExcept`, `applyAccountFailure`) | pool, session store, upstream, turn |
| Assistant turn, `gateway/gateway.go`, `upstream/ws.go` | event channel (32), text received, filter, pending blocks, timers; a reader goroutine and a WebSocket | `waitAssistant`, `finishAssistant`, `finalAssistant`, `Subscribe`, `Close` | upstream over WebSocket and REST |
| Continuation, `session/store.go`, `gateway/gateway.go` | `byHistory`, `byTodoID`, `toolNames`, each guarded by one lock; 30 minutes of life | `Put`, `Get`, `GetByTodoID`, `PutToolNames`, `cleanup`; `sessionEntry`, `conversationKey`, `followUpBody` | gateway |
| Tool protocol, `openai/toolproto.go`, `prompt.go` | the text a stream filter holds back | `Push`, `Flush`, `ParseToolCalls`, prompt formatting | turn, gateway |
| Storage, `storage/store.go` | SQLite: accounts, settings, health, usage counters | open/migrate/import, single-row writes, counters | pool, admin, gateway |
| Admin service, `admin/service.go` | the reload under way and its subscribers, a lock per account, admin sessions, login attempts, event hub | REST handlers over pool and store; `startRefresh`, `refreshAccounts`, `refreshOne`, `handleReloadStream` | pool, store, upstream |
| Transports, `transport/*.go` | per response: what was emitted so far, item indexes, identifiers | decode, encode, `streamChat`, `streamAnthropic`, `streamResponses` | gateway |
| Model catalogue, `pool/pool.go`, `gateway/gateway.go`, `upstream/client.go` | the common models and three maps of their ids, fixed once the pool is built | `setModels`, `publicModelIDs`, `commonModels`, `Model`, `resolveModel`, `publicModelID`, `Models` | pool, config, gateway |
| Upstream client, `upstream/client.go`, `edge.go` | none | one HTTP exchange per method | upstream |
| Startup, `../cmd/todo2api/main.go`, `config/config.go`, `storage/store.go`, `pool/pool.go` | how far a process has come; schema version, key verifier and import marker in the database | `Open`, `migrate`, `verifyMasterKey`, `importLegacyOnce`, `PoolKeys`, `New` | storage, pool, other processes on the same file |
| Web interface | none | static files | admin |

How they interact. A request goroutine picks an account from the pool, opens a
subscription, creates a todo on it and waits; on success it stores *slot index
and todo id* under two keys, for half an hour. It is the slot index that couples
continuation to the pool: everything that adds, removes, disables or replaces
accounts meanwhile must leave the index pointing at the same account. `Warm`,
admin handlers and requests reach the pool concurrently; `reconcileMu`
serialises the administrative operations (and `Remove`, which requests call),
but `Warm` and selection run beside them over atomics.

What is hard: four kinds of callers that may initialize the same account; rows
read before a lock and applied after it; flags in memory beside flags in a
table whose writes may fail; failing over between accounts without showing a
client two answers; the end of a turn, where a stream, a REST record, an error
channel and three timers race; continuation by hash while clients share, trim
and branch histories. `PROJECT.json` lists each hazard at its line.

What makes each component correct:

* pool: stable slots, one slot and one first initializer per account, no leaked claim,
  nothing selectable that is not initialized, flags that follow the table,
  settings that belong to the current key, every operation returns;
* requests: balanced inflight counters, no account tried twice, one visible todo,
  sessions that name the owner, cooldowns that only end when due although they overlap, an answer;
* turn: the client sees one contiguous piece of text that agrees with the reply,
  never the previous answer as the turn found it, the whole text when nothing failed, both goroutines end;
* continuation: a todo is continued only for a history it has heard, nothing is
  sent twice or lost but what `FlattenTurn` leaves out, sessions live as long as promised;
* transports: one ending for every stream, success and failure told apart, nested and
  numbered items, final objects that agree with what was streamed;
* health checks: progress that adds up to the reload under way, checks that are atomic
  towards administrators, subscribers that learn of the end;
* tool protocol: the same text and calls whatever the fragments, nothing held back for
  longer than needed, nothing given out twice;
* requests and replies in the three protocols: what a client was given is recognised when
  it sends it back;
* start: one master key for the life of a database, old accounts imported once and whole,
  whatever is cut short and whoever else starts;
* catalogue: models keep names of their own; which names lead to another model than the one they
  are listed for, and which answers carry another name, is said exactly.

## Modules

| Module | Models | Built on |
|---|---|---|
| `Roster` | what the pool promises a holder of a slot index (abstract) | |
| `Pool` | the pool and the accounts table, operation by operation | refines `Roster` |
| `PoolProperties`, `MCPool` | its properties, instances | `Pool`, `Roster` |
| `PoolProofs` | its proofs: slots, settings, refinement, claims and the table | `PoolProperties` |
| `Gateway`, `GatewayProperties`, `MCGateway`, `GatewayProofs` | requests, failover, cooldowns | `Roster` |
| `Turn`, `TurnProperties`, `TurnProofs` | one assistant turn | |
| `Conversation`, `ConversationProperties`, `MCConversation`, `ConversationProofs` | clients, keys, session store, todos | |
| `ToolFilter` | the parser of tool calls and the stream filter | |
| `Echo`, `EchoProperties`, `MCEcho`, `EchoProofs` | what clients of each protocol are given and send back | `ToolFilter` |
| `ModelCatalog` | names of models, as operators | |
| `Startup`, `StartupProperties`, `MCStartup`, `StartupProofs` | processes opening one database and building their pools | `ModelCatalog` |
| `Stream`, `StreamProperties`, `StreamProofs` | one call in each of the three protocols | |
| `Refresh`, `RefreshProperties`, `MCRefresh`, `RefreshProofs` | health checks, reloads, their subscribers | |

**Pool.** One step is one critical section of `mu` or `stateMu`, one store call,
one upstream round trip, or one atomic operation that another goroutine can
observe. The goroutines are `Warmer` and `Workers`; a worker calls any operation
of the constant `Ops`. Program counters are named for the place in the code: an
initialization goes `init` (snapshot of the key) - `apply` (compare and install) -
`ok` (release the claim) - `adding` (flags and compare-and-swap of `ready`) -
`append`, whoever runs it, and returns where `Resume` says. What is more than one atomic in the
code is more than one step: `claimInit` loads `initialized`, `removed` and `disabled` and then swaps `initing`
(`claimInit`, `claimLoad`, `claimSwap`); `installCandidate` changes key and settings under `stateMu` and stores
`initialized` after the unlock (`installCandidate`, `installInitialized`). A claim can therefore be lost: Warm
loads `initialized` before an enable initializes the account, claims it once `addReady` has released it, and
the deferred `releaseInit` of the enable takes the claim away. Two goroutines may then initialize an
account that is initialized already, which does no harm since `applyInitialization` compares keys;
the first initialization of an account has one goroutine (`SingleInitializer`). `removeMu` is only
taken under `reconcileMu` and has no variable. `ReloadKeys` gets the rows as they
were when its caller read them, without the lock. The accounts table has a row
per id (`none`, `on`, `off`) and never reuses an id. `suspect` is a history
variable: the accounts whose flags were set from rows older than the table or
next to a write that failed.

**Roster** is the abstract view: slots are only appended, no account has two,
flags change freely. `Pool` implements it (run and theorem); `Gateway` extends it, so
its requests meet every interleaving of flags and slots the pool allows without
carrying the pool's state.

**Gateway.** One action per call of the code that another request, the pool or the
upstream can see: `Pick`, `Acquire`, `CreateTodo`, `Send`, the wait and its
outcome, the failure policy, `Recheck`, `Put`. The upstream's answers are the
constant `Failures`, the classes that `accountFailurePolicy` tells apart. A cooldown is
the number of seconds left; `Tick` lets time pass to the next end of one. A call of `CoolDown` loads the
end, compares, and stores its own if nobody stored meanwhile, or goes round again (`loadCooldown`,
`swapCooldown`); the callers are the requests and the health check of each account, which `lockAccount` lets
run once. The names of the two do not overlap (`Requests \cap Ids = {}`). The limit of attempts is what `Pool.Len`
gives, the slots neither disabled nor removed. A todo
carries its account in its name, so that a session pointing at the wrong account
is visible. The counter `rr` is shared by all requests: any slot may be the start of
a scan.

**Turn.** The upstream run, the socket, the reader goroutine, the bounded channel and
the select loop. The text is a sequence of numbered fragments; REST shows what has been
recorded, the socket what was published after the tab was bound. A resumed todo has an earlier
run (`before`), which may still be at work: its turn may have ended early (finding `turn_truncated`), or another client
may share the todo. The gateway tells its message from the new one by a hash of the whole JSON message, taken before the new
message is sent (`gateway.go:230`, `978`, `1006-1010`), and its events by the todo id only; so what the earlier run still
produces (fragment 0) may be taken for text of the turn, and its message for the reply once it has changed. Timers may fire at
any moment (their lengths are not modelled), so every race of the loop is there. The
stream filter is what any filter is: it may hold a suffix back and lets it go at the
end.

**Conversation.** Clients with their histories, the session store, and what every todo
has been told. A hash is the list it hashes (SHA-256 is taken to be
injective). The name of a tool result is one bit, whether it is filled in: chat clients leave
it out and `enrichToolResultNames` fills it in. What goes to a todo is what `FlattenTurn` makes of it: an assistant
message that calls tools goes without its text (`openai/prompt.go:17-25`), which matters where a todo is
opened with a history (`gateway.go:401`). `opened` is the number of messages a todo was opened with. All assistant texts are equal, the case in
which histories of different todos are most alike.

**Stream.** One HTTP call: the callbacks of the gateway (start, fragments of text, reply or
error) and the sequence of events each of them makes the handler write, in the Chat
Completions, Anthropic and Responses protocols, or the one JSON body when the call is not
streamed. `out` is what the client received. An identifier is the todo and the instant it is
made from, which is how two of them can differ. A todo is announced, and failing over to another account
excluded, once its start is written whole; if the start cannot be written the request may still fail over, on a
connection that is broken (`StartLost`). The connection may break between
two writes; what is left of the group of events is then not written and the handler
returns.

**Refresh.** Tasks (a manual reload, the automatic one, a single check), their workers, known by
the account they have, the lock of each account, the progress record and the
channels of `reload/stream`. A check has the steps another goroutine can come between: taking the
lock and reading the row; disabling the row; telling the pool. Operations of the pool are single steps,
since `Pool` opens them up. `split` and `stale` are history variables.

**ToolFilter.** A text is a sequence of tokens; a tag is two of them, so that it can be cut,
and `<` begins both tags as it does in the code. The body of a valid block is one token,
whatever else stands between two tags is not valid. The loops of `Push` and
`findToolBlocks` are functions over positions, not recursive operators, so that theorems
about them can be stated.

**Echo.** One client and its conversation over whole requests: the client keeps each item
as it was given, answers calls with results and sends everything again. Reading and rendering
are done as each protocol does them: chat keeps arguments as they are and leaves the names of results
out, Anthropic compacts arguments, Responses makes items of calls, joins them to the assistant message before,
cuts qualified names and unwraps the input of custom tools. Arguments have three spellings, which are all that rendering and
reading tell apart (`BodiesAssumption`). The hash is the history itself. `Conversation` has what `Echo` leaves out (several clients, expiry,
branches, todo ids) and the other way round.

**ModelCatalog** has no state: an id is a sequence of words, `/` and `:`, and the
lookups are operators. **Startup** uses it for the models of a started process. A process
goes through the steps of `Open` and `New`, each SQL transaction being one; it may be
stopped at any of them, and every start may come with another master key or another version of
the program; the old keys to import and the names of models are the same for all. Old and new processes share the database, as they do when one is
replaced without downtime. `deleted`, `old` and `creates` are history variables.

## Runs

| Run | Instance | Shows |
|---|---|---|
| `pool_safety` | 2 workers and Warm, 2 rows + 1 inserted, 2 calls of any operation, 2 attempts, 1 failing write | slots, claims, flags against the table, and the refinement of `Roster` |
| `pool_rotation` | 2 workers and Warm, 2 rows, 2 calls of reload, enable, remove, 1 replaced credential; fair | settings belong to the key, but for the moment between the two stores of `installCandidate`, when nothing selects the account; every call returns; Warm finishes |
| `pool_stale` (violated) | 1 row, a reload and a remove | `ExhaustedStaysOut`: a reload with older rows brings back a removed account |
| `gateway_failover` | 2 requests (one streaming), 2 accounts, least_busy, empty answers, exhausted funds and other failures, 1 change by the administrator, a health check that cools down, 1 failing write | safety of requests; racing cooldowns; every step brings a request closer to its answer |
| `turn_safe` | 2 fragments, channel of 1, 1 approval, 1 fault (the socket, a REST read, or an earlier answer REST does not show yet); new or resumed, the earlier run over or at work, streamed or not; fair | safety of the turn; both goroutines end |
| `turn_truncated` (violated) | the same without approvals | `AuthoritativeText`: a failed subscription ends the turn with part of the text |
| `conversation_resume` | 2 clients with the same word, 4 requests, 1 with its todo id, 1 history cut back, 1 failure, replies with text and tool calls, sessions of 1 tick within 2 | safety of continuation, also of todos opened with a history |
| `stream_clients` | 1 call per protocol, streamed or not, 2 fragments of text, 2 tool calls, 2 tries, any failure, a connection that may break | the streams a client can receive |
| `refresh_reload` | 2 tasks of any kind, 2 accounts, 2 workers each, 1 subscriber with a channel of 1, 1 edit or removal, 1 failing write, shutdown | progress, locks and the last event |
| `echo` | 1 stream of up to 6 pieces of tags, blocks and white space; 2 replies of up to 2 fragments for 12 other kinds of client; 3 spellings of arguments | the filter against the parser; who is recognised |
| `echo_untouched` (violated) | 1 chat client, 2 replies | `UntouchedHistoryResumes`: filled-in tool names change the key |
| `startup` | 2 processes, 2 keys, 2 schema versions, 3 credentials of which the old configuration lists 2, batches of 2, 3 catalogs with clashes of every kind, 1 account added, any number deleted | keys, import through crashes and races; which names are mixed up |

The three violated properties say what a comment or the project's README says; the
findings in `PROJECT.json` quote the line and the code that differs.

Why the bounds are enough. The pool's operations interact through one account at
a time (flags and claim) and through the append-only list of slots: two workers and
Warm give every pair of operations beside Warm, two initial rows one account in a slot
and one not, the third row an id that is new to the pool. A second fault or a third
call repeats a pair already seen. `WarmAttempts` 2 has a retry, and the batch sizes 1
make every bootstrap boundary a state. In `Gateway`, two accounts and two requests
have each request fail over onto an account the other one is using and exhaust the pool; the third
account is needed only where `MaxAttempts` is to be exceeded. In `Turn`, two fragments
tell lost, doubled and reordered text apart, and a channel of one is full as soon as it is
used. In `Conversation`, four requests are a conversation, a branch of it, a
continuation of the branch, and one more by somebody else. In `Stream`, no text, one fragment and
two are the cases the handlers tell apart, and two tool calls make the index of the second
one count. In `Refresh`, two tasks are a reload and any other task beside or after it; two
accounts in a task of two workers have both workers at work, and three events in a channel
of one lose the last. The tasks and the accounts are symmetric, and so are the accounts in `Gateway`. In `Echo`, six pieces are an
invalid block cut between its tokens with a valid one behind it, and two replies with what
the client sends after them are the first history that can be looked up twice. A reply has
at least one fragment: what is recorded for an empty one is not told from no reply. Clients do not
keep the `index` that streamed chat calls carry, which is no part of a message. In `Startup`, two processes race for
the verifier and for the import, and no step looks at more than the database and itself; three accounts
in batches of two need a second batch, which is shorter. The catalogs hold short names that clash, a short name that
is another's whole id, an id without an author, variants after a colon, and a model named like the
runner id of another. The default `B:B/x:free` is discovered by some batches; for others its short name is listed for another model, or
for nothing but the default and then shortened again in the answer. One alias names a model, one takes another's public id. Every account is enabled when a process starts; a disabled one is skipped
by `New` and belongs to `Pool`. Processes and keys are symmetric.

Fairness. `Pool`: each worker and Warm keep running (`WF`), and a worker waiting for
`reconcileMu` gets it (`SF`): Go's mutex hands itself over to a waiter after a
millisecond. Initializations end because every attempt runs under a timeout of 30 seconds (`pool.go:324`) and
attempts are counted. Nothing is
assumed of the admin, who may stop calling. `Turn`: the two
goroutines run and the context ends; nothing is assumed of the upstream, which may
never answer. No fairness is assumed of faults, timers or clients.
The other modules assume none. That requests are answered is a ranking in `Gateway`: a request under way
can always take its next step and each step decreases `StepsLeft`, so it is answered if it
keeps running (`PollTimeout` bounds every wait; `Remove`, which waits for
`reconcileMu`, returns by `EveryCallReturns` of the pool).
Deadlock is checked in `stream_clients`, whose call steps on when it is over. It is not checked in the others because a finite number of calls and requests is made and then
everything rests; that nobody waits for ever is what the liveness properties say.

In `Gateway`, a request may go round in `CoolDown` once for every end another caller stores meanwhile, and nothing else
delays it; the ranking leaves these rounds out.

Beside the findings, observations of behaviour a reader of the repository would not expect. The runs and
theorems state the first four as they are; no sentence of the repository excludes these:

* `complete` starts `startNewConversationExcept` again after a conversation that fails
  once created, with its attempts at zero (`gateway.go:270-347`, `402-407`). With
  `MaxAttempts` 2 and three accounts, one request tries all three, each up to the
  first-response timeout; the comment at `gateway.go:530` ("Keep failover bounded during
  provider-wide outages") bounds only the accounts tried before creation. `TriesDistinct`
  and the ranking in `EveryRequestAnswers` are what does bound it.
* A request that sends only its new messages and its todo id records their hash as if
  they were a whole history (`gateway.go:364-367`). A client whose whole history equals
  them continues that todo; `HistoryHeard` says that nothing in its history is then unknown
  to the todo, not that the todo has heard nothing else.
* A new todo opened with a history does not get the text an assistant message has beside its tool
  calls (`openai/prompt.go:17-25`). `HistoryHeard` and `TranscriptComplete` speak of messages as
  `FlattenTurn` renders them and hold in no stronger form.
* While the run before is at work, a resumed turn may return its message once that has changed, and stream
  its text. `NeverPreviousAnswer` says that this is all: the answer is never returned as the turn found it.

The catalogue differs from what `../README.md:140-143` says: that "every configured account" is queried at startup and that
"every advertised model is available regardless of which pool account is selected", and from the comment at
`pool.go:393` ("common to every account"). `CatalogResolves` says what there is instead, and that there is nothing else:

* `New` asks the accounts of the first batch that has a ready one, and none after it. The models advertised are those
  common to the accounts of that batch that became ready, none if one of these gave no list; an account of a later batch may lack any of them.
* An advertised id may lead to another model (`Ambiguous`): the short name of the default means the default while that is not
  discovered, even if discovery gave that public id to another model. The comment at
  `gateway.go:599` has only a catalog that is "temporarily unavailable" in mind.
* An answer may carry another id than the one asked for (`Renamed`): `configuredModelShortID` cuts at the first
  colon before it cuts at the slash, so that it shortens its own results (`gateway.go:628-636`). An
  undiscovered default `B:B/x:free` is listed as `x:free`, and a request for `x:free` is answered as `free`.
  And a model whose runner id is the whole or public id of another (`Doubled`) is answered as that one.
* Aliases that are empty, stand for themselves or shadow a model are accepted too (`config.go:270-280`).

`EchoResumes` says exactly which clients are started over although they send back what they were
given: streamed text with white space around it before a call, Anthropic arguments with white space, custom tool input
that is not compact JSON with an input, and results whose names the gateway filled in.

## Proofs

Every theorem holds for any value of the constants that satisfies the named assumption of
its module (`PoolAssumption`, `GatewayAssumption`, `CatalogsAssumption`, `ClientsAssumption`, `BodiesAssumption`, ...; TLC evaluates each): any number of accounts, goroutines, requests,
clients, fragments and faults, and every bound of a run.

| Module | Theorem | Statement |
|---|---|---|
| `PoolProofs` | `TypeCorrect` | `Spec => []TypeOK` |
| | `OneSlotForEach` | `Spec => []OneSlotEach` |
| | `PoolImplementsRoster` | `Spec => ImplementsRoster` |
| | `SettingsFollowKey` | `Spec => []SettingsMatchKey` |
| | `ClaimsStayExclusive` | `MaxRotations = 0 => (Spec => []ClaimsExclusive)` |
| | `PoolFollowsTable` | `MaxRotations = 0 => (Spec => []PoolFollowsStore)` |
| `GatewayProofs` | `GatewayTypes` | `Spec => []GatewayTypeOK` |
| | `InflightIsExact` | `Spec => []InflightBalanced` |
| | `NeverTwoTodos` | `Spec => []OneVisibleTodo` |
| | `SessionsLeadHome` | `Spec => []SessionsNameOwner` |
| | `TriesNeverRepeat` | `Spec => TriesDistinct` |
| | `CooldownsNeverShorten` | `Spec => CooldownsOnlyExtend` |
| | `FailoverUsesUpAccounts` | `Spec => FailoverEnds` |
| `TurnProofs` | `TurnTypes` | `Spec => []TurnTypeOK` |
| | `StreamsAgree` | `Spec => []StreamAgrees` |
| | `NeverTheAnswerBefore` | `Spec => []NeverPreviousAnswer` |
| | `WholeTextReturned` | `Spec => []WholeText` |
| `ConversationProofs` | `ConversationTypes` | `Spec => []ConversationTypeOK` |
| | `ContinuedTodosHaveHeard` | `Spec => []HistoryHeard` |
| | `TodosHoldTheConversation` | `Spec => []TranscriptComplete` |
| | `SessionsStayAlive` | `Spec => []SessionsLive` |
| `RefreshProofs` | `RefreshTypes` | `Spec => []RefreshTypeOK` |
| | `ProgressIsTrue` | `Spec => []ProgressTrue` |
| | `ChecksAreAtomic` | `Spec => []ChecksAtomic` |
| | `LastEventIsKnown` | `Spec => []LastEventKnown` |
| `StartupProofs` | `StartupTypes` | `Spec => []StartupTypeOK` |
| | `OneMasterKey` | `Spec => []KeyKept` |
| | `ImportHappensOnce` | `Spec => []ImportedOnce` |
| | `IdsLeadWhereListed` | `Spec => []CatalogResolves` |
| `StreamProofs` | `StreamIsTyped` | `Spec => []StreamTypeOK` |
| | `EndingIsHonest` | `Spec => []HonestEnding` |
| | `ItemsAreNested` | `Spec => []ItemsNested` |
| | `StreamsAddUp` | `Spec => []StreamAddsUp` |
| | `IdentityIsKept` | `Spec => []IdentityKept` |
| `EchoProofs` | `FilterAndParserAgree` | `Spec => []FilterAgrees` |
| | `EchoKeepsItsTypes` | `Spec => []EchoTypeOK` |
| | `EchoIsRecognised` | `Spec => []EchoResumes` |

Each module has one inductive invariant (three in `PoolProofs`, two in `StartupProofs` and `EchoProofs`), a conjunction
of named parts, and every theorem follows from it. What the invariants add to the properties, and why:

* **Pool** (`PoolInv == TypeOK /\ Located /\ SlotInv`). `TypeOK` alone is
  not inductive: a step indexes `acct` by the account of the job, which is a real account
  only at the labels that work on one; `Located` says so. Nor is `OneSlotEach`:
  between the compare-and-swap of `ready` and the append, another goroutine could
  append the same account. `SlotInv` says that whatever has a slot, or a goroutine about to
  append it, is ready, that no goroutine is about to append what has a slot, and no two the
  same account; the compare-and-swap can then succeed only once. The refinement needs that a
  step changes `accounts` in `addReadyAppend` only.
* **Pool and keys** (`KeyInv`). `SettingsMatchKey` is not inductive given `PoolInv`: between the two stores of
  `installCandidate` an account that is still `initialized` may be without settings. `Fits` says that this is
  only while its installer has yet to store `initialized`, and `Held` that the installer holds `reconcileMu`, that
  the account and those it still has to install are removed, and that settings it has installed are those of the key.
* **Pool and table** (`StoreInv == Unrotated /\ ClaimInv /\ FollowInv /\ ServedInv`). `ClaimInv` follows a claim that may be lost: at which labels an operation can be, and with which account (`Placed`);
  an account being initialized, or still to be released by a deferred call, is claimed unless it is
  initialized (`Claimed`); Warm and an operation are only ever both at one that is (`Apart`); and every
  claim has an operation under way that will release it (`ClaimOwned`). `FollowInv`
  says at each label of an operation what row and flags have become so far, that the flags of an account
  no operation is in the middle of agree with its row, and that the ids of a snapshot
  were inserted. `ServedInv` follows an initialized account to its slot: it has one, or somebody is about to append it.
  The two theorems suppose `MaxRotations = 0`, as the run that
  checks the properties does. No operation of the program replaces the credential of a
  row; `ReloadKeys` allows for it, and `pool_test.go` does it. With one replaced
  credential TLC refutes both properties: `ReloadKeys` installs the new key into the
  account `Warm` is initializing and its `addReady` releases the claim `Warm` holds, and a
  failed installation leaves an account disabled whose row is on. `SettingsFollowKey` holds regardless.
* **Gateway** (`GatewayInv`). Per label of a request: which account it holds, that this
  account has a slot and is not excluded, that every todo it created lives on an excluded account or on the one it holds,
  that nothing was shown before the stream started. A call of `CoolDown` goes on only if the end it has loaded is
  earlier than its own (`CallSound`), so that the swap can only move the end later. Sessions point at slots, and slots only
  grow (`Roster`), hence `SessionsNameOwner`. The counters are
  cardinalities of sets of requests, which is why `GatewayAssumption` says that accounts and requests are finitely many.
  `FailoverEnds` is the ranking inside `EveryRequestAnswers`; that the next step of a request is
  always possible (`ENABLED`) stays with TLC.
* **Turn** (`TurnInv`). The run before is over once the new one has started, has at most one fragment more than
  was found, and that only if it produced it since (`BeforeInv`). What is on its way to the client is one pipe: the hand of the loop, the channel, the hand of the
  reader, the socket. Every fragment in it follows the one before it or the text received
  (`PipeInv`); emitted and held back text make up the text received (`StreamInv`); READY and DONE
  are only in the pipe when REST has the whole text, unless an approval came in between (`WholeInv`).
* **Conversation** (`ConversationInv`). `ClientInv`: a request is its client's history and one message,
  or that message alone, and then it has a todo id; what precedes the last reply is therefore the history or nothing.
  `Lists`: no todo was opened with more messages than it holds. `HeardInv`: every todo a client, a request or a key leads to has heard what
  stands for it, place by place as it was rendered there. `CompleteInv`: of a todo that one client alone has talked to, the transcript is what that client
  knows (`Holds`, through `AllTold`) if it is the todo of the last answer, and *no longer than its history* otherwise, and no key is longer
  than the transcript it leads to. A lookup by hash gives a key as long as the history, so the three
  are equally long and then equal. `LiveInv`: the entry of a todo expires no sooner than a life after the reply.
* **Refresh** (`RefreshInv`). Locks belong to exactly one task (`LocksInv`), row and pool differ only between
  the two writes of a check (`AgreeInv`), and what a task has out is bounded by its
  workers (`WorkersInv`), so that `ProgressTrue` is inductive.
* **Startup** (`StartupInv`). `ProcessesInv` says how far each process has seen the
  verifier and the schema; `TableInv` that every row is sealed with the key of the verifier and that
  nothing is deleted before the import is noted.

* **Catalogue** (`NamedInv`, in `StartupProofs`). A process that serves has the common models of the catalogs it
  met, under `publicModelIDs`. That operator goes in rounds, each taking back the short names two
  models share; the proof shows that after as many rounds as there are models nothing changes any more, so that
  public ids are all different. `CatalogResolves` is an equivalence for every listed id and has no hypothesis
  on names. A lookup finds public and whole ids before runner ids, and all of these are different but for the doubled ones, so that a
  doubled runner id finds exactly the other model (`IdsAreFound`, `ModelsAreFound`, `ModelAnswers`). What is taken for the default is
  by definition not discovered; the short name of the default is shorter than the default (`ShortNameIsShorter`), so that the default is
  not mistaken for its own short name and the answer is that name, shortened once more (`DefaultAnswers`).
* **Stream** (`StreamInv`). The events are those of one protocol in the order in which its handler can send
  them, and a *ledger* keeps what they have told so far: how many items were opened and closed, the kind, the identifier and
  the data of each, and the identifier of the whole. What was received is named by the present todo, unless its start was
  lost with the connection (`ReceivedGood`), and there is no text before it was announced (`TextKept`). Every event written obeys the ledger (`Kept`) and moves it on, so that
  the five properties of a list of events follow from the ledger at its end. The data of the items are functions on
  all numbers, which TLC cannot enumerate: this invariant is not a run's, the properties it implies are.
  `FlattenSeq`, on which `Assembled` rests, is a recursive function of the library; that it exists and puts the fragments one
  behind the other is proved first.
* **Echo** (`EchoInv`, `ResumeInv`). For the filter, `EchoInv`: between turns nothing is held; during a turn the filter is *right* about the text so far (`Right`): it
  has stopped at the first valid block and has given out what precedes it, or it has given out a beginning,
  holds the rest, and whatever text may still follow, the first valid block of the whole is the first one
  from the held text on. The quantifier over what may follow is what makes this inductive. Under it are lemmas about the parser:
  the first block does not depend on what precedes the place where one begins to look (`FirstAfter`) nor, once closed, on what
  follows (`BlockBefore`), and text without a tag can be skipped (`FirstSkips`). The loops of
  `findToolBlocks` and `Scan` are recursive functions, shown to exist by going from the end of the text to its beginning (`BlocksExist`, `ScanExists`).
  For the lookup, `ResumeInv`: `EchoResumes` speaks of the moment after the lookup only, and has to be carried there from the last
  reply. When a reply has been given, no known history is longer than the one the client now holds, and that one is
  known exactly if the client continues (`Replied`); a question makes it longer, but its key stays what it was (`Asked`); during the
  next reply nothing known is longer than the question (`Answering`), so that no older history can be mistaken for the
  one recorded next. Under it are lemmas about reading: item by item (`ReadAppend`), answers add messages that are
  not the assistant's and leave the rest alone (`ReadAnswers`), what a client was given of a reply reads as one message however
  many items it has (`BuildRead`), each call as it was said or spelled anew (`CallsBack`), and
  the key of a history that only got longer by answers is the history before (`KeyAfter`).

What a recursive function computes is proved by induction over a set of numbers that has zero and with each
number the next (`NatInSet`), which rests on the least element of its complement (`MinOfNats`): the induction theorems of the library
take an operator, which the provers cannot instantiate. Each module states the few facts
about numbers it needs, and the lemmas about its own operators (sequences that
differ in names only, lists that occur in others, cardinalities after a step, the n-th of a set).

Proof attempts found two errors in the models, which are corrected: in `Turn`, an event could be lost before
the subscription although a later one was already on the wire; in `Pool`, `SetEnabledReason` did not write the
row after a successful initialization (`Proceed`). Some definitions were restated with the same
meaning to be reasoned about: `LegacyPoolKeys` without a fold, `chatRequest` and `ParseToolCalls` as recursive functions over the items and the blocks, `Occur` by the number of messages skipped,
`HasToolCall` by the blocks themselves (that `ParseToolCalls` finds a call exactly then is `MCToolCalls`, which TLC evaluates for
every text of up to five tokens), and `Assembled` and its like with the events as a parameter.

What the proofs assume: the assumptions on the constants, and that a step of a model is a
step of the code (see *Modules*). Only model-checked:

* Liveness (`EveryCallReturns`, `TurnEnds`) and the `ENABLED` half of `EveryRequestAnswers`: the prover handles
  neither fairness nor `ENABLED`.

No module declares a recursive operator.

## Not modelled

* Login limiter and admin sessions: maps under one mutex, without waiting or calls out.
* The order in which `main` awaits its goroutines at shutdown: `Refresh` has the end of the
  context, which is all they share.
* Usage counters and health columns: written by many, read by the administrator only.
* Wire formats of the transports and prompts: layout, no state beyond a response.
* The upstream client: its methods are single exchanges and appear as outcomes.
* Uploading attachments: one exchange in the step that may fail before a todo is created
  or a message sent. That they enter the hash is in `Echo`.
* The pool without a repository, which only tests use.

## Plan

Order: what concerns every request first.

1. Pool with Roster, gateway requests, turn, continuation, with the first theorems: done.
2. `Stream` and `Refresh`: done.
3. `ToolFilter` and `Echo`, `ModelCatalog` and `Startup`: done.
4. Proofs of the pool, the requests, the turn, continuation, health checks, start, the catalogue, the streams,
   the tool filter and the lookup of what a client sends back: done. Every safety property of a passing run is a theorem.
5. `Turn` and `Echo` as the waiting and the lookup inside `Gateway`: refinement of
   one wait by a turn, so that its outcomes are shown and not assumed.
6. `LoginLimiter`.

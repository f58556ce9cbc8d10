------------------------------- MODULE Startup -------------------------------
(***************************************************************************)
(* Starting: main (cmd/todo2api) opens the database (Open in               *)
(* internal/storage/store.go), which migrates it, checks the master key,   *)
(* imports the accounts of the old configuration once and decrypts every   *)
(* account, and builds the pool (New in internal/pool/pool.go), which      *)
(* initializes accounts batch by batch until one is ready and names the    *)
(* models these have in common.                                            *)
(*                                                                         *)
(* Processes share the database file: an old one may still run while a new *)
(* one starts.  Each SQL transaction is a step; one that cannot have the   *)
(* lock, or is cut short by a crash, has no effect.  Every start may have  *)
(* another master key and another program version; the rest of the         *)
(* configuration, the list of old keys and the names of models, is the     *)
(* same for all.  All accounts are enabled here; what happens to them      *)
(* later is Pool's.                                                        *)
(***************************************************************************)
EXTENDS ModelCatalog

CONSTANTS
    Processes,   \* processes on one database
    MasterKeys,  \* values of storage.master_key
    NoKey,       \* no verifier yet
    Credentials, \* upstream API keys
    LegacyKeys,  \* what pool.keys and pool.key_files list, in order
    Versions,    \* schema versions known to some version of the program
    Batch,       \* bootstrapAccounts
    Catalogs,    \* sets of models an account may have
    MaxCreates   \* bound: accounts an administrator adds

ASSUME StartupAssumption ==
    /\ NoKey \notin MasterKeys /\ LegacyKeys \in Seq(Credentials)
    /\ 1 \in Versions /\ Versions \subseteq Nat \ {0} /\ Batch \in Nat \ {0} /\ MaxCreates \in Nat

\* Catalogs are finite; a model without an id is left out of them.
ASSUME CatalogsAssumption ==
    \A c \in Catalogs : /\ IsFiniteSet(c)
                       /\ \A m \in c : m \in Seq(STRING) /\ m # <<>>

VARIABLES
    db,      \* the database
    proc,    \* the processes
    deleted, \* history: accounts deleted and not added again
    old,     \* history: whether there were accounts before the first start
    creates  \* bound used

vars == <<db, proc, deleted, old, creates>>

Row(k, mk) == [key |-> k, mk |-> mk]  \* a credential sealed with a master key
Held(k) == k \in {db.rows[i].key : i \in DOMAIN db.rows}

NotRunning == [pc |-> "down", mk |-> NoKey, latest |-> 0, keys |-> <<>>, start |-> 0,
               catalogs |-> {}, public |-> <<>>]

\* No database yet, or one with an account and no note of an import.
Init ==
    /\ db \in {[schema |-> 0, verifier |-> NoKey, marker |-> FALSE, rows |-> <<>>]}
              \cup {[schema |-> 1, verifier |-> mk, marker |-> FALSE, rows |-> <<Row(k, mk)>>] :
                       mk \in MasterKeys, k \in Credentials \ Range(LegacyKeys)}
    /\ proc = [p \in Processes |-> NotRunning]
    /\ deleted = {} /\ old = (db.rows # <<>>) /\ creates = 0

At(p, l) == proc[p].pc = l
Goto(p, l) == proc' = [proc EXCEPT ![p].pc = l]

-----------------------------------------------------------------------------
(***************************************************************************)
(* Faulty variants of the definitions below; no action uses them.          *)
(***************************************************************************)
\* The verifier is not read again after it was written.
trustsInsert(p) == At(p, "reread") /\ Goto(p, "import") /\ UNCHANGED <<db, deleted, old, creates>>

\* Accounts are imported whenever there are none.
importsIfEmpty == db.rows = <<>>

\* A batch always has its full size.
fullBatch(n, total) == n + Batch

-----------------------------------------------------------------------------
(***************************************************************************)
(* storage.Open.                                                           *)
(***************************************************************************)
Start(p, mk, v) ==
    /\ At(p, "down")
    /\ proc' = [proc EXCEPT ![p] = [NotRunning EXCEPT !.pc = "migrate", !.mk = mk, !.latest = v]]
    /\ UNCHANGED <<db, deleted, old, creates>>

\* All missing versions in one transaction; a newer database is refused.
migrate(p) ==
    /\ At(p, "migrate") /\ db.schema <= proc[p].latest
    /\ db' = [db EXCEPT !.schema = proc[p].latest]
    /\ Goto(p, "verify")
    /\ UNCHANGED <<deleted, old, creates>>

\* verifyMasterKey: the verifier is read; if there is none it is written
\* unless there is one by then, and read again.
verifyMasterKey(p) ==
    /\ At(p, "verify") /\ db.verifier \in {NoKey, proc[p].mk}
    /\ Goto(p, IF db.verifier = NoKey THEN "insert" ELSE "import")
    /\ UNCHANGED <<db, deleted, old, creates>>

insertVerifier(p) ==
    /\ At(p, "insert")
    /\ db' = IF db.verifier = NoKey THEN [db EXCEPT !.verifier = proc[p].mk] ELSE db
    /\ Goto(p, "reread")
    /\ UNCHANGED <<deleted, old, creates>>

rereadVerifier(p) ==
    /\ At(p, "reread") /\ db.verifier = proc[p].mk
    /\ Goto(p, "import")
    /\ UNCHANGED <<db, deleted, old, creates>>

\* LegacyPoolKeys: the keys listed, each once, in the order they first appear.
FirstListed == {i \in DOMAIN LegacyKeys : \A j \in 1..i - 1 : LegacyKeys[j] # LegacyKeys[i]}
Nth(S, n) == CHOOSE i \in S : Cardinality({j \in S : j < i}) = n - 1
LegacyPoolKeys == [n \in 1..Cardinality(FirstListed) |-> LegacyKeys[Nth(FirstListed, n)]]

\* The keys of the old configuration are wanted once, for an empty database.
ImportWanted == ~db.marker /\ db.rows = <<>>

importLegacyOnce(p) ==
    /\ At(p, "import")
    /\ db' = [db EXCEPT !.marker = TRUE,
                        !.rows = IF ImportWanted
                                 THEN [i \in DOMAIN LegacyPoolKeys |-> Row(LegacyPoolKeys[i], proc[p].mk)]
                                 ELSE @]
    /\ Goto(p, "validate")
    /\ UNCHANGED <<deleted, old, creates>>

Readable(p) == \A i \in DOMAIN db.rows : db.rows[i].mk = proc[p].mk

validate(p) ==
    /\ At(p, "validate") /\ Readable(p) /\ Goto(p, "keys")
    /\ UNCHANGED <<db, deleted, old, creates>>

-----------------------------------------------------------------------------
(***************************************************************************)
(* main and pool.New.                                                      *)
(***************************************************************************)
PoolKeys(p) ==
    /\ At(p, "keys") /\ Readable(p)
    /\ proc' = [proc EXCEPT ![p].pc = "pool",
                            ![p].keys = [i \in DOMAIN db.rows |-> db.rows[i].key]]
    /\ UNCHANGED <<db, deleted, old, creates>>

\* An account is not initialized, or it is, with its catalog or without.
Results == [ready: {TRUE}, catalogs: {{c} : c \in Catalogs} \cup {{}}]
           \cup {[ready |-> FALSE, catalogs |-> {}]}

\* The end of the batch after the first n accounts.
BatchEnd(n, total) == Min({n + Batch, total})

\* The models are those common to all accounts that are ready; none if one of
\* these has no catalog.
Served(w, ready) ==
    LET known == IF \E r \in ready : r.catalogs = {} THEN {} ELSE UNION {r.catalogs : r \in ready}
    IN  [w EXCEPT !.pc = "serve", !.keys = <<>>, !.start = 0,
                  !.catalogs = known, !.public = publicModelIDs(commonModels(known))]

\* Nothing to initialize, or one batch; another one follows if none is ready.
bootstrap(p) ==
    LET w == proc[p]
        end == BatchEnd(w.start, Len(w.keys))
    IN
    /\ At(p, "pool")
    /\ \E results \in [w.start + 1..end -> Results] :
         LET ready == {r \in Range(results) : r.ready} IN
         proc' = [proc EXCEPT ![p] = IF ready # {} \/ end = Len(w.keys) THEN Served(w, ready)
                                     ELSE [w EXCEPT !.start = end]]
    /\ UNCHANGED <<db, deleted, old, creates>>

\* An error, a signal or a crash, at any time.
Stop(p) ==
    /\ ~At(p, "down") /\ proc' = [proc EXCEPT ![p] = NotRunning]
    /\ UNCHANGED <<db, deleted, old, creates>>

-----------------------------------------------------------------------------
(***************************************************************************)
(* The administrator of a running process.                                 *)
(***************************************************************************)
\* Credentials are told apart by a fingerprint under the master key.
CreateAccount(p, k) ==
    /\ At(p, "serve") /\ creates < MaxCreates
    /\ Row(k, proc[p].mk) \notin Range(db.rows)
    /\ db' = [db EXCEPT !.rows = Append(@, Row(k, proc[p].mk))]
    /\ deleted' = deleted \ {k} /\ creates' = creates + 1
    /\ UNCHANGED <<proc, old>>

DeleteAccount(p, i) ==
    /\ At(p, "serve")
    /\ db' = [db EXCEPT !.rows = RemoveAt(@, i)]
    /\ deleted' = deleted \cup {db.rows[i].key}
    /\ UNCHANGED <<proc, old, creates>>

-----------------------------------------------------------------------------
Open(p) == \/ migrate(p) \/ verifyMasterKey(p) \/ insertVerifier(p) \/ rereadVerifier(p)
           \/ importLegacyOnce(p) \/ validate(p)
Manage(p) == \/ \E k \in Credentials : CreateAccount(p, k)
             \/ \E i \in DOMAIN db.rows : DeleteAccount(p, i)

Next == \E p \in Processes :
          \/ \E mk \in MasterKeys, v \in Versions : Start(p, mk, v)
          \/ Open(p) \/ PoolKeys(p) \/ bootstrap(p) \/ Manage(p) \/ Stop(p)

Spec == Init /\ [][Next]_vars
=============================================================================

-------------------------- MODULE StartupProperties --------------------------
(***************************************************************************)
(* What must hold of a start, and of the models a started process offers.  *)
(***************************************************************************)
EXTENDS Startup

Opening == {"verify", "insert", "reread", "import", "validate", "keys", "pool", "serve"}

\* Every variable has its type, and the database has a schema when it is used.
StartupTypeOK ==
    /\ db.schema \in {0} \cup Versions /\ db.verifier \in MasterKeys \cup {NoKey}
    /\ db.marker \in BOOLEAN /\ db.rows \in Seq([key: Credentials, mk: MasterKeys])
    /\ IsInjective(db.rows)
    /\ \A p \in Processes :
         /\ proc[p].pc \in {"down", "migrate"} \cup Opening
         /\ proc[p].pc \in Opening => db.schema >= proc[p].latest
         /\ proc[p].mk \in MasterKeys \cup {NoKey} /\ proc[p].keys \in Seq(Credentials)
         /\ proc[p].start \in 0..Len(proc[p].keys)
         /\ proc[p].catalogs \subseteq Catalogs
    /\ deleted \subseteq Credentials /\ old \in BOOLEAN /\ creates \in 0..MaxCreates

\* A database has one master key for ever: whoever gets past the check has the
\* key everything is sealed with, even if two first starts race with different
\* keys, so that no account becomes unreadable (README: "a missing or different
\* key makes startup fail instead of silently losing access to credentials").
KeyKept ==
    /\ \A i \in DOMAIN db.rows : db.rows[i].mk = db.verifier
    /\ \A p \in Processes :
         proc[p].pc \in {"import", "validate", "keys", "pool", "serve"} =>
            proc[p].mk = db.verifier

\* The old configuration is imported once, all of it, and into an empty
\* database only, wherever a start is cut short and whoever else starts: an
\* account that was deleted never comes back by itself.
ImportedOnce ==
    /\ \A k \in deleted : ~Held(k)
    /\ ~old => IF db.marker THEN \A k \in Range(LegacyKeys) : Held(k) \/ k \in deleted
               ELSE db.rows = <<>>
    /\ old => \A k \in Range(LegacyKeys) : Held(k) => creates > 0

\* What an id is listed for: an alias for its target, a public id for its model,
\* the short name of a default nobody has discovered for the default.
Listed(public, id) == CHOOSE m \in DOMAIN public : public[m] = id
Target(public, id) ==
    IF id \in DOMAIN Aliases THEN ResolveModel(public, Aliases[id])
    ELSE IF id \in Range(public) THEN RunnerModelID(Listed(public, id))
    ELSE ResolveModel(public, Default)

\* Taken for the default although it is listed for something else.
Ambiguous(public, id) == MeansDefault(public, id) /\ id \in DOMAIN Aliases \cup Range(public)

\* The runner id of the model is the whole or the public id of another one.
Doubled(public, m) == \E n \in DOMAIN public \ {m} : RunnerModelID(m) \in {n, public[n]}

\* Answered under another id than the one that was asked for: what is taken for
\* the default is cut short once more, and a doubled model has the other's id.
Renamed(public, id) ==
    /\ id \notin DOMAIN Aliases
    /\ IF MeansDefault(public, id) THEN configuredModelShortID(id) # id
       ELSE Doubled(public, Listed(public, id))

\* Where names are mixed up, and that they are nowhere else, whatever the
\* catalogs, the default and the aliases.  Models have different public ids; the
\* public and the whole id of a model lead to it, its runner id too unless it is
\* doubled; an id /v1/models lists leads to what it is listed for unless it is
\* ambiguous, which leads to the default; the answer carries the id that was
\* asked for unless that is renamed.  (An alias without a name is never found: no
\* name means the default.)  A discovered model is one that every account has
\* that was ready in the first batch with such an account; New asks no other.
\* The README promises more: every account asked, "every advertised model"
\* available (README.md:140-143), which ambiguous ids and later batches are not.
CatalogResolves ==
    \A p \in Processes : At(p, "serve") =>
        LET public == proc[p].public IN
        /\ \A m, n \in DOMAIN public : public[m] = public[n] => m = n
        /\ \A m \in DOMAIN public :
             /\ \A id \in {m, public[m]} : ResolveModel(public, id) = RunnerModelID(m)
             /\ Doubled(public, m) \/ ResolveModel(public, RunnerModelID(m)) = RunnerModelID(m)
             /\ \A c \in proc[p].catalogs : m \in c
        /\ \A id \in Models(public) \ {<<>>} :
             LET resolved == resolveModel(public, id) IN
             /\ (resolved # Target(public, id)) <=> Ambiguous(public, id)
             /\ Ambiguous(public, id) => resolved = Default
             /\ (publicModelID(public, id, resolved) # id) <=> Renamed(public, id)
=============================================================================

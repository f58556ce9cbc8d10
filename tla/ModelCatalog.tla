---------------------------- MODULE ModelCatalog ----------------------------
(***************************************************************************)
(* The names of models: the short public ids the pool gives to what it has *)
(* discovered (internal/pool/pool.go), the configured default and aliases  *)
(* (internal/config/config.go), and what the gateway makes of the name a   *)
(* client asks for (internal/gateway/gateway.go).                          *)
(*                                                                         *)
(* An id is a sequence of words, "/" and ":".  Upstream calls a model      *)
(* author/name; agents are told provider:author/name, the runner id.       *)
(* public maps every discovered model to its public id.                    *)
(***************************************************************************)
EXTENDS Integers, Sequences, SequencesExt, FiniteSetsExt

CONSTANTS
    Default, \* models.default, a runner id, or <<>>
    Aliases  \* models.aliases, a function from ids to runner ids

\* Where sep first is in id, 0 if it is not.
Cut(id, sep) == SelectInSeq(id, LAMBDA w : w = sep)
Before(id, at) == SubSeq(id, 1, at - 1)
After(id, at)  == SubSeq(id, at + 1, Len(id))

shortModelID(id) ==
    LET at == Cut(id, "/") IN IF at \in {0, Len(id)} THEN id ELSE After(id, at)

RunnerModelID(id) ==
    LET at == Cut(id, "/") IN
    IF at \in {0, 1} \/ Cut(Before(id, at), ":") # 0 THEN id
    ELSE Before(id, at) \o <<":">> \o id

configuredModelShortID(id) == shortModelID(After(id, Cut(id, ":")))

\* provider:author/model_id, nothing of it empty.
validUpstreamModelName(id) ==
    LET model == After(id, Cut(id, ":")) IN
    Cut(id, ":") > 1 /\ Cut(model, "/") \notin {0, 1, Len(model)}

\* What the configuration is refused without.
ASSUME NamesAssumption ==
    /\ Default \in Seq(STRING) /\ (Default = <<>> \/ validUpstreamModelName(Default))
    /\ \A id \in DOMAIN Aliases : /\ id \in Seq(STRING) /\ Aliases[id] \in Seq(STRING)
                                /\ validUpstreamModelName(Aliases[id])

-----------------------------------------------------------------------------
(***************************************************************************)
(* A faulty variant of the next definition; nothing uses it.               *)
(***************************************************************************)
\* A short id may be another model's full id.
shadows(models) ==
    [m \in models |-> IF \E n \in models \ {m} : shortModelID(n) = shortModelID(m)
                      THEN m ELSE shortModelID(m)]

\* Short ids, except that a model keeps its whole id where the short one is
\* taken by another or is another's whole id.  Keeping one may disturb another,
\* so this is repeated until it changes nothing.
publicModelIDs(models) ==
    LET ID(kept, m) == IF m \in kept THEN m ELSE shortModelID(m)
        Disturbed(kept) == {m \in models : \E n \in models \ {m} : ID(kept, m) \in {ID(kept, n), n}}
        kept[n \in 0..Cardinality(models)] ==
          IF n = 0 THEN {} ELSE kept[n - 1] \cup Disturbed(kept[n - 1])
    IN  [m \in models |-> ID(kept[Cardinality(models)], m)]

\* What all catalogs have, if there is one.
commonModels(catalogs) == {m \in UNION catalogs : \A c \in catalogs : m \in c}

-----------------------------------------------------------------------------
(***************************************************************************)
(* What the pool knows.                                                    *)
(***************************************************************************)
\* The model of that public, full or runner id, if it has been discovered.
Model(public, id) ==
    LET byID == {m \in DOMAIN public : id \in {m, public[m]}}
    IN  IF byID # {} THEN byID ELSE {m \in DOMAIN public : id = RunnerModelID(m)}

ResolveModel(public, id) ==
    IF Model(public, id) = {} THEN id ELSE RunnerModelID(CHOOSE m \in Model(public, id) : TRUE)

\* The public id, <<>> if the model has not been discovered.
PublicModelID(public, id) ==
    IF Model(public, id) = {} THEN <<>> ELSE public[CHOOSE m \in Model(public, id) : TRUE]

-----------------------------------------------------------------------------
(***************************************************************************)
(* What the gateway makes of it.                                           *)
(***************************************************************************)
Resolve(requested) ==
    IF requested = <<>> THEN Default
    ELSE IF requested \in DOMAIN Aliases THEN Aliases[requested] ELSE requested

\* The short name of the default stands for it while it is not discovered.
MeansDefault(public, requested) ==
    /\ requested # <<>> /\ requested = configuredModelShortID(Default)
    /\ Resolve(requested) = requested /\ Model(public, Default) = {}

resolveModel(public, requested) ==
    ResolveModel(public, IF MeansDefault(public, requested) THEN Default ELSE Resolve(requested))

\* The name an answer carries.
publicModelID(public, requested, resolved) ==
    IF requested \in DOMAIN Aliases THEN requested
    ELSE IF PublicModelID(public, resolved) # <<>> THEN PublicModelID(public, resolved)
    ELSE configuredModelShortID(IF requested # <<>> THEN requested ELSE resolved)

\* The ids /v1/models lists: discovered models, aliases and the default.
DefaultID(public) == IF PublicModelID(public, Default) # <<>> THEN PublicModelID(public, Default)
                     ELSE configuredModelShortID(Default)
Models(public) ==
    Range(public) \cup DOMAIN Aliases \cup (IF Default = <<>> THEN {} ELSE {DefaultID(public)})
=============================================================================

---------------------------- MODULE Connections ----------------------------
(***************************************************************************)
(* Provider connections.  The console keeps them, with the models it has   *)
(* found, in providers.db; every worker of the gateway has a registry it   *)
(* built from there.  After a write the console pokes one worker, once,    *)
(* and ignores how that went; a worker that is asked for a model it does   *)
(* not know builds its registry again.  The synchronisation of models      *)
(* awaits the provider; a worker that reads the database is a process of   *)
(* its own, and the console may write between two of its reads.            *)
(***************************************************************************)
EXTENDS Integers, FiniteSets

CONSTANTS
  Connections,
  Slugs,
  Urls,        \* what a configuration says besides: where to call, with which key
  Found,       \* model ids of the providers
  Syncs,       \* calls of the sync endpoint
  Proxies,     \* workers of the gateway
  MaxPokes,    \* bound: pokes under way
  NoConn, NoSync, NoReload

\* A row, and what a registry makes of it.  The status a row has as well is shown to
\* people; nothing decides on it.
Endpoint == [slug : Slugs, url : Urls, models : SUBSET Found]
Reading == [left : SUBSET (Connections \X Slugs), built : SUBSET Endpoint]

ASSUME ConnAssumption ==
  /\ MaxPokes \in Nat /\ NoConn \notin Endpoint /\ NoSync \notin Connections
  /\ NoReload \notin Reading

VARIABLES
  conn,      \* rows of provider_connections and provider_models
  syncing,   \* the connection a sync has asked the provider of
  pokes,     \* reload calls that have not arrived
  direct,    \* workers with a direct client
  registry,  \* its endpoints
  reload,    \* a worker that builds its registry: what it has read
  missed     \* history: a poke went elsewhere, was lost or failed since the
             \* worker last began to read

connVars == <<conn, syncing, pokes, direct, registry, reload, missed>>

Rows == {c \in Connections : conn[c] # NoConn}
ModelsIn(endpoints) == UNION {e.models : e \in endpoints}

\* What _build_direct_registry makes of the database if nothing moves meanwhile.
Persisted == {conn[c] : c \in {d \in Rows : conn[d].models # {}}}

ConnInit ==
  /\ conn = [c \in Connections |-> NoConn]
  /\ syncing = [s \in Syncs |-> NoSync]
  /\ pokes = 0
  /\ direct = {}
  /\ registry = [w \in Proxies |-> {}]
  /\ reload = [w \in Proxies |-> NoReload]
  /\ missed = [w \in Proxies |-> FALSE]

\* _poke_proxy_reload_direct_registry, as a task after the write
Poke == pokes < MaxPokes /\ pokes' = pokes + 1

\* Mutant: the slug is not UNIQUE.
AnySlug(slug, c) == TRUE

SlugFree(slug, c) == \A d \in Rows \ {c} : conn[d].slug # slug

CreateConnection(c, slug, url) ==
  /\ conn[c] = NoConn
  /\ SlugFree(slug, c)
  /\ conn' = [conn EXCEPT ![c] = [slug |-> slug, url |-> url, models |-> {}]]
  /\ Poke
  /\ UNCHANGED <<syncing, registry, reload, missed, direct>>

\* Mutant: the proxy is not told of an update.
Quiet == UNCHANGED pokes

TellProxy == Poke

\* The models of the old configuration stay.
UpdateConnection(c, slug, url) ==
  /\ conn[c] # NoConn
  /\ SlugFree(slug, c)
  /\ conn' = [conn EXCEPT ![c].slug = slug, ![c].url = url]
  /\ TellProxy
  /\ UNCHANGED <<syncing, registry, reload, missed, direct>>

\* sync reads the configuration and awaits the answer of the provider.
BeginSync(s, c) ==
  /\ syncing[s] = NoSync /\ conn[c] # NoConn
  /\ syncing' = [syncing EXCEPT ![s] = c]
  /\ UNCHANGED <<conn, pokes, registry, reload, missed, direct>>

SyncOver(s) == syncing' = [syncing EXCEPT ![s] = NoSync]

Catalog(c, models) == conn[c].models \cup models

\* save_models: nothing is ever removed.
SyncSucceeds(s, models) ==
  /\ syncing[s] # NoSync
  /\ LET c == syncing[s] IN
       conn' = [conn EXCEPT ![c].models = Catalog(c, models)]
  /\ SyncOver(s)
  /\ Poke
  /\ UNCHANGED <<registry, reload, missed, direct>>

\* mark_error: an HTTP error, a timeout, a type without discovery; the console does
\* not poke.  An answer that is no list of objects raises past sync; it stops there.
SyncFails(s) ==
  /\ syncing[s] # NoSync
  /\ SyncOver(s)
  /\ UNCHANGED <<conn, pokes, registry, reload, missed, direct>>

\* create_app.  Without a connection that has models the worker gets no direct
\* client, and none later.
StartProxy(w) ==
  /\ reload[w] = NoReload
  /\ registry' = [registry EXCEPT ![w] = Persisted]
  /\ direct' = IF Persisted = {} THEN direct \ {w} ELSE direct \cup {w}
  /\ missed' = [missed EXCEPT ![w] = FALSE]
  /\ UNCHANGED <<conn, syncing, pokes, reload>>

\* provider_store.list: the slugs are read here, the rest connection by connection.
BeginReload(w) ==
  /\ reload[w] = NoReload /\ w \in direct
  /\ reload' = [reload EXCEPT ![w] =
       [left |-> {<<c, conn[c].slug>> : c \in Rows}, built |-> {}]]

\* The poke arrives at one of the workers.  One without a direct client answers
\* "reloaded" and does nothing.
PokeArrives(w) ==
  /\ pokes > 0 /\ pokes' = pokes - 1
  /\ reload[w] = NoReload
  /\ \/ BeginReload(w)
     \/ w \notin direct /\ UNCHANGED reload
  /\ missed' = [v \in Proxies |-> v # w]
  /\ UNCHANGED <<conn, syncing, registry, direct>>

PokeLost ==
  /\ pokes > 0 /\ pokes' = pokes - 1
  /\ missed' = [v \in Proxies |-> TRUE]
  /\ UNCHANGED <<conn, syncing, registry, reload, direct>>

\* forward: a model the registry does not have
Heal(w, m) ==
  /\ w \in direct /\ m \notin ModelsIn(registry[w])
  /\ BeginReload(w)
  /\ missed' = [missed EXCEPT ![w] = FALSE]
  /\ UNCHANGED <<conn, syncing, pokes, registry, direct>>

ReadConnection(w, c, slug) ==
  /\ reload[w] # NoReload /\ <<c, slug>> \in reload[w].left
  /\ reload' = [reload EXCEPT
       ![w].left = @ \ {<<c, slug>>},
       ![w].built = IF conn[c].models = {} THEN @
                    ELSE {e \in @ : e.slug # slug}
                         \cup {[slug |-> slug, url |-> conn[c].url,
                                models |-> conn[c].models]}]
  /\ UNCHANGED <<conn, syncing, pokes, registry, missed, direct>>

\* reload_registry replaces the index at once; the request that waited resolves.
Install(w) ==
  /\ reload[w] # NoReload /\ reload[w].left = {}
  /\ registry' = [registry EXCEPT ![w] = reload[w].built]
  /\ reload' = [reload EXCEPT ![w] = NoReload]
  /\ UNCHANGED <<conn, syncing, pokes, missed, direct>>

\* A read or the validation raises: the live index is untouched.
ReloadFails(w) ==
  /\ reload[w] # NoReload
  /\ reload' = [reload EXCEPT ![w] = NoReload]
  /\ missed' = [missed EXCEPT ![w] = TRUE]
  /\ UNCHANGED <<conn, syncing, pokes, registry, direct>>

ConnNext ==
  \/ \E c \in Connections, slug \in Slugs, url \in Urls :
       CreateConnection(c, slug, url) \/ UpdateConnection(c, slug, url)
  \/ \E s \in Syncs, c \in Connections : BeginSync(s, c)
  \/ \E s \in Syncs, models \in SUBSET Found : SyncSucceeds(s, models)
  \/ \E s \in Syncs : SyncFails(s)
  \/ \E w \in Proxies :
       \/ StartProxy(w) \/ PokeArrives(w) \/ Install(w) \/ ReloadFails(w)
       \/ \E m \in Found : Heal(w, m)
       \/ \E c \in Connections, slug \in Slugs : ReadConnection(w, c, slug)
  \/ PokeLost

ConnSpec == ConnInit /\ [][ConnNext]_connVars

-----------------------------------------------------------------------------
(* Properties *)

\* Type invariant; slugs are unique.
ConnTypeOK ==
  /\ conn \in [Connections -> Endpoint \cup {NoConn}]
  /\ syncing \in [Syncs -> Connections \cup {NoSync}]
  /\ pokes \in 0..MaxPokes
  /\ direct \subseteq Proxies /\ registry \in [Proxies -> SUBSET Endpoint]
  /\ reload \in [Proxies -> Reading \cup {NoReload}]
  /\ missed \in [Proxies -> BOOLEAN]
  /\ \A c, d \in Rows : conn[c].slug = conn[d].slug => c = d

\* A worker calls the endpoint that is stored, with the key that is stored, or a
\* poke is still on its way, or the one poke of some write did not reach it: no
\* write is forgotten because it fell between two reads of a reload
\* (update_product_provider_connection, _build_direct_registry).
StaleHasCause ==
  \A w \in Proxies :
    w \in direct =>
      \/ registry[w] = Persisted
      \/ pokes > 0 \/ missed[w] \/ reload[w] # NoReload
=============================================================================

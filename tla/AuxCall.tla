------------------------------- MODULE AuxCall -------------------------------
(***************************************************************************)
(* agent/auxiliary_client.py: call_llm and async_call_llm, the ladder of   *)
(* repairs a side task's request climbs when it fails, with the cache of   *)
(* clients it takes from (_get_cached_client), the credentials it renews   *)
(* and the providers it hides (_mark_provider_unhealthy), call after call. *)
(* Vision, which resolves its clients in another way, is left out.  The    *)
(* providers, their accounts and credential pools are external: a request  *)
(* fails as it likes and any client may turn out not to be available.      *)
(***************************************************************************)
EXTENDS Integers, FiniteSets

CONSTANTS
    Endpoint,   \* providers
    Main,       \* the main agent's provider
    Nous,       \* those that are Nous endpoints
    Pooled,     \* those with a credential pool
    Hosts,      \* those _recoverable_pool_provider tells from a client's host
    Unpinned,   \* the names "openrouter" and "custom" (without an endpoint)
    Custom,     \* of these "custom", which has no pool of its own
    TaskChain,  \* auxiliary.<task>.fallback_chain
    MainChain,  \* fallback_providers
    BuiltIn,    \* _get_provider_chain
    Transients, \* _transient_retry_count
    Asked,      \* bound: the arguments a call may come with
    MaxCalls,   \* bound: calls
    MaxRenewals, \* bound: tokens a credential is renewed to
    None

ASSUME ChainAssumption ==
    /\ Main \in Endpoint /\ "auto" \notin Endpoint
    /\ \A S \in {Nous, Pooled, Hosts, Unpinned, TaskChain, MainChain, BuiltIn} : S \subseteq Endpoint
    /\ Custom \subseteq Unpinned
    /\ {Transients, MaxCalls, MaxRenewals} \subseteq Nat

VARIABLES
    calls,      \* calls made so far
    call,       \* the arguments of the call
    rung,       \* where it is
    resolved,   \* resolved_provider
    client,     \* the client of the call
    params,     \* what kwargs still asks for
    err,        \* first_err, or recovery_err
    first,      \* first_err while recovery_err is at hand
    tries,      \* requests the call has made
    timeouts,   \* requests of the call that timed out, by provider
    credential, \* the credentials in force: the pool's entry and its token
    cache,      \* _client_cache
    unhealthy   \* _aux_unhealthy_until

local == <<calls, call, resolved>>
shared == <<credential, cache, unhealthy>>
auxVars == <<local, rung, client, params, err, first, tries, timeouts, shared>>

Param == {"temperature", "max_tokens"}
Connection == {"timeout", "lost"}
Transient == Connection \cup {"5xx"}
Capacity == Connection \cup {"payment", "rate", "incompatible", "invalid"}
Account == {"auth", "payment", "rate"}
Error == Capacity \cup {"5xx", "auth", "not_found", "other"} \cup Param

Arguments == [async : BOOLEAN, compression : BOOLEAN, model : BOOLEAN, params : SUBSET Param]

Credential == [entry : 0 .. 1, token : 0 .. MaxRenewals]
Client == [to : Endpoint, by : Credential]
\* _client_cache_key: the provider asked for, for which kind of caller, with a
\* model, with neither or with the task, and the pool's entry in force.
Form == {"model", "plain", "task"}
Key == [provider : Endpoint \cup {"auto"}, async : BOOLEAN, form : Form, hint : 0 .. 1]

\* A name of the user's, "auto", or the label of a fallback_chain entry.
Named(b) == [kind |-> "named", by |-> b]
Automatic == [kind |-> "auto", by |-> Main]
Label(b) == [kind |-> "label", by |-> b]

Ladder == {"temperature", "max_tokens", "heal", "paid", "signed", "renew", "rate",
           "pool", "second", "fallback", "evict"}

AuxTypeOK ==
    /\ calls \in 0 .. MaxCalls
    /\ call \in Arguments
    /\ rung \in {"idle", "resolve", "ask", "again", "renewed", "recovered"} \cup Ladder
    /\ resolved \in [kind : {"named", "auto", "label"}, by : Endpoint]
    /\ client \in Client \cup {None}
    /\ params \subseteq Param /\ {err, first} \subseteq Error \cup {None}
    /\ tries \in 0 .. Transients + 10 /\ timeouts \in [Endpoint -> 0 .. Transients + 10]
    /\ credential \in [Endpoint -> Credential]
    /\ cache \in [Key -> Client \cup {None}] /\ unhealthy \subseteq Endpoint

AuxInit ==
    /\ calls = 0 /\ call = [async |-> FALSE, compression |-> FALSE, model |-> FALSE, params |-> {}]
    /\ rung = "idle" /\ resolved = Automatic /\ client = None /\ params = {}
    /\ err = None /\ first = None /\ tries = 0 /\ timeouts = [b \in Endpoint |-> 0]
    /\ credential = [b \in Endpoint |-> [entry |-> 0, token |-> 0]]
    /\ cache = [k \in Key |-> None] /\ unhealthy = {}

-----------------------------------------------------------------------------
(***************************************************************************)
(* Clients.                                                                *)
(***************************************************************************)
Hint(b) == IF b \in Pooled THEN credential[b].entry ELSE 0

KeyOf(r, form) ==
    [provider |-> IF r.kind = "auto" THEN "auto" ELSE r.by, async |-> call.async, form |-> form, hint |-> Hint(r.by)]

\* Under which the call looks for its client.
CallKey == KeyOf(resolved, IF call.model THEN "model" ELSE "plain")

Built(b) == [to |-> b, by |-> credential[b]]

\* _resolve_auto: the main provider, then the chains (the task's only when the
\* task is passed along), without the ones that are hidden.
Candidates(withTask) ==
    (({Main} \cup MainChain \cup BuiltIn) \ unhealthy) \cup (IF withTask THEN TaskChain ELSE {})

\* _get_cached_client: what is cached, else what can be built of the
\* candidates, in any case, or nothing.
GetCached(k, candidates, c) ==
    IF cache[k] # None THEN c = cache[k] /\ UNCHANGED cache
    ELSE \/ c = None /\ UNCHANGED cache
         \/ /\ c \in {Built(b) : b \in candidates}
            /\ cache' = [cache EXCEPT ![k] = c]

\* Mutant: the clients of the provider stay.
EvictNone(b) == UNCHANGED cache

\* _evict_cached_clients: those that were asked for by the provider's name.
Evict(b) == cache' = [k \in Key |-> IF k.provider = b THEN None ELSE cache[k]]

\* _recoverable_pool_provider
PoolProvider ==
    CASE resolved.kind = "named" /\ resolved.by \notin Custom -> {resolved.by}
      [] resolved.kind # "label" /\ client.to \in Hosts -> {client.to}
      [] OTHER -> {}

IsNous == client.to \in Nous

MayRenew == \A b \in Endpoint : credential[b].token < MaxRenewals

Renew(b) == credential' = [credential EXCEPT ![b].token = @ + 1]
RotateEntry(b) == credential' = [credential EXCEPT ![b] = [entry |-> 1, token |-> 0]]

\* _recover_provider_pool: an auth error is met by a new token, or like the
\* others by the pool's next entry, when there is one.
Recover(b, e) ==
    /\ b \in Pooled
    /\ \/ e = "auth" /\ MayRenew /\ Renew(b)
       \/ credential[b].entry = 0 /\ RotateEntry(b)
    /\ Evict(b)

-----------------------------------------------------------------------------
(***************************************************************************)
(* Requests.                                                               *)
(***************************************************************************)
Leave == rung' = "idle"
Goto(where) == rung' = where

\* A request: answered, or refused for a parameter it has, or it fails; an
\* error that is not taken further is raised.
Ask(c, ps, taken, then) ==
    /\ tries' = tries + 1
    /\ \/ Leave /\ UNCHANGED <<err, timeouts>>
       \/ \E e \in Error \ (Param \ ps) :
             /\ err' = e
             /\ timeouts' = IF e = "timeout" THEN [timeouts EXCEPT ![c.to] = @ + 1] ELSE timeouts
             /\ IF e \in taken THEN Goto(then) ELSE Leave

Call ==
    /\ rung = "idle" /\ calls < MaxCalls
    /\ calls' = calls + 1
    /\ call' \in Arguments \cap Asked
    /\ resolved' \in {Automatic} \cup {Named(b) : b \in Endpoint}
    /\ params' = call'.params /\ client' = None /\ err' = None /\ first' = None
    /\ tries' = 0 /\ timeouts' = [b \in Endpoint |-> 0]
    /\ Goto("resolve")
    /\ UNCHANGED shared

Resolve ==
    /\ rung = "resolve"
    /\ GetCached(CallKey, IF resolved.kind = "named" THEN {resolved.by} ELSE Candidates(FALSE), client')
    /\ client' # None
    /\ Goto("ask")
    /\ UNCHANGED <<local, params, err, first, tries, timeouts, credential, unhealthy>>

\* A name that stands for whatever can be had.
Anything == resolved.kind = "auto" \/ resolved.by \in Unpinned

\* No client: of a provider that was named, the task's chain is tried; else
\* the whole detection once more, now with the task and without a model, and
\* what it finds is taken under the name that was asked for.
ResolveFallback ==
    /\ rung = "resolve" /\ cache[CallKey] = None
    /\ \/ /\ ~Anything
          /\ \E b \in TaskChain \ {resolved.by} : client' = Built(b) /\ resolved' = Label(b)
          /\ Goto("ask") /\ UNCHANGED cache
       \/ /\ Anything
          /\ GetCached(KeyOf(Automatic, "task"), Candidates(TRUE), client') /\ client' # None
          /\ Goto("ask") /\ UNCHANGED resolved
       \/ Leave /\ UNCHANGED <<client, resolved, cache>>
    /\ UNCHANGED <<calls, call, params, err, first, tries, timeouts, credential, unhealthy>>

\* Mutant: a retry too many.
FirstOnceMore ==
    /\ rung \in {"ask", "again"} /\ ~call.async
    /\ Ask(client, params, Error,
           IF /\ tries <= Transients /\ err' \in Transient
              /\ ~(rung = "ask" /\ call.compression /\ err' = "timeout")
           THEN "again" ELSE "temperature")
    /\ UNCHANGED <<local, client, params, first, shared>>

\* The first request, and what is tried again at once when the connection
\* fails: not a compression that timed out the first time.
First ==
    /\ rung \in {"ask", "again"} /\ ~call.async
    /\ Ask(client, params, Error,
           IF /\ tries < Transients /\ err' \in Transient
              /\ ~(rung = "ask" /\ call.compression /\ err' = "timeout")
           THEN "again" ELSE "temperature")
    /\ UNCHANGED <<local, client, params, first, shared>>

\* async_call_llm tries once more, and at once, whatever is configured.
FirstAsync ==
    /\ rung \in {"ask", "again"} /\ call.async
    /\ Ask(client, params, Error,
           IF rung = "ask" /\ err' \in Transient /\ ~(call.compression /\ err' = "timeout")
           THEN "again" ELSE "temperature")
    /\ UNCHANGED <<local, client, params, first, shared>>

-----------------------------------------------------------------------------
(***************************************************************************)
(* The ladder: every rung that applies asks once more and hands some       *)
(* errors on to the next ones.                                             *)
(***************************************************************************)
Temperature ==
    /\ rung = "temperature"
    /\ IF err = "temperature"
       THEN /\ params' = params \ {"temperature"}
            /\ Ask(client, params', Connection \cup {"payment", "auth", "max_tokens"}, "max_tokens")
       ELSE Goto("max_tokens") /\ UNCHANGED <<params, err, tries, timeouts>>
    /\ UNCHANGED <<local, client, first, shared>>

MaxTokens ==
    /\ rung = "max_tokens"
    /\ IF err = "max_tokens"
       THEN /\ params' = params \ {"max_tokens"}
            /\ Ask(client, params', Connection \cup {"payment", "rate"}, "heal")
       ELSE Goto("heal") /\ UNCHANGED <<params, err, tries, timeouts>>
    /\ UNCHANGED <<local, client, first, shared>>

\* A model the Nous portal no longer serves is replaced by its next one.
Heal ==
    /\ rung = "heal"
    /\ \/ err = "not_found" /\ IsNous /\ Ask(client, params, Error, "paid")
       \/ Goto("paid") /\ UNCHANGED <<err, tries, timeouts>>
    /\ UNCHANGED <<local, client, params, first, shared>>

\* _refresh_nous_auxiliary_client stores the client under the model it has by
\* now, whichever was asked for.
RefreshNous(taken) ==
    /\ MayRenew /\ Renew(client.to)
    /\ cache' = [cache EXCEPT ![KeyOf(resolved, "model")] =
                    [to |-> client.to, by |-> credential'[client.to]]]
    /\ Ask(client, params, taken, "signed")

\* Nous says payment required of an account that has paid: its key is renewed.
Paid ==
    /\ rung = "paid"
    /\ \/ err = "payment" /\ IsNous /\ RefreshNous(Connection \cup Account)
       \/ Goto("signed") /\ UNCHANGED <<err, tries, timeouts, credential, cache>>
    /\ UNCHANGED <<local, client, params, first, unhealthy>>

Signed ==
    /\ rung = "signed"
    /\ \/ err = "auth" /\ IsNous /\ RefreshNous({})
       \/ Goto("renew") /\ UNCHANGED <<err, tries, timeouts, credential, cache>>
    /\ UNCHANGED <<local, client, params, first, unhealthy>>

\* _refresh_provider_credentials, of a provider that was named.
RenewCredentials ==
    /\ rung = "renew"
    /\ \/ /\ err = "auth" /\ resolved.kind = "named" /\ ~IsNous
          /\ MayRenew /\ Renew(resolved.by) /\ Evict(resolved.by)
          /\ Goto("renewed")
       \/ Goto("rate") /\ UNCHANGED <<credential, cache>>
    /\ UNCHANGED <<local, client, params, err, first, tries, timeouts, unhealthy>>

\* Before the pool: a rate limit is waited out by one more request, the error
\* of which is for the pool alone.
Rate ==
    /\ rung = "rate"
    /\ first' = err
    /\ IF PoolProvider # {} /\ err = "rate"
       THEN Ask(client, params, Account, "pool")
       ELSE Goto("pool") /\ UNCHANGED <<err, tries, timeouts>>
    /\ UNCHANGED <<local, client, params, shared>>

Pool ==
    /\ rung = "pool"
    /\ \/ /\ err \in Account
          /\ \E b \in PoolProvider : Recover(b, err)
          /\ Goto("recovered") /\ UNCHANGED <<err>>
       \/ Goto("fallback") /\ err' = first /\ UNCHANGED <<credential, cache>>
    /\ UNCHANGED <<local, client, params, first, tries, timeouts, unhealthy>>

\* _retry_same_provider: a client by the same name and the whole request anew.
\* Only after the pool's recovery some errors are taken further.
RetrySame ==
    /\ rung \in {"renewed", "recovered"}
    /\ \E c \in Client \cup {None} :
          /\ GetCached(CallKey, IF resolved.kind = "named" THEN {resolved.by} ELSE Candidates(FALSE), c)
          /\ IF c = None THEN Leave /\ UNCHANGED <<err, tries, timeouts>>
             ELSE Ask(c, call.params, IF rung = "renewed" THEN {} ELSE Account, "second")
    /\ UNCHANGED <<local, client, params, first, credential, unhealthy>>

\* That error moves the pool on once more; the call leaves the provider.
Second ==
    /\ rung = "second"
    /\ \/ \E b \in PoolProvider : Recover(b, err)
       \/ UNCHANGED <<credential, cache>>
    /\ Goto("fallback")
    /\ UNCHANGED <<local, client, params, err, first, tries, timeouts, unhealthy>>

\* What else may serve the call: the chain of the task, the main agent's chain,
\* the detection, the main agent's model; each without what failed, as far as
\* the name it was asked by tells, and all but the first without the hidden.
TaskFallback(failed) == TaskChain \ failed
MainFallback == (MainChain \ {Main}) \ unhealthy'
BuiltInFallback == BuiltIn \ unhealthy'
MainAgent(failed) == ({Main} \ failed) \ unhealthy'

Elsewhere ==
    IF resolved.kind = "auto" THEN TaskFallback({}) \cup MainFallback \cup BuiltInFallback
    ELSE LET failed == IF resolved.kind = "named" THEN {resolved.by} ELSE {} IN
         TaskFallback(failed) \cup MainAgent(failed)

FallsBack == err \in Capacity \/ (err = "auth" /\ resolved.kind = "auto")

\* Who does not pay is hidden; one client of another provider is asked, once.
Fallback ==
    /\ rung = "fallback" /\ FallsBack
    /\ unhealthy' = IF err = "payment" THEN unhealthy \cup PoolProvider ELSE unhealthy
    /\ \/ \E b \in Elsewhere : Ask(Built(b), call.params, {}, "idle")
       \/ Goto("evict") /\ UNCHANGED <<err, tries, timeouts>>
    /\ UNCHANGED <<local, client, params, first, credential, cache>>

NoFallback ==
    /\ rung = "fallback" /\ ~FallsBack
    /\ Goto("evict")
    /\ UNCHANGED <<local, client, params, err, first, tries, timeouts, shared>>

\* _evict_cached_client_instance: a client whose connection failed is dropped.
EvictDead ==
    /\ rung = "evict"
    /\ cache' = IF err \in Connection
                THEN [k \in Key |-> IF cache[k] = client THEN None ELSE cache[k]] ELSE cache
    /\ Leave
    /\ UNCHANGED <<local, client, params, err, first, tries, timeouts, credential, unhealthy>>

\* Ten minutes later.
Expire ==
    /\ \E b \in unhealthy : unhealthy' = unhealthy \ {b}
    /\ UNCHANGED <<local, rung, client, params, err, first, tries, timeouts, credential, cache>>

Climb ==
    \/ Temperature \/ MaxTokens \/ Heal \/ Paid \/ Signed \/ RenewCredentials \/ Rate \/ Pool
    \/ RetrySame \/ Second \/ Fallback \/ NoFallback \/ EvictDead

AuxNext == Call \/ Resolve \/ ResolveFallback \/ First \/ FirstAsync \/ Climb \/ Expire

AuxSpec == AuxInit /\ [][AuxNext]_auxVars

-----------------------------------------------------------------------------
\* Requests that only repeat the first one.
Retries == IF call.async THEN 1 ELSE Transients

\* Whichever errors follow which, a call costs at most so many requests: the
\* first with its retries, and one for every rung that can still follow.
RequestsBounded == tries <= Retries + 7

\* A compression of a provider that was named, and that serves it, waits for no
\* provider to time out a second time, on the ladder or in a fallback
\* (6227-6239). Only when its first request fails fast may each of the retries,
\* and nothing else, time out. A name for which another provider had to be found
\* (6149-6157) is no such name: see WaitsForNoneTwice.
CompressionWaits ==
    call.compression /\ resolved.kind = "named" /\ client # None /\ client.to = resolved.by =>
        \A b \in Endpoint : timeouts[b] <= 1 \/ (b = resolved.by /\ timeouts[b] <= Retries)

\* The ladder of recoveries ends, and no rung of it costs a compression one
\* more time-out.
LadderBounded == AuxTypeOK /\ RequestsBounded /\ CompressionWaits

\* After the credentials of a provider were renewed or rotated, no client of it
\* that was asked for by its name has the old ones, but for what a Nous refresh
\* stores under another model (3067).
FreshByName ==
    \A k \in Key, b \in Endpoint \ Nous :
        cache[k] # None /\ k.provider = b /\ cache[k].to = b => cache[k].by = credential[b]

\* "Skip the same-provider retry for compression on a full-budget timeout"
\* (6231): a retry that times out is no different.
CompressionWaitsOnce ==
    call.compression /\ resolved.kind = "named" => \A b \in Endpoint : timeouts[b] <= 1

\* "No point retrying the same backend that just failed" (3479-3480): what failed
\* is told by the name that was asked for, also where another provider serves it.
WaitsForNoneTwice ==
    call.compression /\ resolved.kind = "named" =>
        \A b \in Endpoint \ {resolved.by} : timeouts[b] <= 1

\* "Replace the cache entry" of the Nous client (5256): it is stored under the
\* name that was asked for, where the next call takes it for that provider.
StoredUnderItsName ==
    \A k \in Key : cache[k] # None /\ k.provider # "auto" => cache[k].to = k.provider

\* The docstring's promise for all (3067): the request after a recovery is made
\* with the credentials it brought.
RetriedWithFreshCredentials ==
    [][rung = "recovered" /\ tries' = tries + 1 =>
         \A b \in PoolProvider, k \in Key :
             k = CallKey /\ cache'[k].to = b => cache'[k].by = credential[b]]_auxVars

\* "Refresh Nous runtime creds, rebuild the client, and replace the cache
\* entry" (5256): the entry the call's client came from.
RefreshReplacesEntry ==
    [][\A b \in Nous : rung \in {"paid", "signed"} /\ credential'[b] # credential[b] =>
         cache'[CallKey] # client]_auxVars

\* "Drop it from the cache regardless of whether we found a fallback above"
\* (6599): a call whose client's connection failed leaves it to no other.
DeadClientDropped ==
    [][rung = "fallback" /\ err \in Connection /\ rung' = "idle" =>
         \A k \in Key : cache'[k] # client]_auxVars

\* "Mark THAT label unhealthy so subsequent aux calls skip it" (6543).
UnhealthyIsSkipped ==
    [][rung = "resolve" /\ rung' = "ask" /\ resolved.kind = "auto" => client'.to \notin unhealthy \ TaskChain]_auxVars
=============================================================================

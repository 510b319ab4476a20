--------------------------- MODULE ContextWindow ---------------------------
(***************************************************************************)
(* How large a model's context window is taken to be                       *)
(* (agent/model_metadata.py 476-570, 973-1057, 1429-2293): a ladder of     *)
(* sources, the first that knows an answer gives it, and some answers are  *)
(* kept on disk for the next lookup.  Windows are in thousands of tokens;  *)
(* 0 is a source that does not know.                                       *)
(*                                                                         *)
(* A question a:                                                           *)
(*   provider    the configured provider ("none" when none is)             *)
(*   at          the base URL: "none", "local" and "remote" a server       *)
(*               nobody knows, else the known host                         *)
(*   config      model.context_length;  listed  custom_providers' value    *)
(*   family      "kimi", "m3" and "grok" have guards against old entries   *)
(*   slot        for the virtual provider "moa", the question about its    *)
(*               aggregator, where the preset names one (<<>>: it does not)*)
(* Its surroundings w, those of the model that acts:                       *)
(*   disk        the persistent entry of this model at this URL            *)
(*   server      what answers at the URL (at the provider's own, if there  *)
(*               is none): its kind; the window it has in "models", what   *)
(*               the metadata is read from, and in "fields", what the      *)
(*               local prober reads; the window its weights allow and the  *)
(*               one it is run with                                        *)
(*   catalog     models.dev; router  OpenRouter's metadata                 *)
(*   codex       Codex's own /models or the list of its models             *)
(*   bedrock     the adapter's table, 0 where there is no adapter          *)
(*   table       the built-in default of this name                         *)
(* The in-process caches (30 s, 5 min, 1 h) are left out: a lookup here is *)
(* one they have expired for.  The list of models.dev, the Bedrock adapter *)
(* and MoA's presets are not part of the repository.                       *)
(***************************************************************************)
EXTENDS Naturals, Sequences, FiniteSetsExt

Minimum == 64     \* MINIMUM_CONTEXT_LENGTH
Fallback == 256   \* DEFAULT_FALLBACK_CONTEXT
Kimi32 == 32      \* what OpenRouter reports for Kimi

Local(at) == at = "local"

\* The provider a host stands for.
Inferred(at) ==
    CASE at \in {"none", "local", "remote", "bedrock"} -> "none"
      [] at = "chatgpt" -> "openai"
      [] OTHER -> at

Transient(a) == a.provider = "lmstudio"

-----------------------------------------------------------------------------
(* What the server says, to each of those who ask.  The metadata is looked *)
(* up in any field with one of a dozen names (369-382, 860-958), llama.cpp *)
(* is asked for its properties (924-947); the local prober reads three     *)
(* fields (1634, 1646), and of an Ollama it reads the settings before the  *)
(* weights, which /api/show reads the other way round.                     *)

KnownOr(window, other) == IF window # 0 THEN window ELSE other

Advertised(server) == server.models

Shown(server) ==
    IF server.kind = "ollama" THEN KnownOr(server.weights, server.running) ELSE 0

Probed(server) ==
    IF server.kind = "ollama" THEN KnownOr(server.running, KnownOr(server.weights, server.fields))
                              ELSE server.fields

-----------------------------------------------------------------------------
(* The entry on disk.                                                      *)

Found(window, disk) == [window |-> window, disk |-> disk]

\* Entries written before a model's real window was known.
Outgrown(a, disk) ==
    \/ a.provider = "openai-codex" /\ disk >= 400
    \/ a.family = "kimi" /\ disk <= 32
    \/ a.family = "m3" /\ disk <= 204
    \/ a.family = "grok" /\ disk <= 256

Kept(window, disk) == IF window >= Minimum THEN window ELSE disk

\* (as it was before the probe: whatever the disk says of a local server.)
TrustsTheDisk(disk, server) == Found(disk, disk)

Reconciled(disk, server) ==
    LET live == Probed(server)
    IN  IF live \in {0, disk} THEN Found(disk, disk) ELSE Found(live, Kept(live, 0))

Remembers(a, w) == a.at # "none" /\ ~Transient(a) /\ w.disk # 0
Trusted(a, w) == Remembers(a, w) /\ ~Outgrown(a, w.disk) /\ Inferred(a.at) # "nous"

\* What is left of the entry when the ladder is climbed.
Left(a, w) == IF Remembers(a, w) /\ Outgrown(a, w.disk) THEN 0 ELSE w.disk

-----------------------------------------------------------------------------
(* The ladder: a rung holds a window and what the disk holds after it.     *)

EffectiveProvider(a) ==
    IF a.provider \in {"none", "openrouter", "custom"} /\ Inferred(a.at) # "none" THEN Inferred(a.at) ELSE a.provider

Unknown(at) == at # "none" /\ Inferred(at) = "none"

\* OpenRouter reports Kimi at 32K; Nous looks its models up there, too.
Routed(a, w) == IF a.family = "kimi" /\ w.router = Kimi32 THEN 0 ELSE w.router
Catalogued(a, w) ==
    IF a.family = "m3" /\ w.catalog # 0 /\ w.catalog < w.table THEN w.table ELSE w.catalog

\* 2128-2273, for a known host or none at all.
ProviderRungs(a, w) ==
    LET p == EffectiveProvider(a)
        left == Left(a, w)
        live == Advertised(w.server)
        shown == Shown(w.server)
        saved(window) == IF a.at # "none" THEN window ELSE left
        Rung(asked, window, disk) == IF asked THEN Found(window, disk) ELSE Found(0, left)
    IN <<Rung(a.provider = "anthropic" \/ a.at = "anthropic", live, left),
         Rung(p = "copilot", live, left),
         Rung(p = "nous", IF a.at # "none" THEN live ELSE 0, saved(live)),
         Rung(p = "nous", Routed(a, w), left),
         Rung(p = "openai-codex", w.codex, saved(w.codex)),
         Rung(p = "gmi" /\ a.at # "none", live, left),
         Rung(a.at = "ollama-cloud", shown, IF Transient(a) THEN left ELSE shown),
         Rung(p = "openrouter", Routed(a, w), left),
         Rung(p # "none", Catalogued(a, w), left),
         Rung(p = "none", Routed(a, w), left)>>

\* 2056-2125: an unknown server has the last word on its models; Bedrock's
\* has none, if there is the adapter with its table.
Curated(a, w) == w.bedrock # 0 /\ (a.provider = "bedrock" \/ a.at = "bedrock")
EndpointRungs(a, w) ==
    LET left == Left(a, w)
        live == Advertised(w.server)
        shown == Shown(w.server)
        probed == Probed(w.server)
        Rung(asked, window, disk) == IF asked THEN Found(window, disk) ELSE Found(0, left)
    IN <<Rung(Curated(a, w), w.bedrock, left),
         Rung(a.provider = "novita" \/ a.at = "novita", live, IF a.at # "none" THEN live ELSE left),
         Rung(Unknown(a.at), live, left),
         Rung(Unknown(a.at), shown, IF Transient(a) THEN left ELSE shown),
         Rung(Local(a.at), probed, IF Transient(a) THEN left ELSE Kept(probed, left))>>

Known(rungs) == {i \in DOMAIN rungs : rungs[i].window # 0}

\* The first rung with an answer; a known host's are not asked of a server
\* nobody knows; at the end is a default.
Climb(a, w) ==
    LET endpoint == EndpointRungs(a, w)
        provider == ProviderRungs(a, w)
    IN  IF Known(endpoint) # {} THEN endpoint[Min(Known(endpoint))]
        ELSE IF ~Unknown(a.at) /\ Known(provider) # {} THEN provider[Min(Known(provider))]
        ELSE Found(KnownOr(w.table, Fallback), Left(a, w))

WindowOf(a, w) ==
    LET asked == KnownOr(a.config, a.listed)
    IN  IF asked # 0 THEN Found(asked, w.disk)
        ELSE IF ~Trusted(a, w) THEN Climb(a, w)
        ELSE IF Local(a.at) THEN Reconciled(w.disk, w.server)
        ELSE Found(w.disk, w.disk)

\* The virtual provider has the window of the model that acts for it, which is
\* looked up with nothing configured.
Acting(a) == IF a.config = 0 /\ a.provider = "moa" /\ a.slot # <<>> THEN a.slot[1] ELSE a

Lookup(a, w) == WindowOf(Acting(a), w)

-----------------------------------------------------------------------------
(* What an answer must be; a is the question of the model that acts.       *)

Again(a, w, found) == WindowOf(a, [w EXCEPT !.disk = found.disk])

\* The windows a reachable server has for this model.
Offered(server) == {Advertised(server), Shown(server), Probed(server)} \ {0}

Configured(a) == a.config # 0 \/ a.listed # 0

\* What the local prober says is believed over what the disk remembers of a
\* local server, any of its windows is where the disk has nothing to be trusted,
\* and the portal is believed over its own entry (2034-2045, 533-567).
LiveOverDisk(a, w, found) ==
    ~Configured(a) =>
        /\ Local(a.at) /\ Trusted(a, w) /\ Probed(w.server) # 0 => found.window = Probed(w.server)
        /\ Local(a.at) /\ ~Trusted(a, w) /\ ~Curated(a, w) /\ Offered(w.server) # {} =>
               found.window \in Offered(w.server)
        /\ a.at = "nous" /\ Advertised(w.server) # 0 /\ a.provider \in {"none", "nous", "custom"} =>
               found = Found(Advertised(w.server), Advertised(w.server))

\* Only what a server or a provider said is remembered, and a lookup that
\* disbelieved an entry does not leave it there (1985-2031).
RemembersTheSaid(a, w, found) ==
    /\ found.disk \in {0, w.disk, w.codex} \cup Offered(w.server)
    /\ ~Configured(a) /\ Remembers(a, w) /\ Outgrown(a, w.disk) /\ found.disk = w.disk =>
           w.disk \in {w.codex} \cup Offered(w.server)

\* Asked again, it says the same; except of a server with more than one
\* window, as an Ollama whose weights allow more than it is run with or a
\* llama.cpp whose fields and properties differ, and of a Bedrock that is said to
\* be local, whose window is only looked up where the disk has none.
TwoMinds(server) == \E n, m \in Offered(server) : n # m
SaysItAgain(a, w, found) ==
    ~TwoMinds(w.server) /\ ~(Curated(a, w) /\ Local(a.at)) => Again(a, w, found).window = found.window

\* "Return cached unless a live local probe reports a different limit"
\* (539): of that Ollama server the answers alternate for ever, when it is
\* run below the minimum.
AlwaysSaysItAgain(a, w, found) == Again(a, w, Again(a, w, found)).window = Again(a, w, found).window

\* "When the server is reachable, prefer its reported window over a stale disk
\* entry" (541-542): the one in a field the local prober does not read, a
\* context_window, a nested n_ctx or llama.cpp's properties, leaves the entry
\* as it is, and is not seen before the entry is gone.
ReportedOverDisk(a, w, found) ==
    ~Configured(a) /\ Local(a.at) /\ Trusted(a, w) /\ Offered(w.server) # {} => found.window \in Offered(w.server)

\* "they must not be normalized into the on-disk cache as if they were valid
\* operating limits" (526-527).
SmallStaysOffDisk(a, w, found) == Local(a.at) /\ found.disk # w.disk => found.disk = 0 \/ found.disk >= Minimum
=============================================================================

--------------------------- MODULE ToolCatalogue ---------------------------
(***************************************************************************)
(* The tools a model is told of: the registry with its generation          *)
(* (tools/registry.py 216-576), what a request for toolsets means          *)
(* (toolsets.py 619-930), and get_tool_definitions with its memo           *)
(* (model_tools.py 252-600), on top of the availability checks of          *)
(* CheckFnCache.  Mutations of the registry and each reading of it hold    *)
(* its lock; from one reading to the next, and in the memo, nothing does.  *)
(* All tools with a check share one, as a toolset's tools do.              *)
(*                                                                         *)
(* The names of several toolsets are read in one step here; the generation *)
(* only grows, so a change in between shows in the key all the same.       *)
(*                                                                         *)
(* Left out: disabled toolsets, plugins' permission to replace a tool, the *)
(* schemas that depend on the other tools offered, the collapsing of a     *)
(* long list into tool_search.                                             *)
(***************************************************************************)
EXTENDS CheckFnCache, FiniteSets, Sequences, SequencesExt

CONSTANTS
    Tool,           \* names
    Toolset,
    Static,         \* TOOLSETS: the tools written down for each toolset
    Discovered,     \* the toolsets of MCP servers
    Checked,        \* the tools with a check_fn
    Request,        \* bound: the sets of toolsets asked for
    Initial,        \* bound: what is registered at import
    MemoMax,        \* _TOOL_DEFS_CACHE_MAX, 8 in the code
    MaxGeneration   \* bound: mutations of the registry

ASSUME CatalogueAssumption ==
    /\ Static \in [Toolset -> SUBSET Tool]
    /\ Discovered \subseteq Toolset
    /\ Checked \subseteq Tool
    /\ Request \subseteq SUBSET Toolset
    /\ IsFiniteSet(Thread)
    /\ Initial \in [Tool -> [toolset : Toolset \cup {None}, since : Nat]]
    /\ MemoMax \in Nat \ {0}
    /\ MaxGeneration \in Nat

VARIABLES
    registry,    \* _tools: for each name its toolset and the generation that registered it
    generation,  \* _generation
    memo,        \* _tool_defs_cache, the oldest entry first
    job          \* of each thread: the catalogue it is putting together

catalogue == <<registry, generation, memo, job>>
allVars == <<vars, catalogue>>

Unregistered == [toolset |-> None, since |-> 0]

\* at: "out", "keyed", "resolved", "read", perhaps "evict", "store" and back out,
\* or "failed".
Idle == [at |-> "out", asked |-> {}, key |-> 0, names |-> {}, offers |-> {}, victim |-> <<>>]

CInit ==
    /\ Init
    /\ registry = Initial
    /\ generation = 0
    /\ memo = <<>>
    /\ job = [t \in Thread |-> Idle]

Registered(entries) == {n \in Tool : entries[n] # Unregistered}
Put(t, changed) == job' = [job EXCEPT ![t] = changed]

-----------------------------------------------------------------------------
(* The registry.                                                           *)

Mutates(entries) ==
    /\ generation < MaxGeneration
    /\ registry' = entries
    /\ generation' = generation + 1
    /\ UNCHANGED <<vars, memo, job>>

\* A tool is replaced by its own toolset, and one MCP server's by another's;
\* any other tool of that name stays.
Register(n, toolset) ==
    /\ \/ registry[n].toolset \in {None, toolset}
       \/ {registry[n].toolset, toolset} \subseteq Discovered
    /\ Mutates([registry EXCEPT ![n] = [toolset |-> toolset, since |-> generation + 1]])

\* (mutant) The counter is not bumped.
DeregisterQuietly(n) ==
    /\ registry[n] # Unregistered
    /\ registry' = [registry EXCEPT ![n] = Unregistered]
    /\ UNCHANGED <<vars, generation, memo, job>>

Deregister(n) ==
    /\ registry[n] # Unregistered
    /\ Mutates([registry EXCEPT ![n] = Unregistered])

-----------------------------------------------------------------------------
(* A request.                                                              *)

\* resolve_toolset: what is written down and what is registered there.
Resolved(toolset, entries) == Static[toolset] \cup {n \in Tool : entries[n].toolset = toolset}
Wanted(asked, entries) == UNION {Resolved(toolset, entries) : toolset \in asked}

IsOf(m, asked, key) == m.asked = asked /\ m.key = key
Memoized(asked, key) == \E i \in DOMAIN memo : IsOf(memo[i], asked, key)

\* The key is the generation of now; a hit (no step here) asks nobody about
\* the tools.
Ask(t) ==
    /\ job[t].at = "out" /\ pc[t] = "idle"
    /\ \E asked \in Request :
          /\ ~Memoized(asked, generation)
          /\ Put(t, [Idle EXCEPT !.at = "keyed", !.asked = asked, !.key = generation])
    /\ UNCHANGED <<vars, registry, generation, memo>>

\* _compute_tool_definitions: first the names, ...
Resolve(t) ==
    /\ job[t].at = "keyed"
    /\ Put(t, [job[t] EXCEPT !.at = "resolved", !.names = Wanted(job[t].asked, registry)])
    /\ UNCHANGED <<vars, registry, generation, memo>>

\* ... then their entries, ...
Offered(names, entries) == {[name |-> n, since |-> entries[n].since] : n \in names \cap Registered(entries)}

Read(t) ==
    /\ job[t].at = "resolved"
    /\ Put(t, [job[t] EXCEPT !.at = "read", !.names = {}, !.offers = Offered(job[t].names, registry)])
    /\ UNCHANGED <<vars, registry, generation, memo>>

\* ... then, of those with a check, whether they are available now.
Probes(t) == \E offer \in job[t].offers : offer.name \in Checked

BeginCheck(t) ==
    /\ job[t].at = "read" /\ pc[t] = "idle"
    /\ Probes(t)
    /\ Call(t)
    /\ UNCHANGED catalogue

Available(t) ==
    {offer \in job[t].offers : offer.name \in Checked => value[t]}

\* An entry that is there is replaced where it is.
Stored(asked, key, tools) ==
    IF Memoized(asked, key)
    THEN [i \in DOMAIN memo |->
             IF IsOf(memo[i], asked, key) THEN [memo[i] EXCEPT !.tools = tools] ELSE memo[i]]
    ELSE Append(memo, [asked |-> asked, key |-> key, tools |-> tools])

\* (mutant) Off by one.
FinishOneMore(t) ==
    /\ job[t].at = "read"
    /\ IF Probes(t) THEN pc[t] = "done" /\ Return(t) ELSE pc[t] = "idle" /\ UNCHANGED vars
    /\ Put(t, [job[t] EXCEPT !.at = IF Len(memo) <= MemoMax THEN "store" ELSE "evict",
                             !.offers = Available(t),
                             !.victim = IF Len(memo) <= MemoMax THEN <<>> ELSE <<Head(memo)>>])
    /\ UNCHANGED <<registry, generation, memo>>

\* The list is complete; a full memo must make room for it.
Finish(t) ==
    /\ job[t].at = "read"
    /\ IF Probes(t) THEN pc[t] = "done" /\ Return(t) ELSE pc[t] = "idle" /\ UNCHANGED vars
    /\ Put(t, [job[t] EXCEPT !.at = IF Len(memo) < MemoMax THEN "store" ELSE "evict",
                             !.offers = Available(t),
                             !.victim = IF Len(memo) < MemoMax THEN <<>> ELSE <<Head(memo)>>])
    /\ UNCHANGED <<registry, generation, memo>>

IsVictim(t, m) == IsOf(m, job[t].victim[1].asked, job[t].victim[1].key)

\* pop(next(iter(...))): another thread may have popped the same entry, and
\* the KeyError is the caller's.
Evict(t) ==
    /\ job[t].at = "evict"
    /\ \/ \E i \in DOMAIN memo :
             /\ IsVictim(t, memo[i])
             /\ memo' = RemoveAt(memo, i)
             /\ Put(t, [job[t] EXCEPT !.at = "store", !.victim = <<>>])
       \/ /\ \A i \in DOMAIN memo : ~IsVictim(t, memo[i])
          /\ Put(t, [Idle EXCEPT !.at = "failed"])
          /\ UNCHANGED memo
    /\ UNCHANGED <<vars, registry, generation>>

\* The list is kept under the key read at the start.
Store(t) ==
    /\ job[t].at = "store"
    /\ memo' = Stored(job[t].asked, job[t].key, job[t].offers)
    /\ Put(t, Idle)
    /\ UNCHANGED <<vars, registry, generation>>

Leave(t) ==
    /\ job[t].at = "failed"
    /\ Put(t, Idle)
    /\ UNCHANGED <<vars, registry, generation, memo>>

-----------------------------------------------------------------------------
CheckStep(t) == Step(t) /\ UNCHANGED catalogue
Build(t) == Resolve(t) \/ Read(t) \/ BeginCheck(t) \/ CheckStep(t) \/ Finish(t) \/ Evict(t) \/ Store(t)

CNext ==
    \/ \E t \in Thread : Ask(t) \/ Build(t) \/ Leave(t)
    \/ \E n \in Tool : Deregister(n) \/ \E toolset \in Toolset : Register(n, toolset)
    \/ (Invalidate \/ GoDown \/ ComeUp \/ Tick) /\ UNCHANGED catalogue

CSpec == CInit /\ [][CNext]_allVars

-----------------------------------------------------------------------------
\* A memo of the current generation tells of the registry as it is: every tool
\* asked for that has no check, in the version registered last, and no tool
\* that was replaced or is gone, whichever mutation fell between the reading
\* of the key, of the names and of the entries.
MemoOfItsGeneration ==
    \A i \in DOMAIN memo : memo[i].key = generation =>
        LET now == Offered(Wanted(memo[i].asked, registry), registry)
        IN  /\ memo[i].tools \subseteq now
            /\ {offer \in now : offer.name \notin Checked} \subseteq memo[i].tools

\* The memo is tested for room and filled in two steps with no lock: it may
\* hold more than its cap, one entry for each other thread, but never more,
\* however evictions, failed ones among them, and changes of the registry mix.
MemoBounded == Len(memo) < MemoMax + Cardinality(Thread)

-----------------------------------------------------------------------------
\* "The inner check_fn TTL cache in registry.py handles environment drift" (260-262):
\* a hit in the memo does not ask it.
OutageReachesCatalogue ==
    downSince # None /\ clock - downSince > Grace + Ttl =>
        \A i \in DOMAIN memo : memo[i].key = generation =>
            \A offer \in memo[i].tools : offer.name \notin Checked

\* "Hard cap on memoized get_tool_definitions() results" (265).
HardCap == Len(memo) <= MemoMax

\* Two threads that evict at once: one of them fails.
EvictionNeverFails == \A t \in Thread : job[t].at # "failed"
=============================================================================

---------------------------- MODULE CheckFnCache ----------------------------
(***************************************************************************)
(* tools/registry.py: _check_fn_cached, the cache of one availability      *)
(* check, and invalidate_check_fn_cache.  The probe of the outside world   *)
(* runs with no lock held, so several threads may probe side by side, the  *)
(* clock moves while they do, and the results come back in any order; a    *)
(* result is dated by the time its caller read before it took the lock.    *)
(* Checks do not share anything but the lock: one of them is enough.       *)
(***************************************************************************)
EXTENDS Integers

CONSTANTS
    Thread,    \* callers of _check_fn_cached
    Ttl,       \* _CHECK_FN_TTL_SECONDS
    Grace,     \* _CHECK_FN_FAILURE_GRACE_SECONDS
    MaxClock,  \* the clock stops here
    None

ASSUME TimesAssumption ==
    /\ Ttl \in Nat /\ Grace \in Nat /\ MaxClock \in Nat
    /\ 0 < Ttl /\ Ttl <= Grace
    /\ None \notin Int

VARIABLES
    clock,      \* time.monotonic()
    downSince,  \* since when what the check probes has been out of order
    cache,      \* _check_fn_cache[fn]
    lastGood,   \* _check_fn_last_good[fn]
    pc,         \* where each caller is
    began,      \* now, in the frame of each caller
    value       \* the result of its probe and, when it is done, its verdict

vars == <<clock, downSince, cache, lastGood, pc, began, value>>
world == <<clock, downSince>>
kept == <<cache, lastGood>>

Time == 0 .. MaxClock

TypeOK ==
    /\ clock \in Time
    /\ downSince \in Time \cup {None}
    /\ cache \in [at : Time, ok : BOOLEAN] \cup {None}
    /\ lastGood \in Time \cup {None}
    /\ pc \in [Thread -> {"idle", "look", "probe", "store", "done"}]
    /\ began \in [Thread -> Time]
    /\ value \in [Thread -> BOOLEAN]

Init ==
    /\ clock = 0
    /\ downSince \in {None, 0}
    /\ cache = None
    /\ lastGood = None
    /\ pc = [t \in Thread |-> "idle"]
    /\ began = [t \in Thread |-> 0]
    /\ value = [t \in Thread |-> FALSE]

-----------------------------------------------------------------------------
Goto(t, where) == pc' = [pc EXCEPT ![t] = where]
Verdict(t, ok) == Goto(t, "done") /\ value' = [value EXCEPT ![t] = ok]

\* A caller reads the time ...
Call(t) ==
    /\ pc[t] = "idle"
    /\ Goto(t, "look")
    /\ began' = [began EXCEPT ![t] = clock]
    /\ UNCHANGED <<world, kept, value>>

\* The difference is negative when another caller read a later time.
Fresh(t) == cache # None /\ began[t] - cache.at < Ttl

\* ... and looks, under the lock, for a verdict that is still fresh.
Hit(t) ==
    /\ pc[t] = "look"
    /\ Fresh(t)
    /\ Verdict(t, cache.ok)
    /\ UNCHANGED <<world, kept, began>>

Miss(t) ==
    /\ pc[t] = "look"
    /\ ~Fresh(t)
    /\ Goto(t, "probe")
    /\ UNCHANGED <<world, kept, began, value>>

\* fn() runs.  It cannot succeed while the thing is down, and it may fail
\* (or raise) although it is up.
Probe(t) ==
    /\ pc[t] = "probe"
    /\ \E ok \in BOOLEAN :
        /\ ok => downSince = None
        /\ value' = [value EXCEPT ![t] = ok]
    /\ Goto(t, "store")
    /\ UNCHANGED <<world, kept, began>>

\* Under the lock again: a success is recorded with the time of the call, ...
StoreSuccess(t) ==
    /\ pc[t] = "store"
    /\ value[t]
    /\ lastGood' = began[t]
    /\ cache' = [at |-> began[t], ok |-> TRUE]
    /\ Goto(t, "done")
    /\ UNCHANGED <<world, began, value>>

\* (mutant) The wrong one of the two constants.
WithinTtl(t) == lastGood # None /\ began[t] - lastGood < Ttl

WithinGrace(t) == lastGood # None /\ began[t] - lastGood < Grace

\* (mutant) Forgiving counts as a success.
ForgiveAndExtend(t) ==
    /\ pc[t] = "store"
    /\ ~value[t]
    /\ WithinGrace(t)
    /\ lastGood' = began[t]
    /\ Verdict(t, TRUE)
    /\ UNCHANGED <<world, cache, began>>

\* ... a failure soon after a success is taken for a flake and not recorded, ...
ForgiveFailure(t) ==
    /\ pc[t] = "store"
    /\ ~value[t]
    /\ WithinGrace(t)
    /\ Verdict(t, TRUE)
    /\ UNCHANGED <<world, kept, began>>

\* ... and any other failure is honoured.
StoreFailure(t) ==
    /\ pc[t] = "store"
    /\ ~value[t]
    /\ ~WithinGrace(t)
    /\ cache' = [at |-> began[t], ok |-> FALSE]
    /\ Goto(t, "done")
    /\ UNCHANGED <<world, lastGood, began, value>>

\* The caller has its verdict; the locals are gone.
Return(t) ==
    /\ pc[t] = "done"
    /\ Goto(t, "idle")
    /\ began' = [began EXCEPT ![t] = 0]
    /\ value' = [value EXCEPT ![t] = FALSE]
    /\ UNCHANGED <<world, kept>>

\* invalidate_check_fn_cache
Invalidate ==
    /\ cache' = None
    /\ lastGood' = None
    /\ UNCHANGED <<world, pc, began, value>>

\* The environment.
GoDown ==
    /\ downSince = None
    /\ downSince' = clock
    /\ UNCHANGED <<clock, kept, pc, began, value>>

ComeUp ==
    /\ downSince # None
    /\ downSince' = None
    /\ UNCHANGED <<clock, kept, pc, began, value>>

Tick ==
    /\ clock < MaxClock
    /\ clock' = clock + 1
    /\ UNCHANGED <<downSince, kept, pc, began, value>>

Step(t) ==
    \/ Hit(t) \/ Miss(t) \/ Probe(t)
    \/ StoreSuccess(t) \/ ForgiveFailure(t) \/ StoreFailure(t)

Next ==
    \/ \E t \in Thread : Call(t) \/ Step(t) \/ Return(t)
    \/ Invalidate
    \/ GoDown \/ ComeUp \/ Tick

Spec == Init /\ [][Next]_vars

-----------------------------------------------------------------------------
\* An outage is hidden for no longer than the grace period: a call that began
\* Grace or more after the thing went down, and it has been down ever since,
\* says so, whatever slow probes from before the outage came back in between
\* and however old verdicts, forgiven failures and invalidations mix.
OutageHonoured ==
    \A t \in Thread :
        pc[t] = "done" /\ value[t] /\ downSince # None => began[t] < downSince + Grace

\* No failure is pinned for the time to live while a success on record is
\* recent enough to forgive it, in whichever order the two were stored.
NoFailurePinnedInGrace ==
    cache # None /\ lastGood # None => cache.ok \/ cache.at - lastGood >= Grace

-----------------------------------------------------------------------------
\* The comment at _check_fn_last_good calls it the time of the most recent
\* success.
LastGoodIsMostRecent ==
    [][lastGood # None /\ lastGood' # None => lastGood' >= lastGood]_vars
=============================================================================

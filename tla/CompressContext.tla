--------------------------- MODULE CompressContext ---------------------------
(***************************************************************************)
(* agent/conversation_compression.py: compress_context, step by step, by   *)
(* agents that share a session: the lock of the session and its lease, the *)
(* summary (ContextCompressor.compress and _generate_summary), then the    *)
(* rotation into a child session or the rewrite in place, and the state    *)
(* the compressor keeps from one compaction to the next.                   *)
(*                                                                         *)
(* The session store, the gateway and the summarizer are external: each    *)
(* call may fail.  A compaction is short next to its summary request, so   *)
(* a crash is modelled only while that request is pending.                 *)
(***************************************************************************)
EXTENDS Compaction, FiniteSets

CONSTANTS
    Configs,      \* bound: settings of in_place, abort_on_summary_failure, summary model
    Agents,       \* agents that share the first session
    Weights,      \* bound: weights a tool result may have
    MaxAsks,      \* bound: asks of the user
    MaxRounds,    \* bound: tool rounds
    MaxCompactions, \* bound: compactions begun
    MaxSessions,  \* bound: sessions
    MaxMishaps,   \* bound: failures of the store, lapses, crashes, restarts
    NoOne, Dead   \* no holder of a lock, a holder that has crashed

ASSUME ContextAssumption ==
    /\ {MaxAsks, MaxRounds, MaxCompactions, MaxSessions, MaxMishaps} \subseteq Nat
    /\ Weights \subseteq Nat
    /\ Configs \subseteq [inPlace : BOOLEAN, abort : BOOLEAN, aux : BOOLEAN]
    /\ NoOne \notin Agents /\ Dead \notin Agents /\ NoOne # Dead

VARIABLES
    config,      \* in_place, abort_on_summary_failure, a separate summary model
    asked,       \* asks each agent has been given
    rounds,      \* tool rounds so far
    begun,       \* compactions begun so far
    mishaps,     \* mishaps so far
    transcript,  \* messages of each agent
    compressor,  \* agent.context_compressor
    pc,          \* where each agent's compaction is
    sid,         \* agent.session_id
    locked,      \* _lock_sid of an agent that holds the lock, or 0
    old,         \* old_session_id, or 0
    sessions,    \* rows of the store: the parent and whether the session is open
    lock,        \* who holds the compression lock of each session
    cooling,     \* sessions whose stored cooldown has not passed
    \* history for the properties
    alone,       \* agents whose lock was refused by no failure and lapsed for none
    owed,        \* who recorded the failure of a session that has not passed
    hasty        \* which failures, not yet passed, an unforced request ignored

counters == <<config, asked, rounds, begun, mishaps>>
local == <<transcript, compressor, pc, sid, locked, old>>
store == <<sessions, lock, cooling>>
history == <<alone, owed, hasty>>
vars == <<counters, local, store, history>>

Fresh == [count |-> 0, previous |-> Nothing, cooling |-> FALSE, ineffective |-> 0,
          auth |-> FALSE, network |-> FALSE, aux |-> FALSE, fellBack |-> FALSE, awaiting |-> FALSE]
Created(c) == [Fresh EXCEPT !.aux = c.aux]

Init ==
    /\ config \in Configs
    /\ \E t \in {<<>>, <<System>>} : transcript = [a \in Agents |-> t]
    /\ compressor = [a \in Agents |-> Created(config)]
    /\ \E first \in Agents : pc = [a \in Agents |-> IF a = first THEN "idle" ELSE "absent"]
    /\ sid = [a \in Agents |-> 1]
    /\ locked = [a \in Agents |-> 0]
    /\ old = [a \in Agents |-> 0]
    /\ sessions = <<[parent |-> 0, open |-> TRUE]>>
    /\ lock = <<NoOne>>
    /\ cooling = {}
    /\ asked = [a \in Agents |-> {}] /\ rounds = 0 /\ begun = 0 /\ mishaps = 0
    /\ alone = {} /\ owed = {} /\ hasty = {}

(* A session and those it continues. *)
Lineage[s \in Nat] == IF s = 0 THEN {} ELSE {s} \cup Lineage[sessions[s].parent]

(* The failures of other sessions. *)
Elsewhere(s) == {f \in owed : f[2] # s}

Mishap == mishaps < MaxMishaps /\ mishaps' = mishaps + 1

-----------------------------------------------------------------------------
(* The conversation between compactions *)

Converse(a, messages, answered) ==
    /\ transcript' = [transcript EXCEPT ![a] = @ \o messages]
    /\ compressor' = IF answered THEN [compressor EXCEPT ![a].awaiting = FALSE] ELSE compressor
    /\ UNCHANGED <<config, begun, mishaps, pc, sid, locked, old, store, history>>

LastRole(a) == IF transcript[a] = <<>> THEN "system" ELSE Last(transcript[a]).role

Ask(a) ==
    /\ pc[a] = "idle"
    /\ LastRole(a) \in {"assistant", "system"}
    /\ LET n == Cardinality(UNION {asked[b] : b \in Agents}) + 1
       IN  /\ n <= MaxAsks
           /\ asked' = [asked EXCEPT ![a] = @ \cup {n}]
           /\ Converse(a, <<UserAsks(n)>>, FALSE)
    /\ UNCHANGED rounds

UseTool(a) ==
    /\ pc[a] = "idle" /\ rounds < MaxRounds
    /\ LastRole(a) \in {"user", "tool"}
    /\ rounds' = rounds + 1
    /\ UNCHANGED asked
    /\ \E w \in Weights : Converse(a, <<Calls(rounds + 1), Result(rounds + 1, w)>>, TRUE)

Reply(a) ==
    /\ pc[a] = "idle"
    /\ LastRole(a) \in {"user", "tool"}
    /\ UNCHANGED <<asked, rounds>>
    /\ Converse(a, <<Answer>>, TRUE)

(* After a turn a fork of the agent starts in the same session, with a       *)
(* snapshot of its transcript.                                               *)
Fork(a, b) ==
    /\ pc[a] = "idle" /\ pc[b] = "absent"
    /\ LastRole(a) = "assistant"
    /\ pc' = [pc EXCEPT ![b] = "idle"]
    /\ transcript' = [transcript EXCEPT ![b] = transcript[a]]
    /\ asked' = [asked EXCEPT ![b] = asked[a]]
    /\ sid' = [sid EXCEPT ![b] = sid[a]]
    /\ UNCHANGED <<config, rounds, begun, mishaps, compressor, locked, old, store, history>>

-----------------------------------------------------------------------------
(* Why a compaction starts *)

(* get_active_compression_failure_cooldown reads the store if it is not cooling. *)
StillCooling(a) == compressor[a].cooling \/ sid[a] \in cooling

(* A preflight that finds a stored cooldown takes it over.  Another agent of *)
(* the session may have recorded it.                                         *)
AdoptCooldown(a) ==
    /\ pc[a] = "idle" /\ transcript[a] # <<>>
    /\ ~compressor[a].cooling /\ sid[a] \in cooling
    /\ compressor' = [compressor EXCEPT ![a].cooling = TRUE]
    /\ UNCHANGED <<counters, transcript, pc, sid, locked, old, store, history>>

ShouldCompress(a) == ~compressor[a].cooling /\ compressor[a].ineffective < 2

Due(a, why) ==
    CASE why = "preflight" -> ~compressor[a].awaiting /\ ~StillCooling(a) /\ ShouldCompress(a)
      [] why = "response"  -> ShouldCompress(a)
      [] OTHER             -> TRUE      \* "overflow", and "manual", which forces

Reasons == {"preflight", "response", "overflow", "manual"}

(* The lock is asked for; when the store cannot say, the agent goes on      *)
(* without it, and when another agent has it nothing happens at all.        *)
Begin(a) ==
    /\ pc[a] = "idle"
    /\ transcript[a] # <<>>
    /\ begun < MaxCompactions
    /\ begun' = begun + 1
    /\ \E why \in Reasons :
          /\ Due(a, why)
          /\ pc' = [pc EXCEPT ![a] = why]
    /\ \/ /\ lock[sid[a]] = NoOne
          /\ lock' = [lock EXCEPT ![sid[a]] = a]
          /\ locked' = [locked EXCEPT ![a] = sid[a]]
          /\ alone' = alone \cup {a}
          /\ UNCHANGED mishaps
       \/ /\ Mishap
          /\ alone' = alone \ {a}
          /\ UNCHANGED <<lock, locked>>
    /\ UNCHANGED <<config, asked, rounds, transcript, compressor, sid, old, sessions, cooling, owed, hasty>>

(* The lease of the lock runs out: its refresher has failed, or is dead. *)
Lapse(s) ==
    /\ lock[s] # NoOne
    /\ IF lock[s] = Dead THEN UNCHANGED mishaps ELSE Mishap
    /\ lock' = [lock EXCEPT ![s] = NoOne]
    /\ alone' = alone \ {lock[s]}
    /\ UNCHANGED <<config, asked, rounds, begun, local, sessions, cooling, owed, hasty>>

(* Mutant: the row goes whoever holds it. *)
ReleaseAny(a) ==
    /\ lock' = IF locked[a] # 0 THEN [lock EXCEPT ![locked[a]] = NoOne] ELSE lock
    /\ locked' = [locked EXCEPT ![a] = 0]
    /\ alone' = alone \ {a}
    /\ pc' = [pc EXCEPT ![a] = "idle"]


(* _release_lock: the row goes only if the agent still holds it. *)
Release(a) ==
    /\ lock' = IF locked[a] # 0 /\ lock[locked[a]] = a THEN [lock EXCEPT ![locked[a]] = NoOne] ELSE lock
    /\ locked' = [locked EXCEPT ![a] = 0]
    /\ alone' = alone \ {a}
    /\ pc' = [pc EXCEPT ![a] = "idle"]

-----------------------------------------------------------------------------
(* The summary *)

Failures == {"auth", "network", "none", "other"}
Outcomes == {"ok"} \cup Failures

(* One request for a summary.  A separate summary model that fails is given  *)
(* up for the main model, which is asked at once; without a provider nobody  *)
(* is asked twice.                                                           *)
RetriesOnMain(c, first) == c.aux /\ ~c.fellBack /\ first \in Failures \ {"none"}

(* What _generate_summary leaves in the compressor. *)
Summarized(c, first, second, covers) ==
    LET retried == RetriesOnMain(c, first)
        result == IF retried THEN second ELSE first
        auth == c.auth \/ first = "auth" \/ (retried /\ second = "auth")
    IN  IF result = "ok"
        THEN [c EXCEPT !.previous = covers, !.cooling = FALSE, !.auth = FALSE, !.network = FALSE,
                       !.aux = @ /\ ~retried, !.fellBack = FALSE]
        ELSE [c EXCEPT !.cooling = TRUE, !.auth = auth, !.network = @ \/ result = "network",
                       !.aux = @ /\ ~retried, !.fellBack = @ \/ retried]

(* Nobody is asked during the cooldown. *)
AfterSummary(c, covers) ==
    IF c.cooling
    THEN {c}
    ELSE {Summarized(c, p[1], p[2], covers) : p \in Outcomes \X Outcomes}

(* Less than a tenth of the tokens saved counts against the next compaction. *)
Judged(c, before, after) ==
    [c EXCEPT !.count = @ + 1,
              !.ineffective = IF (before - after) * 10 < before THEN @ + 1 ELSE 0]

Aborts(c) == c.cooling /\ (config.abort \/ c.auth \/ c.network)

Split(a) == pc' = [pc EXCEPT ![a] = IF config.inPlace THEN "archive" ELSE "end"]

(* Where the middle of the transcript is, and what it and the summary before *)
(* it say.                                                                   *)
Window(a, c) ==
    LET m == Prune(transcript[a])
        head == ProtectHead(m, c.count, c.previous)
        start == AlignForward(m, head)
        end == TailCut(m, start)
        known == Rehydrated(m, end, c.previous)
        turns == AsksOf(TurnsToSummarize(m, start, end))
    IN  IF Len(m) <= head + 4
        THEN [short |-> TRUE, empty |-> TRUE]
        ELSE [short |-> FALSE, empty |-> start >= end, messages |-> m, start |-> start, end |-> end, known |-> known, turns |-> turns]

(* Nothing to compress: the session is split all the same. *)
NoMiddle(a, c, w) ==
    /\ w.empty
    /\ compressor' = [compressor EXCEPT ![a] = IF w.short THEN c ELSE [c EXCEPT !.ineffective = @ + 1]]
    /\ transcript' = [transcript EXCEPT ![a] = EnsureUserTurn(@, IF w.short THEN @ ELSE w.messages)]
    /\ Split(a)
    /\ UNCHANGED <<lock, locked, alone>>

(* What the summarizer is told, the earlier summary included; the makeshift *)
(* summary quotes the middle alone.                                          *)
Told(w) == w.turns \cup (w.known \ Nothing)
Makeshift(w) == w.turns

(* The middle goes and one of the two summaries comes. *)
Compact(a, s, w) ==
    /\ \E after \in {Assemble(w.messages, w.start, w.end,
                              IF s.cooling THEN Makeshift(w) ELSE Told(w))} :
          /\ compressor' = [compressor EXCEPT ![a] = Judged(s, Tokens(w.messages), Tokens(after))]
          /\ transcript' = [transcript EXCEPT ![a] = EnsureUserTurn(w.messages, after)]
    /\ Split(a)
    /\ UNCHANGED <<lock, locked, alone>>

(* Failures of the agent's session and of those before it that it does not mind. *)
Ignored(a, due) ==
    {IF f[2] # sid[a] THEN "earlier" ELSE IF f[1] # a THEN "other" ELSE "own" :
        f \in {g \in due : g[2] \in Lineage[sid[a]]}}

(* ContextCompressor.compress; /compress clears the cooldown before it. *)
Summarize(a) ==
    /\ pc[a] \in Reasons
    /\ LET forced == pc[a] = "manual"
           c == IF forced THEN [compressor[a] EXCEPT !.cooling = FALSE] ELSE compressor[a]
           due == IF forced THEN Elsewhere(sid[a]) ELSE owed
           stored == IF forced THEN cooling \ {sid[a]} ELSE cooling
       IN  \E w \in {Window(a, c)} :
              \/ /\ NoMiddle(a, c, w)
                 /\ cooling' = stored /\ owed' = due
                 /\ UNCHANGED hasty
              \/ /\ ~w.empty
                 /\ \E s \in AfterSummary([c EXCEPT !.previous = w.known], Told(w)) :
                       /\ IF Aborts(s)
                          THEN /\ compressor' = [compressor EXCEPT ![a] = s]
                               /\ UNCHANGED transcript
                               /\ Release(a)
                          ELSE Compact(a, s, w)
                       /\ CASE c.cooling -> cooling' = stored /\ owed' = due
                            [] ~c.cooling /\ s.cooling ->
                                 /\ cooling' = stored \cup {sid[a]}
                                 /\ owed' = Elsewhere(sid[a]) \cup {<<a, sid[a]>>}
                            [] OTHER     -> cooling' = stored \ {sid[a]} /\ owed' = Elsewhere(sid[a])
                 /\ hasty' = IF c.cooling THEN hasty ELSE hasty \cup Ignored(a, due)
    /\ UNCHANGED <<counters, sid, old, sessions>>

(* The time of a recorded failure passes, in the store and with the agent    *)
(* that recorded it.                                                         *)
Expire(s) ==
    /\ s \in cooling
    /\ cooling' = cooling \ {s}
    /\ owed' = Elsewhere(s)
    /\ compressor' = [a \in Agents |-> IF sid[a] = s /\ <<a, s>> \in owed
                                       THEN [compressor[a] EXCEPT !.cooling = FALSE] ELSE compressor[a]]
    /\ UNCHANGED <<counters, transcript, pc, sid, locked, old, sessions, lock, alone, hasty>>

(* A cooldown passes that the store tells nothing of, or that of another agent. *)
CoolOff(a) ==
    /\ compressor[a].cooling /\ <<a, sid[a]>> \notin owed
    /\ compressor' = [compressor EXCEPT ![a].cooling = FALSE]
    /\ UNCHANGED <<counters, transcript, pc, sid, locked, old, store, history>>

-----------------------------------------------------------------------------
(* The boundary between the sessions *)

(* A rotation ends the session, unless the store fails on the way there. *)
EndSession(a) ==
    /\ pc[a] = "end"
    /\ \/ /\ Len(sessions) < MaxSessions
          /\ sessions' = [sessions EXCEPT ![sid[a]].open = FALSE]
          /\ pc' = [pc EXCEPT ![a] = "create"]
          /\ UNCHANGED mishaps
       \/ /\ Mishap
          /\ pc' = [pc EXCEPT ![a] = "boundary"]
          /\ UNCHANGED sessions
    /\ UNCHANGED <<config, asked, rounds, begun, transcript, compressor, sid, locked, old, lock, cooling, history>>

(* The child's row, or back to the parent, which may not open again. *)
CreateSession(a) ==
    /\ pc[a] = "create"
    /\ pc' = [pc EXCEPT ![a] = "boundary"]
    /\ \/ /\ sessions' = Append(sessions, [parent |-> sid[a], open |-> TRUE])
          /\ lock' = Append(lock, NoOne)
          /\ sid' = [sid EXCEPT ![a] = Len(sessions) + 1]
          /\ old' = [old EXCEPT ![a] = sid[a]]
          /\ UNCHANGED mishaps
       \/ /\ Mishap
          /\ \E open \in BOOLEAN : sessions' = [sessions EXCEPT ![sid[a]].open = open]
          /\ UNCHANGED <<lock, sid, old>>
    /\ UNCHANGED <<config, asked, rounds, begun, transcript, compressor, locked, cooling, history>>

(* archive_and_compact; when it fails the boundary is announced all the same. *)
Archive(a) ==
    /\ pc[a] = "archive"
    /\ pc' = [pc EXCEPT ![a] = "boundary"]
    /\ UNCHANGED <<counters, transcript, compressor, sid, locked, old, store, history>>

(* on_session_start binds the compressor to the session and reads its       *)
(* cooldown; then the tokens are reset and the lock of the old id goes.     *)
Boundary(a) ==
    /\ pc[a] = "boundary"
    /\ compressor' = [compressor EXCEPT
            ![a].cooling = IF config.inPlace \/ old[a] # 0 THEN sid[a] \in cooling ELSE @,
            ![a].awaiting = TRUE]
    /\ old' = [old EXCEPT ![a] = 0]
    /\ Release(a)
    /\ UNCHANGED <<counters, transcript, sid, sessions, cooling, owed, hasty>>

-----------------------------------------------------------------------------
(* Faults *)

(* Mutant: the stored cooldown is not read. *)
RestartedBlank(a) == compressor' = [compressor EXCEPT ![a] = Created(config)]


(* A new process takes up the session with its transcript. *)
Restarted(a) ==
    compressor' = [compressor EXCEPT ![a] = [Created(config) EXCEPT !.cooling = sid[a] \in cooling]]

Restart(a) ==
    /\ pc[a] = "idle" /\ compressor[a] # Created(config)
    /\ Mishap
    /\ Restarted(a)
    /\ UNCHANGED <<config, asked, rounds, begun, transcript, pc, sid, locked, old, store, history>>

Crash(a) ==
    /\ pc[a] \in Reasons
    /\ Mishap
    /\ Restarted(a)
    /\ lock' = IF locked[a] # 0 /\ lock[locked[a]] = a THEN [lock EXCEPT ![locked[a]] = Dead] ELSE lock
    /\ locked' = [locked EXCEPT ![a] = 0]
    /\ alone' = alone \ {a}
    /\ pc' = [pc EXCEPT ![a] = "idle"]
    /\ UNCHANGED <<config, asked, rounds, begun, transcript, sid, old, sessions, cooling, owed, hasty>>

AgentNext(a) ==
    \/ Ask(a) \/ UseTool(a) \/ Reply(a) \/ AdoptCooldown(a) \/ Begin(a) \/ Summarize(a) \/ CoolOff(a)
    \/ EndSession(a) \/ CreateSession(a) \/ Archive(a) \/ Boundary(a) \/ Restart(a) \/ Crash(a)

Next ==
    \/ \E a \in Agents : AgentNext(a)
    \/ \E a, b \in Agents : Fork(a, b)
    \/ \E s \in DOMAIN lock : Lapse(s) \/ Expire(s)

Spec == Init /\ [][Next]_vars

-----------------------------------------------------------------------------
(* Properties *)

TypeOK ==
    /\ config \in Configs
    /\ \A a \in Agents : /\ pc[a] \in Reasons \cup {"absent", "idle", "end", "create", "archive", "boundary"}
                         /\ sid[a] \in DOMAIN sessions
                         /\ locked[a] \in 0..Len(sessions)
                         /\ compressor[a].count \in Nat
    /\ Len(lock) = Len(sessions)
    /\ cooling \subseteq DOMAIN sessions

CallsAt(m, k) == {j \in 1..k - 1 : m[k].of \in m[j].calls}

(* What the provider accepts: every result behind its call, every call      *)
(* answered, and a user turn (_sanitize_tool_pairs,                         *)
(* _ensure_compressed_has_user_turn), however often it has been compacted.  *)
Sendable ==
    /\ TypeOK
    /\ \A a \in Agents :
          LET m == transcript[a]
          IN  /\ \A k \in DOMAIN m : m[k].role = "tool" => CallsAt(m, k) # {}
              /\ \A j \in DOMAIN m : \A c \in m[j].calls : \E k \in j + 1..Len(m) : m[k].of = c
              /\ asked[a] # {} => \E k \in DOMAIN m : m[k].role = "user"

Carried(m) == UNION {m[k].asks \cup m[k].covers : k \in DOMAIN m}

(* The last message with words of the user's own, whether or not a summary   *)
(* has been merged into it.                                                  *)
LastWords(m) ==
    HighestOr({k \in DOMAIN m : m[k].role = "user" /\ (m[k].summary => m[k].asks # {})}, 0)

InTheMiddle(w, k) == ~w.empty /\ k \in w.start + 1..w.end

(* The user's latest message, which is the task at hand, outlives a          *)
(* compaction: in the tail, or in the summary when the clamp behind the head *)
(* leaves no room for it (_ensure_last_user_message_in_tail).  Two things    *)
(* are excepted.  A message a summary has been merged into reads as a        *)
(* handoff, so that nothing keeps it out of the middle of the next           *)
(* compaction, and there its own words go (2084-2098, 2776-2779).  And with a *)
(* head of exactly one message the next compaction may lose the latest one.  *)
LatestAskKept ==
    [][\A a \in Agents :
        LET m == transcript[a]
            user == LastWords(m)
        IN  pc[a] \in Reasons /\ transcript'[a] # m /\ user > 0
                => \/ m[user].asks \subseteq Carried(transcript'[a])
                   \/ m[user].summary /\ InTheMiddle(Window(a, compressor[a]), user)]_vars

(* Violated: the most recent user message stays in the protected tail, or at *)
(* least in what the model is told (2452-2464), a summary merged into it or  *)
(* not.  A second compaction in the same turn drops it.                      *)
TaskStays ==
    [][\A a \in Agents :
        LET m == transcript[a]
            user == LastWords(m)
        IN  pc[a] \in Reasons /\ transcript'[a] # m /\ user > 0
                => m[user].asks \subseteq Carried(transcript'[a])]_vars

(* Two agents never compact one session at a time, unless the store has     *)
(* failed or a lease lapsed.                                                *)
OneCompactorPerSession ==
    \A a, b \in alone : locked[a] = locked[b] => a = b

(* Violated: one rotation, one child (495-507, 966-970).  An agent that      *)
(* still has the old id takes the free lock and splits the session again.    *)
OneChild ==
    \A s, t \in DOMAIN sessions : sessions[s].parent = sessions[t].parent => s = t

(* No agent asks for a summary while a failure it has recorded for its       *)
(* session has not passed, also after a restart; only /compress may.         *)
CooldownRespected == "own" \notin hasty

(* Violated: a failure holds for all the agents of a session (735, 1146).    *)
(* Only the preflight reads the store.                                       *)
CooldownShared == "other" \notin hasty

(* Violated: an earlier session's failure counts as well (1147-1152).        *)
CooldownOutlivesRotation == "earlier" \notin hasty

(* Violated: the early turns are in the summary once the head is not        *)
(* protected any more (2264-2266).                                          *)
EarlyTurnsCaptured ==
    \A a \in Agents : config.abort => asked[a] \subseteq Carried(transcript[a])
=============================================================================

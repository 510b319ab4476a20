----------------------------- MODULE Compaction -----------------------------
(***************************************************************************)
(* agent/context_compressor.py: what compress() makes of a transcript.     *)
(* Which messages are the head, the middle and the tail, what goes to the  *)
(* summarizer, where the summary lands and which tool calls survive.       *)
(*                                                                         *)
(* A message is its role, whether it has text, the tool calls it makes or  *)
(* the one it answers, its weight in tokens, whether it reads as a handoff *)
(* summary, the user's asks it quotes and the asks that summary covers.    *)
(* A boundary is the number of messages before it, as the code counts.     *)
(* Images, arguments of calls and duplicate results are left out.          *)
(***************************************************************************)
EXTENDS Integers, FiniteSets, Sequences, SequencesExt, FiniteSetsExt

CONSTANTS
    ProtectFirst,  \* protect_first_n
    ProtectLast,   \* protect_last_n, capped by _MAX_TAIL_MESSAGE_FLOOR
    TailBudget,    \* tail_token_budget
    SummaryWeight  \* tokens of a summary

ASSUME CompactionAssumption ==
    {ProtectFirst, ProtectLast, TailBudget, SummaryWeight} \subseteq Nat

Small == 1
Blank == [role |-> "user", text |-> TRUE, calls |-> {}, of |-> 0, weight |-> Small,
          summary |-> FALSE, asks |-> {}, covers |-> {}]
System == [Blank EXCEPT !.role = "system"]
UserAsks(n) == [Blank EXCEPT !.asks = {n}]
Calls(c) == [Blank EXCEPT !.role = "assistant", !.text = FALSE, !.calls = {c}]
Result(c, w) == [Blank EXCEPT !.role = "tool", !.of = c, !.weight = w]
Answer == [Blank EXCEPT !.role = "assistant"]

(* previous: what _previous_summary covers, or Nothing. *)
Nothing == {0}

(* Tokens behind a boundary. *)
TokensAfter(m, b) ==
    LET sum[k \in 0..Len(m)] == IF k = Len(m) THEN 0 ELSE m[k + 1].weight + sum[k + 1] IN sum[b]
Tokens(m) == TokensAfter(m, 0)

LowestOr(S, default) == IF S = {} THEN default ELSE Min(S)
HighestOr(S, default) == IF S = {} THEN default ELSE Max(S)

(* The messages at some positions, in their order. *)
Position(S, i) == CHOOSE k \in S : Cardinality({j \in S : j < k}) = i - 1
MessagesAt(m, S) == [i \in 1..Cardinality(S) |-> m[Position(S, i)]]

-----------------------------------------------------------------------------
(* Boundaries *)

ProtectHead(m, count, previous) ==
    (IF m # <<>> /\ m[1].role = "system" THEN 1 ELSE 0)
      + (IF count >= 1 \/ previous # Nothing THEN 0 ELSE ProtectFirst)

AlignForward(m, b) ==
    LowestOr({k \in b..Len(m) - 1 : m[k + 1].role # "tool"}, Len(m))

AlignBackward(m, b) ==
    LET parent == HighestOr({k \in 1..b : m[k].role # "tool"}, 0)
    IN  IF b \in 1..Len(m) - 1 /\ parent > 0 /\ m[parent].role = "assistant" /\ m[parent].calls # {}
        THEN parent - 1
        ELSE b

(* The backward walk: the boundary behind the newest message that no longer *)
(* fits, once the floor of recent messages is kept.                         *)
Overflows(m, head, floor, budget) ==
    {k \in head..Len(m) - 1 : TokensAfter(m, k) > budget /\ Len(m) - k >= floor}

Floor(m, head) ==
    LET room == Max({0, Len(m) - head - 1})
    IN  IF room > 1
        THEN Min({Max({3, ProtectLast}), Max({3, room - 2}), room})
        ELSE 0

BudgetCut(m, head) ==
    LET floor == Floor(m, head)
        ceiling == (TailBudget * 3) \div 2
        walk == HighestOr({k + 1 : k \in Overflows(m, head, floor, ceiling)}, head)
        cut == IF walk <= head /\ TokensAfter(m, head) \in 1..ceiling
               THEN HighestOr(Overflows(m, head, floor, TailBudget), head)
               ELSE walk
        kept == Min({cut, Len(m) - floor})
    IN  AlignBackward(m, IF kept <= head THEN Max({Len(m) - floor, head + 1}) ELSE kept)

LastUser(m, head) == HighestOr({k \in head + 1..Len(m) : m[k].role = "user" /\ ~m[k].summary}, 0) - 1

PairEnd(m, user) ==
    IF user + 1 < Len(m) /\ m[user + 2].role = "assistant"
    THEN AlignForward(m, user + 2)
    ELSE user + 1

(* Mutant: the budget alone decides what the tail is. *)
KeepBudget(m, cut, head) == cut


KeepLastUser(m, cut, head) ==
    LET user == LastUser(m, head)
    IN  IF user < 0 \/ user >= cut THEN cut
        ELSE IF head + 1 <= user THEN user
        ELSE Max({PairEnd(m, user), head + 1})

LastAssistant(m, head) ==
    LET replies == {k \in head + 1..Len(m) : m[k].role = "assistant"}
        said == {k \in replies : m[k].text}
    IN  HighestOr(IF said # {} THEN said ELSE replies, 0) - 1

KeepLastAssistant(m, cut, head) ==
    LET last == LastAssistant(m, head)
    IN  IF last < 0 \/ last >= cut THEN cut ELSE Max({AlignBackward(m, last), head + 1})

TailCut(m, head) ==
    Max({KeepLastAssistant(m, KeepLastUser(m, BudgetCut(m, head), head), head), head + 1})

-----------------------------------------------------------------------------
(* Contents *)

(* Old results shrink to a line outside the protected tail. *)
Prune(m) ==
    LET floor == Min({ProtectLast, Len(m)})
        walk == HighestOr(Overflows(m, 0, floor, TailBudget), 0)
        boundary == Len(m) - Max({Len(m) - walk, floor})
        Shrunk(k) == IF k <= boundary /\ m[k].role = "tool"
                     THEN [m[k] EXCEPT !.weight = Small]
                     ELSE m[k]
    IN  IF TailBudget > 0 THEN [k \in DOMAIN m |-> Shrunk(k)] ELSE m

(* The newest handoff summary before the end of the middle. *)
LatestSummary(m, end) ==
    LET from == IF m # <<>> /\ m[1].role = "system" THEN 2 ELSE 1
    IN  HighestOr({k \in from..end : m[k].summary}, 0)

(* _previous_summary once the transcript has been looked at. *)
Rehydrated(m, end, previous) ==
    LET at == LatestSummary(m, end)
    IN  CASE at = 0              -> Nothing
          [] at # 0 /\ previous = Nothing -> m[at].covers
          [] OTHER               -> previous

TurnsToSummarize(m, start, end) ==
    SubSeq(m, Max({start, LatestSummary(m, end)}) + 1, end)

AsksOf(m) == UNION {m[k].asks : k \in DOMAIN m}

(* Mutant: only the calls are looked at. *)
SanitizeCalls(m) ==
    LET answered == {m[k].of : k \in {j \in DOMAIN m : m[j].role = "tool"}}
    IN  [k \in DOMAIN m |-> [m[k] EXCEPT !.calls = @ \cap answered]]

(* Drop results without a call, then calls without a result. *)
SanitizePairs(m) ==
    LET called == UNION {m[k].calls : k \in DOMAIN m}
        kept == MessagesAt(m, {k \in DOMAIN m : m[k].role = "tool" => m[k].of \in called})
        answered == {kept[k].of : k \in {j \in DOMAIN kept : kept[j].role = "tool"}}
        Stripped(x) == IF x.calls \subseteq answered THEN x
                       ELSE [x EXCEPT !.calls = @ \cap answered,
                                      !.text = @ \/ x.calls \cap answered = {}]
    IN  [k \in DOMAIN kept |-> Stripped(kept[k])]

(* The role of the summary between the head and the tail, or "merge" when it *)
(* has to go into the first message of the tail.                             *)
SummaryRole(m, start, end) ==
    LET before == IF start > 0 THEN m[start].role ELSE "user"
        after == IF end < Len(m) THEN m[end + 1].role ELSE "user"
        survives == \E k \in (1..start) \cup (end + 1..Len(m)) : m[k].role = "user"
        forced == before = "system" \/ ~survives
        role == IF before \in {"assistant", "tool"} \/ forced THEN "user" ELSE "assistant"
        flipped == IF role = "user" THEN "assistant" ELSE "user"
    IN  IF role # after THEN role
        ELSE IF flipped # before /\ ~forced THEN flipped
        ELSE "merge"

Assemble(m, start, end, covers) ==
    LET role == SummaryRole(m, start, end)
        handoff == [Blank EXCEPT !.role = role, !.summary = TRUE, !.covers = covers,
                                 !.weight = SummaryWeight]
        head == SubSeq(m, 1, start)
        tail == SubSeq(m, end + 1, Len(m))
        first == [tail[1] EXCEPT !.summary = TRUE, !.text = TRUE,
                                 !.asks = @ \cup tail[1].covers, !.covers = covers,
                                 !.weight = @ + SummaryWeight]
        merged == [tail EXCEPT ![1] = first]
    IN  SanitizePairs(head \o (IF role = "merge" /\ tail # <<>> THEN merged
                               ELSE IF role = "merge" THEN <<>>
                               ELSE <<handoff>> \o tail))

(* conversation_compression.py: the last user turn, if none has survived. *)
EnsureUserTurn(original, m) ==
    LET asked == {k \in DOMAIN original : original[k].role = "user"}
        last == IF asked = {} THEN Blank ELSE original[Max(asked)]
    IN  IF \E k \in DOMAIN m : m[k].role = "user" THEN m ELSE Append(m, last)
=============================================================================

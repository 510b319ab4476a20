------------------------- MODULE CompactionTrigger -------------------------
(***************************************************************************)
(* When the conversation is compacted: the threshold and the usage the     *)
(* compressor keeps (agent/context_compressor.py 832-1173), the check of   *)
(* the summarizing model (agent/conversation_compression.py 154-347), and  *)
(* the three places that ask (turn_context.py 354-410,                     *)
(* conversation_loop.py 995-1009 and 4729-4751).  What a compaction does   *)
(* is CompressContext's.                                                   *)
(*                                                                         *)
(* A meter m is the compressor's numbers, in thousands of tokens:          *)
(*   window     context_length;   share  threshold_percent, a fraction     *)
(*   reserved   max_tokens;       threshold  threshold_tokens              *)
(*   last       last_prompt_tokens, Parked after a compaction              *)
(*   real       last_real_prompt_tokens                                    *)
(*   shrunk     last_compression_rough_tokens                              *)
(*   fits       last_rough_tokens_when_real_prompt_fit                     *)
(*   awaiting   awaiting_real_usage_after_compression                      *)
(* and of the run so far:                                                  *)
(*   summarizer the window of the checked summarizing model, 0 unchecked   *)
(*   checkedAt  the main model's window at that check                      *)
(*   verdict    what the last one who asked was told                       *)
(***************************************************************************)
EXTENDS Naturals, Integers

Floor64 == 64          \* MINIMUM_CONTEXT_LENGTH
Parked == -1
Lesser(a, b) == IF a < b THEN a ELSE b
Larger(a, b) == IF a > b THEN a ELSE b

Usable(window, reserved) == IF reserved < window THEN window - reserved ELSE window

Threshold(window, share, reserved) ==
    LET usable == Usable(window, reserved)
        floored == Larger((usable * share.num) \div share.den, Floor64)
    IN  IF floored < usable THEN floored
        ELSE Larger(1, Lesser((usable * 85) \div 100, usable - 1))

NewMeter(window, share, reserved) ==
    [window |-> window, share |-> share, reserved |-> reserved,
     threshold |-> Threshold(window, share, reserved),
     last |-> 0, real |-> 0, shrunk |-> 0, fits |-> 0, awaiting |-> FALSE,
     summarizer |-> 0, checkedAt |-> 0, verdict |-> "none"]

-----------------------------------------------------------------------------
(* What changes the meter.                                                 *)

OnSessionReset(m) == [m EXCEPT !.last = 0, !.real = 0, !.shrunk = 0, !.fits = 0,
                               !.awaiting = FALSE, !.verdict = "none"]

\* Another model, or another window of this one: a fallback, a tier, a limit
\* the provider named.
UpdateModel(m, window) ==
    [OnSessionReset(m) EXCEPT !.window = window, !.threshold = Threshold(window, m.share, m.reserved)]

\* Before the first compaction; a smaller window than the minimum is refused.
CheckSummarizer(m, summarizer) ==
    LET lowered == summarizer < m.threshold
    IN  [m EXCEPT !.summarizer = summarizer, !.checkedAt = m.window, !.verdict = "none",
                  !.threshold = IF lowered THEN summarizer ELSE @,
                  !.share = IF lowered THEN [num |-> summarizer, den |-> m.window] ELSE @]

UpdateFromResponse(m, prompt) ==
    [m EXCEPT !.last = prompt, !.real = IF prompt > 0 THEN prompt ELSE @, !.awaiting = FALSE,
              !.fits = CASE prompt >= m.threshold -> 0
                         [] prompt \in 1 .. m.threshold - 1 /\ m.awaiting /\ m.shrunk > 0 -> m.shrunk
                         [] OTHER -> @,
              !.verdict = "none"]

\* (without the sentinel the end of the round takes an estimate.)
CompactedUnparked(m, shrunk) ==
    [m EXCEPT !.shrunk = shrunk, !.last = 0, !.awaiting = TRUE, !.verdict = "none"]


Compacted(m, shrunk) ==
    [m EXCEPT !.shrunk = shrunk, !.last = Parked, !.awaiting = TRUE, !.verdict = "none"]

-----------------------------------------------------------------------------
(* Who asks: the start of a turn and of a round with an estimate, the end  *)
(* of a round with the usage when there is one.                            *)

Baseline(m) == IF m.fits # 0 THEN m.fits ELSE m.shrunk
Tolerated(m) == Larger(4, (m.threshold * 5) \div 100)

Defers(m, rough) ==
    /\ rough >= m.threshold
    /\ \/ m.awaiting
       \/ /\ m.real \in 1 .. m.threshold - 1
          /\ Baseline(m) > 0
          /\ rough <= Baseline(m) + Tolerated(m)

Deferring(m, rough) ==
    IF Defers(m, rough) /\ ~m.awaiting THEN [m EXCEPT !.fits = Larger(Baseline(m), rough)] ELSE m

Judge(m, tokens) == [m EXCEPT !.verdict = IF tokens >= m.threshold THEN "compact" ELSE "none"]

BeforeRound(m, rough) ==
    IF Defers(m, rough) THEN [Deferring(m, rough) EXCEPT !.verdict = "deferred"] ELSE Judge(m, rough)

\* The start of the turn also shows the estimate, and the end of a round
\* takes what is shown for the usage.
BeforeTurn(m, rough) ==
    LET asked == BeforeRound(m, rough)
    IN  IF asked.verdict # "deferred" /\ m.last >= 0 /\ rough > m.last THEN [asked EXCEPT !.last = rough] ELSE asked

AfterRound(m, rough) ==
    CASE m.last > 0 -> Judge(m, m.last)
      [] m.last = Parked -> Judge(m, 0)
      [] OTHER -> Judge(m, rough)

\* A compaction follows a verdict for one; one that an overflow or the user
\* asks for follows anything.
Moves(m, windows, summarizers, sizes) ==
    {UpdateModel(m, window) : window \in windows}
    \cup {UpdateFromResponse(m, n) : n \in {0} \cup sizes}
    \cup {BeforeRound(m, n) : n \in sizes} \cup {BeforeTurn(m, n) : n \in sizes}
    \cup {AfterRound(m, n) : n \in sizes}
    \cup {Compacted(m, n) : n \in sizes}
    \cup (IF m.summarizer = 0 THEN {CheckSummarizer(m, s) : s \in summarizers} ELSE {})
    \cup {OnSessionReset(m)}

-----------------------------------------------------------------------------
\* A compaction comes before the provider refuses the request: the threshold
\* lies inside what the window leaves for the input (911-951).
ThresholdReachable(m) == m.threshold > 0 /\ m.threshold < Usable(m.window, m.reserved)

\* What a compaction hands the summarizing model fits it, also after the main
\* model's window was corrected downwards (conversation_compression.py 267-287);
\* but for a window no larger than the reserve, which then is not subtracted any
\* more (context_compressor.py 939-941).
SummaryFits(m) ==
    m.summarizer # 0 /\ m.window <= m.checkedAt /\ m.reserved < m.window => m.threshold <= m.summarizer

\* One compaction does not start the next: neither the estimate of the
\* shorter conversation nor the usage of the longer one does, until the
\* provider has answered (1107-1118, conversation_loop.py 4737-4741).
OneCompactionAtATime(m) == m.awaiting => m.verdict # "compact"

\* "re-derive from a sensible number rather than the original too-high value"
\* (conversation_compression.py 280-282): a larger fallback's threshold may
\* exceed the summarizing model's window again.
SummaryAlwaysFits(m) == m.summarizer # 0 => m.threshold <= m.summarizer
=============================================================================

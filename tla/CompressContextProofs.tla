----------------------- MODULE CompressContextProofs -----------------------
(***************************************************************************)
(* Proofs about CompressContext, for any agents, transcripts and bounds:   *)
(* its types, the lock of a session, the cooldown of an agent, and the     *)
(* pairs of calls and results in every transcript.  The lock and the       *)
(* cooldown do not depend on what is cut: Compaction's operators are       *)
(* expanded for the transcripts alone.                                     *)
(*                                                                         *)
(* The second half is about Decisions, a machine of its own about whose    *)
(* variables the rest says nothing: when a compaction is due, why a        *)
(* request failed, how large a window is, and which client a side task     *)
(* gets.  The last three are answered in one step; their invariants say    *)
(* that the answer is the operator's, and the lemmas what the operator     *)
(* does: which rule of a list speaks first, which rung of a ladder knows,  *)
(* and what every branch that builds a client makes of the key it was      *)
(* given.                                                                  *)
(***************************************************************************)
EXTENDS CompressContext, Decisions, SequenceTheorems, FiniteSetTheorems, FunctionTheorems,
        NaturalsInduction, WellFoundedInduction, TLAPS

Pcs == Reasons \cup {"absent", "idle", "end", "create", "archive", "boundary"}

(* The session an agent compacts: the one it had when it asked for the lock. *)
Compacts(a) == pc[a] \notin {"absent", "idle"}
Origin(a) == IF old[a] # 0 THEN old[a] ELSE sid[a]

(* As long as nothing fails, two agents never compact one session at a time, *)
(* be it rotated already or not (conversation_compression.py, 495-604).      *)
SoundStoreSerializes ==
    mishaps = 0 =>
        \A a, b \in Agents : Compacts(a) /\ Compacts(b) /\ Origin(a) = Origin(b) => a = b

-----------------------------------------------------------------------------
(* The inductive invariant *)

Shapes ==
    /\ config \in Configs
    /\ pc \in [Agents -> Pcs]
    /\ sessions \in Seq([parent : Nat, open : BOOLEAN])
    /\ lock \in Seq(Agents \cup {NoOne, Dead})
    /\ Len(lock) = Len(sessions)
    /\ sid \in [Agents -> 1..Len(sessions)]
    /\ locked \in [Agents -> 0..Len(sessions)]
    /\ old \in [Agents -> 0..Len(sessions)]
    /\ mishaps \in Nat
    /\ cooling \subseteq 1..Len(sessions)
    /\ owed \subseteq Agents \X (1..Len(sessions))
    /\ alone \subseteq Agents

(* The compressors; what the summary before this one covers may be anything. *)
Fields == {"count", "previous", "cooling", "ineffective", "auth", "network", "aux",
           "fellBack", "awaiting"}
Compressors ==
    /\ DOMAIN compressor = Agents
    /\ \A a \in Agents : /\ DOMAIN compressor[a] = Fields
                         /\ compressor[a].count \in Nat
                         /\ compressor[a].cooling \in BOOLEAN

(* Whoever holds a lock that neither lapsed nor was refused has the row. *)
RowsAreHeld ==
    \A a \in alone : locked[a] \in 1..Len(lock) /\ lock[locked[a]] = a

(* An agent compacts the session it has locked, which it leaves only in a   *)
(* rotation; nobody else does it without a mishap.                          *)
LocksAreOfOrigins ==
    /\ \A a \in Agents : pc[a] # "boundary" => old[a] = 0
    /\ \A a \in alone : Compacts(a) /\ locked[a] = Origin(a)
    /\ mishaps = 0 => \A a \in Agents : Compacts(a) => a \in alone
    /\ mishaps = 0 => \A s \in 1..Len(lock) : lock[s] # Dead

(* The store tells of the failures that have not passed. *)
RowsTell == cooling = {f[2] : f \in owed}

(* An agent cools down as long as the failure it has recorded for its        *)
(* session, and one that has not started has recorded none.                  *)
RecordersCool ==
    /\ \A a \in Agents : <<a, sid[a]>> \in owed => compressor[a].cooling
    /\ \A f \in owed : pc[f[1]] # "absent"

CInv ==
    /\ Shapes /\ Compressors
    /\ RowsAreHeld /\ LocksAreOfOrigins
    /\ RowsTell /\ RecordersCool /\ CooldownRespected

-----------------------------------------------------------------------------
(* Lemmas *)

(* What an update of one compressor leaves of the others and of its fields. *)
LEMMA CompressorUpdate ==
    ASSUME NEW a \in Agents, NEW c, Compressors,
           DOMAIN c = Fields, c.count \in Nat, c.cooling \in BOOLEAN,
           compressor' = [compressor EXCEPT ![a] = c]
    PROVE  /\ Compressors'
           /\ compressor'[a] = c
           /\ \A b \in Agents \ {a} : compressor'[b] = compressor[b]
BY DEF Compressors

(* The compressor of a new agent. *)
LEMMA CreatedShape ==
    ASSUME NEW c
    PROVE  /\ DOMAIN Created(c) = Fields
           /\ Created(c).count = 0 /\ Created(c).cooling = FALSE
BY DEF Created, Fresh, Fields

(* The lock of one session changes hands. *)
LEMMA LockUpdate ==
    ASSUME Shapes, NEW s \in 1..Len(lock), NEW h \in Agents \cup {NoOne, Dead},
           lock' = [lock EXCEPT ![s] = h]
    PROVE  /\ lock' \in Seq(Agents \cup {NoOne, Dead})
           /\ Len(lock') = Len(lock)
           /\ \A t \in 1..Len(lock) : lock'[t] = IF t = s THEN h ELSE lock[t]
BY ExceptSeq DEF Shapes

(* The row goes with the release of a lock only if the agent has it. *)
LEMMA ReleaseKeepsLocks ==
    ASSUME ContextAssumption, Shapes, RowsAreHeld, LocksAreOfOrigins,
           NEW a \in Agents, Release(a), UNCHANGED <<sid, sessions, mishaps>>,
           old' = [old EXCEPT ![a] = 0]
    PROVE  /\ pc' \in [Agents -> Pcs]
           /\ lock' \in Seq(Agents \cup {NoOne, Dead}) /\ Len(lock') = Len(lock)
           /\ locked' \in [Agents -> 0..Len(sessions)]
           /\ old' \in [Agents -> 0..Len(sessions)]
           /\ alone' \subseteq Agents
           /\ RowsAreHeld' /\ LocksAreOfOrigins'
<1>1. /\ pc' \in [Agents -> Pcs] /\ locked' \in [Agents -> 0..Len(sessions)]
      /\ old' \in [Agents -> 0..Len(sessions)] /\ alone' \subseteq Agents
      BY DEF Release, Shapes, Pcs
<1>2. lock' \in Seq(Agents \cup {NoOne, Dead}) /\ Len(lock') = Len(lock)
  <2>1. CASE locked[a] # 0 /\ lock[locked[a]] = a
    <3>1. locked[a] \in 1..Len(lock) BY <2>1 DEF Shapes
    <3>2. lock' = [lock EXCEPT ![locked[a]] = NoOne] BY <2>1 DEF Release
    <3> QED BY <3>1, <3>2, LockUpdate
  <2>2. CASE ~(locked[a] # 0 /\ lock[locked[a]] = a)
    BY <2>2 DEF Release, Shapes
  <2> QED BY <2>1, <2>2
<1>3. RowsAreHeld'
  <2> SUFFICES ASSUME NEW b \in alone'
               PROVE  locked'[b] \in 1..Len(lock') /\ lock'[locked'[b]] = b
      BY DEF RowsAreHeld
  <2>1. b \in alone /\ b # a /\ b \in Agents BY DEF Release, Shapes
  <2>2. locked[b] \in 1..Len(lock) /\ lock[locked[b]] = b BY <2>1 DEF RowsAreHeld
  <2>3. locked'[b] = locked[b] BY <2>1 DEF Release, Shapes
  <2>4. lock'[locked[b]] = b BY <2>1, <2>2 DEF Release, Shapes
  <2> QED BY <1>2, <2>2, <2>3, <2>4
<1>4. LocksAreOfOrigins'
  <2>1. \A b \in Agents : pc'[b] # "boundary" => old'[b] = 0
        BY DEF LocksAreOfOrigins, Release, Shapes
  <2>2. \A b \in Agents \ {a} : (Compacts(b))' = Compacts(b) /\ (Origin(b))' = Origin(b) /\ locked'[b] = locked[b]
        BY DEF Release, Shapes, Compacts, Origin
  <2>3. alone' = alone \ {a} /\ ~(Compacts(a))' BY DEF Release, Compacts, Shapes
  <2>4. \A b \in alone' : (Compacts(b))' /\ locked'[b] = (Origin(b))'
        BY <2>2, <2>3, <1>1 DEF LocksAreOfOrigins
  <2>5. mishaps' = 0 => \A b \in Agents : (Compacts(b))' => b \in alone'
        BY <2>2, <2>3 DEF LocksAreOfOrigins
  <2>6. mishaps' = 0 => \A s \in 1..Len(lock') : lock'[s] # Dead
        BY ContextAssumption, <1>2 DEF LocksAreOfOrigins, Release, Shapes, ContextAssumption
  <2> QED BY <2>1, <2>4, <2>5, <2>6 DEF LocksAreOfOrigins
<1> QED BY <1>1, <1>2, <1>3, <1>4

(* Without a step of its own an agent's locks stay as they are. *)
LEMMA LocksFrame ==
    ASSUME UNCHANGED <<pc, sid, locked, old, lock, alone, mishaps>>,
           RowsAreHeld, LocksAreOfOrigins
    PROVE  RowsAreHeld' /\ LocksAreOfOrigins'
BY DEF RowsAreHeld, LocksAreOfOrigins, Compacts, Origin

(* A step of one agent that takes no row from another agent that holds it. *)
LEMMA OthersKeepLocks ==
    ASSUME Shapes, RowsAreHeld, LocksAreOfOrigins, NEW a \in Agents,
           \A b \in Agents \ {a} : /\ pc'[b] = pc[b] /\ locked'[b] = locked[b]
                                   /\ old'[b] = old[b] /\ sid'[b] = sid[b]
                                   /\ b \in alone' <=> b \in alone,
           alone' \subseteq Agents,
           mishaps' = 0 => mishaps = 0,
           Len(lock') \in Nat, Len(lock') >= Len(lock),
           \A t \in 1..Len(lock) : lock[t] \in alone \ {a} => lock'[t] = lock[t],
           mishaps' = 0 => \A t \in 1..Len(lock') : lock'[t] # Dead,
           pc'[a] # "boundary" => old'[a] = 0,
           a \in alone' => /\ (Compacts(a))' /\ locked'[a] = (Origin(a))'
                           /\ locked'[a] \in 1..Len(lock') /\ lock'[locked'[a]] = a,
           mishaps' = 0 /\ (Compacts(a))' => a \in alone'
    PROVE  RowsAreHeld' /\ LocksAreOfOrigins'
<1>1. Len(lock) \in Nat BY DEF Shapes
<1>2. RowsAreHeld'
  <2> SUFFICES ASSUME NEW b \in alone'
               PROVE  locked'[b] \in 1..Len(lock') /\ lock'[locked'[b]] = b
      BY DEF RowsAreHeld
  <2>1. CASE b = a BY <2>1
  <2>2. CASE b # a
    <3>1. b \in alone /\ b \in Agents /\ locked'[b] = locked[b] BY <2>2
    <3>2. locked[b] \in 1..Len(lock) /\ lock[locked[b]] = b BY <3>1 DEF RowsAreHeld
    <3>3. lock'[locked[b]] = b BY <2>2, <3>1, <3>2
    <3> QED BY <1>1, <3>1, <3>2, <3>3
  <2> QED BY <2>1, <2>2
<1>3. LocksAreOfOrigins'
  <2>1. \A b \in Agents \ {a} : (Compacts(b))' = Compacts(b) /\ (Origin(b))' = Origin(b)
        BY DEF Compacts, Origin
  <2>2. \A b \in Agents : pc'[b] # "boundary" => old'[b] = 0 BY DEF LocksAreOfOrigins
  <2>3. \A b \in alone' : (Compacts(b))' /\ locked'[b] = (Origin(b))'
        BY <2>1 DEF LocksAreOfOrigins
  <2>4. mishaps' = 0 => \A b \in Agents : (Compacts(b))' => b \in alone'
        BY <2>1 DEF LocksAreOfOrigins
  <2> QED BY <2>2, <2>3, <2>4 DEF LocksAreOfOrigins
<1> QED BY <1>2, <1>3

(* As long as the failures recorded do not change, it is enough that their   *)
(* agents still cool down.                                                   *)
LEMMA CooldownFrame ==
    ASSUME Shapes, RowsTell, RecordersCool, CooldownRespected,
           UNCHANGED <<cooling, owed, hasty>>,
           \A b \in Agents : <<b, sid'[b]>> \in owed => compressor'[b].cooling,
           \A b \in Agents : pc'[b] = "absent" => pc[b] = "absent"
    PROVE  RowsTell' /\ RecordersCool' /\ CooldownRespected'
<1>1. RowsTell' /\ CooldownRespected' BY DEF RowsTell, CooldownRespected
<1>2. \A f \in owed : f[1] \in Agents BY DEF Shapes
<1>3. RecordersCool' BY <1>2 DEF RecordersCool
<1> QED BY <1>1, <1>3

-----------------------------------------------------------------------------
(* The initial states *)

LEMMA InitEstablishes == ASSUME ContextAssumption, Init PROVE CInv
<1>1. Shapes
  <2>1. sessions \in Seq([parent : Nat, open : BOOLEAN]) /\ Len(sessions) = 1
        BY DEF Init
  <2>2. lock \in Seq(Agents \cup {NoOne, Dead}) /\ Len(lock) = 1
        BY DEF Init
  <2>3. config \in Configs BY DEF Init
  <2>4. pc \in [Agents -> Pcs] BY DEF Init, Pcs
  <2>5. /\ sid \in [Agents -> 1..Len(sessions)] /\ locked \in [Agents -> 0..Len(sessions)]
        /\ old \in [Agents -> 0..Len(sessions)]
        BY <2>1 DEF Init
  <2>6. mishaps \in Nat /\ cooling = {} /\ owed = {} /\ alone = {} BY DEF Init
  <2> QED BY <2>1, <2>2, <2>3, <2>4, <2>5, <2>6 DEF Shapes
<1>2. Compressors
  <2> DEFINE c == Created(config)
  <2>1. DOMAIN c = Fields /\ c.count \in Nat /\ c.cooling \in BOOLEAN
        BY DEF Created, Fresh, Fields
  <2>2. compressor = [a \in Agents |-> c] BY DEF Init
  <2> HIDE DEF c
  <2> QED BY <2>1, <2>2 DEF Compressors
<1>3. RowsAreHeld BY DEF Init, RowsAreHeld
<1>4. LocksAreOfOrigins
  <2>1. \A a \in Agents : ~Compacts(a) BY DEF Init, Compacts
  <2>2. \A s \in 1..Len(lock) : lock[s] # Dead BY DEF Init, ContextAssumption
  <2> QED BY <2>1, <2>2 DEF Init, LocksAreOfOrigins
<1>5. RowsTell /\ RecordersCool /\ CooldownRespected
      BY DEF Init, RowsTell, RecordersCool, CooldownRespected
<1> QED BY <1>1, <1>2, <1>3, <1>4, <1>5 DEF CInv

-----------------------------------------------------------------------------
(* The conversation *)

LEMMA ConverseStep ==
    ASSUME CInv, NEW a \in Agents, NEW messages, NEW answered \in BOOLEAN,
           Converse(a, messages, answered)
    PROVE  CInv'
<1> USE DEF CInv
<1>1. Shapes' BY DEF Converse, store, history, Shapes
<1>2. /\ Compressors'
      /\ \A b \in Agents : compressor'[b].cooling = compressor[b].cooling
  <2>1. CASE ~answered BY <2>1 DEF Converse, Compressors
  <2>2. CASE answered
    <3> DEFINE c == [compressor[a] EXCEPT !.awaiting = FALSE]
    <3>1. DOMAIN c = Fields /\ c.count \in Nat /\ c.cooling = compressor[a].cooling
          BY DEF Compressors, Fields
    <3>2. compressor' = [compressor EXCEPT ![a] = c] BY <2>2 DEF Converse
    <3> HIDE DEF c
    <3> QED BY <3>1, <3>2, CompressorUpdate DEF Compressors
  <2> QED BY <2>1, <2>2
<1>3. RowsAreHeld' /\ LocksAreOfOrigins' BY LocksFrame DEF Converse, store, history
<1>4. RowsTell' /\ RecordersCool' /\ CooldownRespected'
  <2>1. \A b \in Agents : <<b, sid'[b]>> \in owed => compressor'[b].cooling
        BY <1>2 DEF Converse, RecordersCool
  <2> QED BY <2>1, CooldownFrame DEF Converse, store, history
<1> QED BY <1>1, <1>2, <1>3, <1>4

LEMMA ForkStep ==
    ASSUME CInv, NEW a \in Agents, NEW b \in Agents, Fork(a, b)
    PROVE  CInv'
<1> USE DEF CInv
<1>1. Shapes' BY DEF Fork, store, history, Shapes, Pcs
<1>2. Compressors' BY DEF Fork, Compressors
<1>3. RowsAreHeld' BY DEF Fork, store, history, RowsAreHeld
<1>4. LocksAreOfOrigins'
  <2>1. ~Compacts(b) /\ ~(Compacts(b))' BY DEF Fork, Compacts, Shapes
  <2>2. \A c \in Agents \ {b} : (Compacts(c))' = Compacts(c) /\ (Origin(c))' = Origin(c)
        BY DEF Fork, Compacts, Origin, Shapes
  <2>3. b \notin alone BY <2>1 DEF LocksAreOfOrigins
  <2>4. UNCHANGED <<locked, alone, lock, mishaps, old>> BY DEF Fork, store, history
  <2>5. \A c \in Agents : pc'[c] # "boundary" => old'[c] = 0
        BY <2>4 DEF Fork, Shapes, LocksAreOfOrigins
  <2>6. \A c \in alone' : (Compacts(c))' /\ locked'[c] = (Origin(c))'
        BY <2>2, <2>3, <2>4 DEF LocksAreOfOrigins, Shapes
  <2>7. mishaps' = 0 => \A c \in Agents : (Compacts(c))' => c \in alone'
        BY <2>1, <2>2, <2>4 DEF LocksAreOfOrigins
  <2> QED BY <2>4, <2>5, <2>6, <2>7 DEF LocksAreOfOrigins
<1>5. RowsTell' /\ RecordersCool' /\ CooldownRespected'
  <2>1. <<b, sid'[b]>> \notin owed BY DEF Fork, RecordersCool
  <2>2. \A c \in Agents : <<c, sid'[c]>> \in owed => compressor'[c].cooling
        BY <2>1 DEF Fork, RecordersCool, Shapes
  <2>3. \A c \in Agents : pc'[c] = "absent" => pc[c] = "absent" BY DEF Fork, Shapes
  <2> QED BY <2>2, <2>3, CooldownFrame DEF Fork, store, history
<1> QED BY <1>1, <1>2, <1>3, <1>4, <1>5

(* A cooldown that begins or ends with one agent alone. *)
LEMMA AdoptStep ==
    ASSUME CInv, NEW a \in Agents, AdoptCooldown(a) \/ CoolOff(a)
    PROVE  CInv'
<1> USE DEF CInv
<1>1. UNCHANGED <<counters, transcript, pc, sid, locked, old, store, history>>
      BY DEF AdoptCooldown, CoolOff
<1>2. PICK e \in BOOLEAN : /\ compressor' = [compressor EXCEPT ![a].cooling = e]
                           /\ ~e => <<a, sid[a]>> \notin owed
      BY DEF AdoptCooldown, CoolOff
<1> DEFINE c == [compressor[a] EXCEPT !.cooling = e]
<1>3. DOMAIN c = Fields /\ c.count \in Nat /\ c.cooling = e
      BY DEF Compressors, Fields
<1>4. compressor' = [compressor EXCEPT ![a] = c] BY <1>2
<1> HIDE DEF c
<1>5. /\ Compressors' /\ compressor'[a].cooling = e
      /\ \A b \in Agents \ {a} : compressor'[b] = compressor[b]
      BY <1>3, <1>4, CompressorUpdate
<1>6. Shapes' BY <1>1 DEF Shapes, counters, store, history
<1>7. RowsAreHeld' /\ LocksAreOfOrigins' BY <1>1, LocksFrame DEF counters, store, history
<1>8. RowsTell' /\ RecordersCool' /\ CooldownRespected'
  <2>1. \A b \in Agents : <<b, sid'[b]>> \in owed => compressor'[b].cooling
        BY <1>1, <1>2, <1>5 DEF RecordersCool
  <2> QED BY <1>1, <2>1, CooldownFrame DEF store, history
<1> QED BY <1>5, <1>6, <1>7, <1>8

-----------------------------------------------------------------------------
(* The lock *)

LEMMA MishapCounts == ASSUME Mishap, mishaps \in Nat PROVE mishaps' \in Nat /\ mishaps' # 0
BY DEF Mishap

LEMMA BeginStep ==
    ASSUME ContextAssumption, CInv, NEW a \in Agents, Begin(a)
    PROVE  CInv'
<1> USE DEF CInv
<1>1. /\ UNCHANGED <<config, compressor, sid, old, sessions, cooling, owed, hasty>>
      /\ pc[a] = "idle"
      BY DEF Begin
<1>2. PICK why \in Reasons : pc' = [pc EXCEPT ![a] = why] BY DEF Begin
<1>3. why \notin {"absent", "idle", "boundary"} /\ why \in Pcs BY DEF Reasons, Pcs
<1>4. a \notin alone /\ old[a] = 0 BY <1>1 DEF LocksAreOfOrigins, Compacts
<1>5. pc' \in [Agents -> Pcs] /\ (Compacts(a))' /\ (Origin(a))' = sid[a] /\ pc'[a] # "boundary"
      BY <1>1, <1>2, <1>3, <1>4 DEF Shapes, Compacts, Origin
<1>6. /\ lock' \in Seq(Agents \cup {NoOne, Dead}) /\ Len(lock') = Len(lock)
      /\ locked' \in [Agents -> 0..Len(sessions)]
      /\ alone' \subseteq Agents /\ mishaps' \in Nat
      /\ RowsAreHeld' /\ LocksAreOfOrigins'
  <2>1. CASE /\ lock[sid[a]] = NoOne
             /\ lock' = [lock EXCEPT ![sid[a]] = a]
             /\ locked' = [locked EXCEPT ![a] = sid[a]]
             /\ alone' = alone \cup {a}
             /\ UNCHANGED mishaps
    <3>1. sid[a] \in 1..Len(lock) BY DEF Shapes
    <3>2. /\ lock' \in Seq(Agents \cup {NoOne, Dead}) /\ Len(lock') = Len(lock)
          /\ \A t \in 1..Len(lock) : lock'[t] = IF t = sid[a] THEN a ELSE lock[t]
          BY <2>1, <3>1, LockUpdate, ZenonT(60)
    <3>3. locked' \in [Agents -> 0..Len(sessions)] /\ alone' \subseteq Agents /\ mishaps' \in Nat
          BY <2>1 DEF Shapes
    <3>4. Len(lock') \in Nat BY <3>2 DEF Shapes
    <3>5. \A t \in 1..Len(lock) : lock[t] \in alone \ {a} => lock'[t] = lock[t]
          BY <2>1, <3>2, ContextAssumption DEF ContextAssumption, Shapes
    <3>6. mishaps' = 0 => \A t \in 1..Len(lock') : lock'[t] # Dead
          BY <2>1, <3>2, ContextAssumption DEF ContextAssumption, LocksAreOfOrigins
    <3>7. locked'[a] = sid[a] /\ lock'[sid[a]] = a /\ old'[a] = 0
          BY <1>1, <1>4, <2>1, <3>1, <3>2 DEF Shapes
    <3>8. \A b \in Agents \ {a} : /\ pc'[b] = pc[b] /\ locked'[b] = locked[b]
                                  /\ old'[b] = old[b] /\ sid'[b] = sid[b]
                                  /\ b \in alone' <=> b \in alone
          BY <1>1, <1>2, <2>1 DEF Shapes
    <3>9. RowsAreHeld' /\ LocksAreOfOrigins'
          BY <1>5, <2>1, <3>1, <3>2, <3>3, <3>4, <3>5, <3>6, <3>7, <3>8, OthersKeepLocks
    <3> QED BY <3>2, <3>3, <3>9
  <2>2. CASE /\ Mishap
             /\ alone' = alone \ {a}
             /\ UNCHANGED <<lock, locked>>
    <3>1. mishaps' \in Nat /\ mishaps' # 0 BY <2>2, MishapCounts DEF Shapes
    <3>2. \A b \in Agents \ {a} : /\ pc'[b] = pc[b] /\ locked'[b] = locked[b]
                                  /\ old'[b] = old[b] /\ sid'[b] = sid[b]
                                  /\ b \in alone' <=> b \in alone
          BY <1>1, <1>2, <2>2 DEF Shapes
    <3>3. alone' \subseteq Agents /\ a \notin alone' BY <2>2 DEF Shapes
    <3>4. Len(lock) \in Nat /\ old'[a] = 0 BY <1>1, <1>4 DEF Shapes
    <3>5. RowsAreHeld' /\ LocksAreOfOrigins'
          BY <2>2, <3>1, <3>2, <3>3, <3>4, OthersKeepLocks
    <3> QED BY <2>2, <3>1, <3>3, <3>5 DEF Shapes
  <2> QED BY <2>1, <2>2 DEF Begin
<1>7. Shapes' BY <1>1, <1>5, <1>6 DEF Shapes
<1>8. Compressors' BY <1>1 DEF Compressors
<1>9. RowsTell' /\ RecordersCool' /\ CooldownRespected'
  <2>1. \A b \in Agents : <<b, sid'[b]>> \in owed => compressor'[b].cooling
        BY <1>1 DEF RecordersCool
  <2>2. \A b \in Agents : pc'[b] = "absent" => pc[b] = "absent" BY <1>2, <1>3 DEF Shapes
  <2> QED BY <1>1, <2>1, <2>2, CooldownFrame
<1> QED BY <1>6, <1>7, <1>8, <1>9

LEMMA LapseStep ==
    ASSUME ContextAssumption, CInv, NEW s \in DOMAIN lock, Lapse(s)
    PROVE  CInv'
<1> USE DEF CInv
<1>1. UNCHANGED <<config, local, sessions, cooling, owed, hasty>> BY DEF Lapse
<1>2. s \in 1..Len(lock) BY LenProperties DEF Shapes
<1>3. /\ lock' \in Seq(Agents \cup {NoOne, Dead}) /\ Len(lock') = Len(lock)
      /\ \A t \in 1..Len(lock) : lock'[t] = IF t = s THEN NoOne ELSE lock[t]
      BY <1>2, LockUpdate DEF Lapse
<1>4. mishaps' \in Nat /\ (mishaps' = 0 => mishaps = 0)
      BY MishapCounts DEF Lapse, Shapes
<1>5. alone' = alone \ {lock[s]} BY DEF Lapse
<1>6. Shapes' BY <1>1, <1>3, <1>4, <1>5 DEF Shapes, local
<1>7. Compressors' BY <1>1 DEF Compressors, local
<1>8. RowsAreHeld' BY <1>1, <1>3, <1>5 DEF RowsAreHeld, local
<1>9. LocksAreOfOrigins'
  <2>1. \A b \in Agents : (Compacts(b))' = Compacts(b) /\ (Origin(b))' = Origin(b)
        BY <1>1 DEF Compacts, Origin, local
  <2>2. UNCHANGED <<pc, old, locked>> BY <1>1 DEF local
  <2>3. \A b \in alone' : (Compacts(b))' /\ locked'[b] = (Origin(b))'
        BY <1>5, <2>1, <2>2 DEF LocksAreOfOrigins, Shapes
  <2>4. mishaps' # 0
    <3>1. CASE lock[s] = Dead
      <4>1. mishaps # 0 BY <1>2, <3>1 DEF LocksAreOfOrigins
      <4> QED BY <1>4, <4>1
    <3>2. CASE lock[s] # Dead BY <3>2, MishapCounts DEF Lapse, Shapes
    <3> QED BY <3>1, <3>2
  <2> QED BY <2>2, <2>3, <2>4 DEF LocksAreOfOrigins
<1>10. RowsTell' /\ RecordersCool' /\ CooldownRespected'
  <2>1. \A b \in Agents : <<b, sid'[b]>> \in owed => compressor'[b].cooling
        BY <1>1 DEF RecordersCool, local
  <2> QED BY <1>1, <2>1, CooldownFrame DEF local
<1> QED BY <1>6, <1>7, <1>8, <1>9, <1>10

-----------------------------------------------------------------------------
(* The boundary between the sessions *)

(* A step that leaves the locks, the failures and the compressors alone: the *)
(* agent goes on to another place of its compaction.                         *)
LEMMA PlaceStep ==
    ASSUME ContextAssumption, CInv, NEW a \in Agents,
           NEW there \in Pcs \ {"absent", "idle"},
           (Compacts(a)), there # "boundary" => old[a] = 0,
           pc' = [pc EXCEPT ![a] = there],
           UNCHANGED <<sid, locked, old, lock, alone>>,
           mishaps' = 0 => mishaps = 0
    PROVE  RowsAreHeld' /\ LocksAreOfOrigins'
<1> USE DEF CInv
<1>1. \A b \in Agents \ {a} : /\ pc'[b] = pc[b] /\ locked'[b] = locked[b]
                              /\ old'[b] = old[b] /\ sid'[b] = sid[b]
                              /\ b \in alone' <=> b \in alone
      BY DEF Shapes
<1>2. Len(lock) \in Nat /\ alone' \subseteq Agents BY DEF Shapes
<1>3. pc'[a] = there /\ (Origin(a))' = Origin(a) /\ (Compacts(a))' BY DEF Shapes, Origin, Compacts
<1>4. mishaps' = 0 => \A t \in 1..Len(lock') : lock'[t] # Dead BY DEF LocksAreOfOrigins
<1>5. a \in alone' => /\ locked'[a] = (Origin(a))' /\ locked'[a] \in 1..Len(lock')
                      /\ lock'[locked'[a]] = a
      BY <1>3 DEF LocksAreOfOrigins, RowsAreHeld
<1>6. mishaps' = 0 => a \in alone' BY DEF LocksAreOfOrigins
<1> QED BY <1>1, <1>2, <1>3, <1>4, <1>5, <1>6, OthersKeepLocks

LEMMA EndSessionStep ==
    ASSUME ContextAssumption, CInv, NEW a \in Agents, EndSession(a)
    PROVE  CInv'
<1> USE DEF CInv
<1>1. /\ UNCHANGED <<config, compressor, sid, locked, old, lock, cooling, alone, owed, hasty>>
      /\ pc[a] = "end"
      BY DEF EndSession, history
<1>2. PICK there \in {"create", "boundary"} : pc' = [pc EXCEPT ![a] = there]
      BY DEF EndSession
<1>3. mishaps' \in Nat /\ (mishaps' = 0 => mishaps = 0)
      BY MishapCounts DEF EndSession, Shapes
<1>4. sessions' \in Seq([parent : Nat, open : BOOLEAN]) /\ Len(sessions') = Len(sessions)
  <2>1. CASE UNCHANGED sessions BY <2>1 DEF Shapes
  <2>2. CASE sessions' = [sessions EXCEPT ![sid[a]].open = FALSE]
    <3>1. sid[a] \in 1..Len(sessions) BY DEF Shapes
    <3>2. sessions[sid[a]] \in [parent : Nat, open : BOOLEAN] BY <3>1, ElementOfSeq DEF Shapes
    <3>3. [sessions[sid[a]] EXCEPT !.open = FALSE] \in [parent : Nat, open : BOOLEAN] BY <3>2
    <3> QED BY <2>2, <3>1, <3>3, ExceptSeq DEF Shapes
  <2> QED BY <2>1, <2>2 DEF EndSession
<1>5. Shapes' BY <1>1, <1>2, <1>3, <1>4 DEF Shapes, Pcs
<1>6. Compressors' BY <1>1 DEF Compressors
<1>7. RowsAreHeld' /\ LocksAreOfOrigins'
  <2>1. there \in Pcs \ {"absent", "idle"} /\ Compacts(a) /\ old[a] = 0
        BY <1>1 DEF Pcs, Compacts, LocksAreOfOrigins
  <2> QED BY <1>1, <1>2, <1>3, <2>1, PlaceStep
<1>8. RowsTell' /\ RecordersCool' /\ CooldownRespected'
  <2>1. \A b \in Agents : <<b, sid'[b]>> \in owed => compressor'[b].cooling
        BY <1>1 DEF RecordersCool
  <2>2. \A b \in Agents : pc'[b] = "absent" => pc[b] = "absent" BY <1>2 DEF Shapes
  <2> QED BY <1>1, <2>1, <2>2, CooldownFrame
<1> QED BY <1>5, <1>6, <1>7, <1>8

LEMMA ArchiveStep ==
    ASSUME ContextAssumption, CInv, NEW a \in Agents, Archive(a)
    PROVE  CInv'
<1> USE DEF CInv
<1>1. /\ UNCHANGED <<counters, compressor, sid, locked, old, store, history>>
      /\ pc[a] = "archive" /\ pc' = [pc EXCEPT ![a] = "boundary"]
      BY DEF Archive
<1>2. Shapes' BY <1>1 DEF Shapes, Pcs, counters, store, history
<1>3. Compressors' BY <1>1 DEF Compressors
<1>4. RowsAreHeld' /\ LocksAreOfOrigins'
  <2>1. "boundary" \in Pcs \ {"absent", "idle"} /\ Compacts(a) BY <1>1 DEF Pcs, Compacts
  <2> QED BY <1>1, <2>1, PlaceStep DEF counters, store, history
<1>5. RowsTell' /\ RecordersCool' /\ CooldownRespected'
  <2>1. \A b \in Agents : <<b, sid'[b]>> \in owed => compressor'[b].cooling
        BY <1>1 DEF RecordersCool
  <2>2. \A b \in Agents : pc'[b] = "absent" => pc[b] = "absent" BY <1>1 DEF Shapes
  <2> QED BY <1>1, <2>1, <2>2, CooldownFrame DEF store, history
<1> QED BY <1>2, <1>3, <1>4, <1>5

(* The child's row is new: no failure is recorded for it. *)
LEMMA CreateSessionStep ==
    ASSUME ContextAssumption, CInv, NEW a \in Agents, CreateSession(a)
    PROVE  CInv'
<1> USE DEF CInv
<1> DEFINE n == Len(sessions)
<1>1. /\ UNCHANGED <<config, compressor, locked, cooling, alone, owed, hasty>>
      /\ pc[a] = "create" /\ pc' = [pc EXCEPT ![a] = "boundary"]
      BY DEF CreateSession, history
<1>2. n \in Nat /\ Len(lock) = n /\ sid[a] \in 1..n /\ Compacts(a) /\ old[a] = 0
      BY <1>1 DEF Shapes, Compacts, LocksAreOfOrigins
<1>3. Compressors' BY <1>1 DEF Compressors
<1>4. \A b \in Agents : pc'[b] = "absent" => pc[b] = "absent" BY <1>1 DEF Shapes
<1>5. CASE /\ sessions' = Append(sessions, [parent |-> sid[a], open |-> TRUE])
           /\ lock' = Append(lock, NoOne)
           /\ sid' = [sid EXCEPT ![a] = Len(sessions) + 1]
           /\ old' = [old EXCEPT ![a] = sid[a]]
           /\ UNCHANGED mishaps
  <2>1. sessions' \in Seq([parent : Nat, open : BOOLEAN]) /\ Len(sessions') = n + 1
    <3>1. [parent |-> sid[a], open |-> TRUE] \in [parent : Nat, open : BOOLEAN] BY <1>2
    <3> QED BY <1>5, <3>1 DEF Shapes
  <2>2. /\ lock' \in Seq(Agents \cup {NoOne, Dead}) /\ Len(lock') = n + 1
        /\ \A t \in 1..n : lock'[t] = lock[t]
        /\ lock'[n + 1] = NoOne
        BY <1>2, <1>5 DEF Shapes
  <2>3. /\ pc' \in [Agents -> Pcs]
        /\ locked' \in [Agents -> 0..Len(sessions')]
        /\ cooling' \subseteq 1..Len(sessions')
        /\ owed' \subseteq Agents \X (1..Len(sessions'))
        BY <1>1, <1>2, <2>1, SMTT(60) DEF Shapes, Pcs
  <2>4. /\ sid' \in [Agents -> 1..Len(sessions')] /\ old' \in [Agents -> 0..Len(sessions')]
        BY <1>2, <1>5, <2>1, SMTT(60) DEF Shapes
  <2>5. Shapes' BY <1>1, <1>5, <2>1, <2>2, <2>3, <2>4 DEF Shapes
  <2>6. \A b \in Agents \ {a} : /\ pc'[b] = pc[b] /\ locked'[b] = locked[b]
                                /\ old'[b] = old[b] /\ sid'[b] = sid[b]
                                /\ b \in alone' <=> b \in alone
        BY <1>1, <1>5 DEF Shapes
  <2>7. (Origin(a))' = Origin(a) /\ (Compacts(a))'
        BY <1>1, <1>2, <1>5 DEF Origin, Compacts, Shapes
  <2>8. RowsAreHeld' /\ LocksAreOfOrigins'
    <3>1. mishaps' = 0 => \A t \in 1..Len(lock') : lock'[t] # Dead
          BY ContextAssumption, <1>2, <1>5, <2>2 DEF LocksAreOfOrigins, ContextAssumption
    <3>2. a \in alone' => /\ locked'[a] = (Origin(a))' /\ locked'[a] \in 1..Len(lock')
                          /\ lock'[locked'[a]] = a
          BY <1>1, <1>2, <2>2, <2>7 DEF LocksAreOfOrigins, RowsAreHeld
    <3>3. mishaps' = 0 => a \in alone' BY <1>1, <1>2, <1>5 DEF LocksAreOfOrigins
    <3>4. alone' \subseteq Agents /\ Len(lock') \in Nat /\ Len(lock') >= Len(lock)
          BY <1>1, <1>2, <2>2 DEF Shapes
    <3>5. \A t \in 1..Len(lock) : lock[t] \in alone \ {a} => lock'[t] = lock[t]
          BY <1>2, <2>2
    <3>6. pc'[a] = "boundary" BY <1>1 DEF Shapes
    <3> QED BY <1>5, <2>6, <2>7, <3>1, <3>2, <3>3, <3>4, <3>5, <3>6, OthersKeepLocks
  <2>9. RowsTell' /\ RecordersCool' /\ CooldownRespected'
    <3>1. <<a, sid'[a]>> \notin owed BY <1>2, <1>5 DEF Shapes
    <3>2. \A b \in Agents : <<b, sid'[b]>> \in owed => compressor'[b].cooling
          BY <1>1, <2>6, <3>1 DEF RecordersCool
    <3> QED BY <1>1, <1>4, <3>2, CooldownFrame
  <2> QED BY <1>3, <2>5, <2>8, <2>9
<1>6. CASE /\ Mishap
           /\ \E open \in BOOLEAN : sessions' = [sessions EXCEPT ![sid[a]].open = open]
           /\ UNCHANGED <<lock, sid, old>>
  <2>1. PICK open \in BOOLEAN : sessions' = [sessions EXCEPT ![sid[a]].open = open] BY <1>6
  <2>2. [sessions[sid[a]] EXCEPT !.open = open] \in [parent : Nat, open : BOOLEAN]
    <3>1. sessions[sid[a]] \in [parent : Nat, open : BOOLEAN] BY <1>2, ElementOfSeq DEF Shapes
    <3> QED BY <3>1
  <2>3. sessions' \in Seq([parent : Nat, open : BOOLEAN]) /\ Len(sessions') = Len(sessions)
        BY <1>2, <2>1, <2>2, ExceptSeq DEF Shapes
  <2>4. mishaps' \in Nat /\ mishaps' # 0 BY <1>6, MishapCounts DEF Shapes
  <2>5. Shapes' BY <1>1, <1>6, <2>3, <2>4 DEF Shapes, Pcs
  <2>6. "boundary" \in Pcs \ {"absent", "idle"} BY DEF Pcs
  <2>7. RowsAreHeld' /\ LocksAreOfOrigins'
        BY <1>1, <1>2, <1>6, <2>4, <2>6, PlaceStep
  <2>8. \A b \in Agents : <<b, sid'[b]>> \in owed => compressor'[b].cooling
        BY <1>1, <1>6 DEF RecordersCool
  <2>9. RowsTell' /\ RecordersCool' /\ CooldownRespected' BY <1>1, <1>4, <2>8, CooldownFrame
  <2> QED BY <1>3, <2>5, <2>7, <2>9
<1> QED BY <1>5, <1>6 DEF CreateSession

(* The new binding reads the cooldown of the session the agent has now. *)
LEMMA BoundaryStep ==
    ASSUME ContextAssumption, CInv, NEW a \in Agents, Boundary(a)
    PROVE  CInv'
<1> USE DEF CInv
<1>1. /\ UNCHANGED <<counters, sid, sessions, cooling, owed, hasty>>
      /\ old' = [old EXCEPT ![a] = 0] /\ Release(a) /\ pc[a] = "boundary"
      BY DEF Boundary
<1>2. PICK e \in BOOLEAN :
          /\ compressor' = [compressor EXCEPT ![a].cooling = e, ![a].awaiting = TRUE]
          /\ e = compressor[a].cooling \/ e = (sid[a] \in cooling)
  <2> DEFINE e0 == IF config.inPlace \/ old[a] # 0 THEN sid[a] \in cooling
                   ELSE compressor[a].cooling
  <2>1. e0 \in BOOLEAN /\ (e0 = compressor[a].cooling \/ e0 = (sid[a] \in cooling))
    <3>1. CASE config.inPlace \/ old[a] # 0
      <4>1. e0 = (sid[a] \in cooling) BY <3>1
      <4>2. (sid[a] \in cooling) \in BOOLEAN OBVIOUS
      <4> HIDE DEF e0
      <4> QED BY <4>1, <4>2
    <3>2. CASE ~(config.inPlace \/ old[a] # 0) BY <3>2 DEF Compressors
    <3> QED BY <3>1, <3>2
  <2>2. compressor' = [compressor EXCEPT ![a].cooling = e0, ![a].awaiting = TRUE]
        BY DEF Boundary
  <2> HIDE DEF e0
  <2> QED BY <2>1, <2>2
<1> DEFINE c == [compressor[a] EXCEPT !.cooling = e, !.awaiting = TRUE]
<1>3. DOMAIN c = Fields /\ c.count \in Nat /\ c.cooling = e
      BY DEF Compressors, Fields
<1>4. compressor' = [compressor EXCEPT ![a] = c] BY <1>2
<1> HIDE DEF c
<1>5. /\ Compressors' /\ compressor'[a].cooling = e
      /\ \A b \in Agents \ {a} : compressor'[b] = compressor[b]
      BY <1>3, <1>4, CompressorUpdate
<1>6. /\ pc' \in [Agents -> Pcs]
      /\ lock' \in Seq(Agents \cup {NoOne, Dead}) /\ Len(lock') = Len(lock)
      /\ locked' \in [Agents -> 0..Len(sessions)]
      /\ old' \in [Agents -> 0..Len(sessions)]
      /\ alone' \subseteq Agents
      /\ RowsAreHeld' /\ LocksAreOfOrigins'
      BY <1>1, ReleaseKeepsLocks DEF counters
<1>7. Shapes' BY <1>1, <1>6 DEF Shapes, counters
<1>8. RowsTell' /\ RecordersCool' /\ CooldownRespected'
  <2>1. <<a, sid[a]>> \in owed => sid[a] \in cooling BY DEF RowsTell
  <2>2. <<a, sid[a]>> \in owed => e BY <1>2, <2>1 DEF RecordersCool
  <2>3. \A b \in Agents : <<b, sid'[b]>> \in owed => compressor'[b].cooling
        BY <1>1, <1>5, <2>2 DEF RecordersCool
  <2>4. \A b \in Agents : pc'[b] = "absent" => pc[b] = "absent" BY <1>1 DEF Release, Shapes
  <2> QED BY <1>1, <2>3, <2>4, CooldownFrame
<1> QED BY <1>5, <1>6, <1>7, <1>8

-----------------------------------------------------------------------------
(* Faults, and the time *)

(* A new process reads what the row says, so its own failures still count. *)
LEMMA RestartedCools ==
    ASSUME CInv, NEW a \in Agents, Restarted(a), UNCHANGED sid
    PROVE  /\ Compressors'
           /\ \A b \in Agents : <<b, sid'[b]>> \in owed => compressor'[b].cooling
<1> USE DEF CInv
<1> DEFINE c == [Created(config) EXCEPT !.cooling = sid[a] \in cooling]
<1>1. /\ DOMAIN c = Fields /\ c.count \in Nat /\ c.cooling \in BOOLEAN
      /\ c.cooling = (sid[a] \in cooling)
      BY DEF Created, Fresh, Fields
<1>2. compressor' = [compressor EXCEPT ![a] = c] BY DEF Restarted
<1>3. PICK k : k = c OBVIOUS
<1> HIDE DEF c
<1>4. /\ Compressors' /\ compressor'[a] = k
      /\ \A b \in Agents \ {a} : compressor'[b] = compressor[b]
  <2>1. DOMAIN k = Fields /\ k.count \in Nat /\ k.cooling \in BOOLEAN BY <1>1, <1>3
  <2>2. compressor' = [compressor EXCEPT ![a] = k] BY <1>2, <1>3
  <2> QED BY <2>1, <2>2, CompressorUpdate
<1>5. <<a, sid[a]>> \in owed => sid[a] \in cooling BY DEF RowsTell
<1>6. <<a, sid[a]>> \in owed => k.cooling BY <1>1, <1>3, <1>5
<1> QED BY <1>4, <1>6 DEF RecordersCool

LEMMA RestartStep ==
    ASSUME ContextAssumption, CInv, NEW a \in Agents, Restart(a)
    PROVE  CInv'
<1> USE DEF CInv
<1>1. /\ UNCHANGED <<config, pc, sid, locked, old, store, history>>
      /\ Restarted(a)
      BY DEF Restart
<1>2. mishaps' \in Nat /\ mishaps' # 0 BY MishapCounts DEF Restart, Shapes
<1>3. Shapes' BY <1>1, <1>2 DEF Shapes, store, history
<1>4. /\ Compressors'
      /\ \A b \in Agents : <<b, sid'[b]>> \in owed => compressor'[b].cooling
      BY <1>1, RestartedCools
<1>5. RowsAreHeld' BY <1>1 DEF RowsAreHeld, store, history
<1>6. LocksAreOfOrigins'
  <2>1. \A b \in Agents : (Compacts(b))' = Compacts(b) /\ (Origin(b))' = Origin(b)
        BY <1>1 DEF Compacts, Origin
  <2>2. UNCHANGED <<pc, old, locked, alone>> BY <1>1 DEF history
  <2> QED BY <1>2, <2>1, <2>2 DEF LocksAreOfOrigins, Shapes
<1>7. RowsTell' /\ RecordersCool' /\ CooldownRespected'
      BY <1>1, <1>4, CooldownFrame DEF store, history
<1> QED BY <1>3, <1>4, <1>5, <1>6, <1>7

LEMMA CrashStep ==
    ASSUME ContextAssumption, CInv, NEW a \in Agents, Crash(a)
    PROVE  CInv'
<1> USE DEF CInv
<1>1. /\ UNCHANGED <<config, sid, old, sessions, cooling, owed, hasty>>
      /\ Restarted(a)
      /\ locked' = [locked EXCEPT ![a] = 0]
      /\ alone' = alone \ {a}
      /\ pc' = [pc EXCEPT ![a] = "idle"] /\ pc[a] \in Reasons
      BY DEF Crash
<1>2. mishaps' \in Nat /\ mishaps' # 0 BY MishapCounts DEF Crash, Shapes
<1>3. /\ lock' \in Seq(Agents \cup {NoOne, Dead}) /\ Len(lock') = Len(lock)
      /\ \A t \in 1..Len(lock) : lock[t] # a => lock'[t] = lock[t]
  <2>1. CASE locked[a] # 0 /\ lock[locked[a]] = a
    <3>1. locked[a] \in 1..Len(lock) BY <2>1 DEF Shapes
    <3>2. lock' = [lock EXCEPT ![locked[a]] = Dead] BY <2>1 DEF Crash
    <3>3. PICK t \in 1..Len(lock) : t = locked[a] BY <3>1
    <3>4. lock[t] = a /\ lock' = [lock EXCEPT ![t] = Dead] BY <2>1, <3>2, <3>3
    <3>5. /\ lock' \in Seq(Agents \cup {NoOne, Dead}) /\ Len(lock') = Len(lock)
          /\ \A u \in 1..Len(lock) : lock'[u] = IF u = t THEN Dead ELSE lock[u]
          BY <3>4, LockUpdate
    <3> QED BY <3>4, <3>5
  <2>2. CASE ~(locked[a] # 0 /\ lock[locked[a]] = a)
    BY <2>2 DEF Crash, Shapes
  <2> QED BY <2>1, <2>2
<1>4. Shapes' BY <1>1, <1>2, <1>3 DEF Shapes, Pcs
<1>5. /\ Compressors'
      /\ \A b \in Agents : <<b, sid'[b]>> \in owed => compressor'[b].cooling
      BY <1>1, RestartedCools
<1>6. RowsAreHeld' /\ LocksAreOfOrigins'
  <2>1. \A b \in Agents \ {a} : /\ pc'[b] = pc[b] /\ locked'[b] = locked[b]
                                /\ old'[b] = old[b] /\ sid'[b] = sid[b]
                                /\ b \in alone' <=> b \in alone
        BY <1>1 DEF Shapes
  <2>2. /\ alone' \subseteq Agents /\ a \notin alone'
        /\ Len(lock') \in Nat /\ Len(lock') >= Len(lock)
        BY <1>1, <1>3 DEF Shapes
  <2>3. old'[a] = 0 BY <1>1 DEF LocksAreOfOrigins, Reasons
  <2>4. \A t \in 1..Len(lock) : lock[t] \in alone \ {a} => lock'[t] = lock[t] BY <1>3
  <2> QED BY <1>2, <2>1, <2>2, <2>3, <2>4, OthersKeepLocks
<1>7. \A b \in Agents : pc'[b] = "absent" => pc[b] = "absent" BY <1>1 DEF Shapes
<1>8. RowsTell' /\ RecordersCool' /\ CooldownRespected' BY <1>1, <1>5, <1>7, CooldownFrame
<1> QED BY <1>4, <1>5, <1>6, <1>8

(* Which sessions the failures of other sessions tell of. *)
LEMMA ElsewhereTells ==
    ASSUME RowsTell, NEW s
    PROVE  {f[2] : f \in Elsewhere(s)} = cooling \ {s}
BY DEF RowsTell, Elsewhere

LEMMA ExpireStep ==
    ASSUME ContextAssumption, CInv, NEW s \in DOMAIN lock, Expire(s)
    PROVE  CInv'
<1> USE DEF CInv
<1>1. /\ UNCHANGED <<counters, transcript, pc, sid, locked, old, sessions, lock, alone, hasty>>
      /\ cooling' = cooling \ {s} /\ owed' = Elsewhere(s)
      BY DEF Expire
<1>2. owed' \subseteq owed BY <1>1 DEF Elsewhere
<1>3. Shapes' BY <1>1, <1>2 DEF Shapes, counters
<1>4. /\ DOMAIN compressor' = Agents
      /\ \A b \in Agents : \/ compressor'[b] = compressor[b]
                           \/ sid[b] = s /\ compressor'[b] = [compressor[b] EXCEPT !.cooling = FALSE]
      BY DEF Expire
<1>5. Compressors'
  <2>1. \A b \in Agents : LET c == [compressor[b] EXCEPT !.cooling = FALSE]
                          IN  DOMAIN c = Fields /\ c.count \in Nat /\ c.cooling \in BOOLEAN
        BY DEF Compressors, Fields
  <2> QED BY <1>4, <2>1 DEF Compressors
<1>6. RowsAreHeld' /\ LocksAreOfOrigins' BY <1>1, LocksFrame DEF counters
<1>7. RowsTell' BY <1>1, ElsewhereTells DEF RowsTell
<1>8. RecordersCool'
  <2>1. \A b \in Agents : <<b, sid[b]>> \in owed' => <<b, sid[b]>> \in owed /\ sid[b] # s
        BY <1>1 DEF Elsewhere
  <2>2. \A b \in Agents : <<b, sid'[b]>> \in owed' => compressor'[b].cooling
        BY <1>1, <1>4, <2>1 DEF RecordersCool
  <2>3. \A f \in owed' : pc'[f[1]] # "absent" BY <1>1, <1>2 DEF RecordersCool
  <2> QED BY <2>2, <2>3 DEF RecordersCool
<1>9. CooldownRespected' BY <1>1 DEF CooldownRespected
<1> QED BY <1>3, <1>5, <1>6, <1>7, <1>8, <1>9

-----------------------------------------------------------------------------
(* The summary *)

LEMMA SummarizedShape ==
    ASSUME NEW c, NEW first, NEW second, NEW covers,
           DOMAIN c = Fields, c.count \in Nat, c.cooling \in BOOLEAN,
           NEW s, s = Summarized(c, first, second, covers)
    PROVE  DOMAIN s = Fields /\ s.count \in Nat /\ s.cooling \in BOOLEAN
<1> DEFINE retried == RetriesOnMain(c, first)
           result == IF retried THEN second ELSE first
           auth == c.auth \/ first = "auth" \/ (retried /\ second = "auth")
           good == [c EXCEPT !.previous = covers, !.cooling = FALSE, !.auth = FALSE, !.network = FALSE,
                             !.aux = @ /\ ~retried, !.fellBack = FALSE]
           bad == [c EXCEPT !.cooling = TRUE, !.auth = auth, !.network = @ \/ result = "network",
                            !.aux = @ /\ ~retried, !.fellBack = @ \/ retried]
<1>1. s = IF result = "ok" THEN good ELSE bad BY DEF Summarized
<1> HIDE DEF retried, result, auth
<1>2. DOMAIN good = Fields /\ good.count = c.count /\ good.cooling = FALSE BY DEF Fields
<1>3. DOMAIN bad = Fields /\ bad.count = c.count /\ bad.cooling = TRUE BY DEF Fields
<1> HIDE DEF good, bad
<1> QED BY <1>1, <1>2, <1>3

(* Nobody is asked during the cooldown, which the compressor then keeps. *)
LEMMA AfterSummaryShape ==
    ASSUME NEW c, NEW covers, NEW s \in AfterSummary(c, covers),
           DOMAIN c = Fields, c.count \in Nat, c.cooling \in BOOLEAN
    PROVE  /\ DOMAIN s = Fields /\ s.count \in Nat /\ s.cooling \in BOOLEAN
           /\ c.cooling => s.cooling
<1>1. CASE c.cooling BY <1>1 DEF AfterSummary
<1>2. CASE ~c.cooling
  <2>1. PICK p \in Outcomes \X Outcomes : s = Summarized(c, p[1], p[2], covers)
        BY <1>2 DEF AfterSummary
  <2> QED BY <1>2, <2>1, SummarizedShape
<1> QED BY <1>1, <1>2

LEMMA JudgedShape ==
    ASSUME NEW c, NEW before, NEW after,
           DOMAIN c = Fields, c.count \in Nat, c.cooling \in BOOLEAN,
           NEW s, s = Judged(c, before, after)
    PROVE  DOMAIN s = Fields /\ s.count \in Nat /\ s.cooling = c.cooling
<1> DEFINE n == IF (before - after) * 10 < before THEN c.ineffective + 1 ELSE 0
<1>1. s = [c EXCEPT !.count = @ + 1, !.ineffective = n] BY DEF Judged
<1> HIDE DEF n
<1> QED BY <1>1 DEF Fields

(* What a compaction leaves behind: the compressor, the failures recorded,   *)
(* and the place where the agent goes on.                                    *)
FailuresAfter(a, d, due, stored) ==
    \/ owed' = due /\ cooling' = stored /\ (<<a, sid[a]>> \in due => d.cooling)
    \/ owed' = Elsewhere(sid[a]) \cup {<<a, sid[a]>>} /\ cooling' = stored \cup {sid[a]} /\ d.cooling
    \/ owed' = Elsewhere(sid[a]) /\ cooling' = stored \ {sid[a]}

LEMMA SummarizeOutcome ==
    ASSUME CInv, NEW a \in Agents, Summarize(a)
    PROVE  \E d, due, stored :
               /\ compressor' = [compressor EXCEPT ![a] = d]
               /\ DOMAIN d = Fields /\ d.count \in Nat /\ d.cooling \in BOOLEAN
               /\ \/ due = owed /\ stored = cooling
                  \/ due = Elsewhere(sid[a]) /\ stored = cooling \ {sid[a]}
               /\ FailuresAfter(a, d, due, stored)
               /\ \/ hasty' = hasty
                  \/ hasty' = hasty \cup Ignored(a, due) /\ <<a, sid[a]>> \notin due
               /\ \/ Release(a)
                  \/ Split(a) /\ UNCHANGED <<lock, locked, alone>>
<1> DEFINE forced == pc[a] = "manual"
           c0 == IF forced THEN [compressor[a] EXCEPT !.cooling = FALSE] ELSE compressor[a]
           due0 == IF forced THEN Elsewhere(sid[a]) ELSE owed
           stored0 == IF forced THEN cooling \ {sid[a]} ELSE cooling
<1>1. PICK c : c = c0 OBVIOUS
<1>2. PICK due : due = due0 OBVIOUS
<1>3. PICK stored : stored = stored0 OBVIOUS
<1>4. DOMAIN c = Fields /\ c.count \in Nat /\ c.cooling \in BOOLEAN
  <2>1. CASE forced BY <1>1, <2>1 DEF CInv, Compressors, Fields
  <2>2. CASE ~forced BY <1>1, <2>2 DEF CInv, Compressors
  <2> QED BY <2>1, <2>2
<1>5. <<a, sid[a]>> \in due => c.cooling
  <2>1. CASE forced BY <1>2, <2>1 DEF Elsewhere
  <2>2. CASE ~forced BY <1>1, <1>2, <2>2 DEF CInv, RecordersCool
  <2> QED BY <2>1, <2>2
<1>6. \/ due = owed /\ stored = cooling
      \/ due = Elsewhere(sid[a]) /\ stored = cooling \ {sid[a]}
      BY <1>2, <1>3
<1>7. PICK w \in {Window(a, c)} :
          \/ /\ NoMiddle(a, c, w)
             /\ cooling' = stored /\ owed' = due
             /\ UNCHANGED hasty
          \/ /\ ~w.empty
             /\ \E s \in AfterSummary([c EXCEPT !.previous = w.known], Told(w)) :
                   /\ IF Aborts(s)
                      THEN /\ compressor' = [compressor EXCEPT ![a] = s]
                           /\ UNCHANGED transcript
                           /\ Release(a)
                      ELSE Compact(a, s, w)
                   /\ CASE c.cooling -> cooling' = stored /\ owed' = due
                        [] ~c.cooling /\ s.cooling ->
                             /\ cooling' = stored \cup {sid[a]}
                             /\ owed' = Elsewhere(sid[a]) \cup {<<a, sid[a]>>}
                        [] OTHER     -> cooling' = stored \ {sid[a]} /\ owed' = Elsewhere(sid[a])
             /\ hasty' = IF c.cooling THEN hasty ELSE hasty \cup Ignored(a, due)
      BY <1>1, <1>2, <1>3 DEF Summarize
<1> HIDE DEF c0, due0, stored0
<1>8. CASE /\ NoMiddle(a, c, w)
           /\ cooling' = stored /\ owed' = due
           /\ UNCHANGED hasty
  <2>1. PICK d : d = IF w.short THEN c ELSE [c EXCEPT !.ineffective = @ + 1] OBVIOUS
  <2>2. DOMAIN d = Fields /\ d.count \in Nat /\ d.cooling \in BOOLEAN /\ d.cooling = c.cooling
    <3>1. CASE w.short BY <1>4, <2>1, <3>1
    <3>2. CASE ~w.short BY <1>4, <2>1, <3>2 DEF Fields
    <3> QED BY <3>1, <3>2
  <2>3. /\ compressor' = [compressor EXCEPT ![a] = d]
        /\ Split(a) /\ UNCHANGED <<lock, locked, alone>>
        BY <1>8, <2>1 DEF NoMiddle
  <2>4. FailuresAfter(a, d, due, stored) BY <1>5, <1>8, <2>2 DEF FailuresAfter
  <2> QED BY <1>6, <1>8, <2>2, <2>3, <2>4
<1>9. ASSUME NEW s \in AfterSummary([c EXCEPT !.previous = w.known], Told(w)),
             IF Aborts(s)
             THEN /\ compressor' = [compressor EXCEPT ![a] = s]
                  /\ UNCHANGED transcript
                  /\ Release(a)
             ELSE Compact(a, s, w),
             CASE c.cooling -> cooling' = stored /\ owed' = due
               [] ~c.cooling /\ s.cooling ->
                    /\ cooling' = stored \cup {sid[a]}
                    /\ owed' = Elsewhere(sid[a]) \cup {<<a, sid[a]>>}
               [] OTHER     -> cooling' = stored \ {sid[a]} /\ owed' = Elsewhere(sid[a]),
             hasty' = IF c.cooling THEN hasty ELSE hasty \cup Ignored(a, due)
      PROVE  \E d :
                 /\ compressor' = [compressor EXCEPT ![a] = d]
                 /\ DOMAIN d = Fields /\ d.count \in Nat /\ d.cooling \in BOOLEAN
                 /\ FailuresAfter(a, d, due, stored)
                 /\ \/ hasty' = hasty
                    \/ hasty' = hasty \cup Ignored(a, due) /\ <<a, sid[a]>> \notin due
                 /\ \/ Release(a)
                    \/ Split(a) /\ UNCHANGED <<lock, locked, alone>>
  <2>1. PICK b : b = [c EXCEPT !.previous = w.known] OBVIOUS
  <2>2. DOMAIN b = Fields /\ b.count \in Nat /\ b.cooling \in BOOLEAN /\ b.cooling = c.cooling
        BY <1>4, <2>1 DEF Fields
  <2>3. PICK told : told = Told(w) OBVIOUS
  <2>4. s \in AfterSummary(b, told) BY <1>9, <2>1, <2>3
  <2>5. /\ DOMAIN s = Fields /\ s.count \in Nat /\ s.cooling \in BOOLEAN
        /\ c.cooling => s.cooling
        BY <2>2, <2>4, AfterSummaryShape
  <2>6. PICK d : /\ compressor' = [compressor EXCEPT ![a] = d]
                 /\ DOMAIN d = Fields /\ d.count \in Nat /\ d.cooling = s.cooling
                 /\ \/ Release(a)
                    \/ Split(a) /\ UNCHANGED <<lock, locked, alone>>
    <3>1. CASE Aborts(s) BY <1>9, <2>5, <3>1
    <3>2. CASE ~Aborts(s)
      <4>1. PICK before, after : compressor' = [compressor EXCEPT ![a] = Judged(s, before, after)]
            BY <1>9, <3>2 DEF Compact
      <4>2. PICK d : d = Judged(s, before, after) OBVIOUS
      <4>3. DOMAIN d = Fields /\ d.count \in Nat /\ d.cooling = s.cooling
            BY <2>5, <4>2, JudgedShape
      <4>4. Split(a) /\ UNCHANGED <<lock, locked, alone>> BY <1>9, <3>2 DEF Compact
      <4> QED BY <4>1, <4>2, <4>3, <4>4
    <3> QED BY <3>1, <3>2
  <2>7. FailuresAfter(a, d, due, stored)
    <3>1. CASE c.cooling BY <1>9, <2>5, <2>6, <3>1 DEF FailuresAfter
    <3>2. CASE ~c.cooling BY <1>9, <2>6, <3>2 DEF FailuresAfter
    <3> QED BY <3>1, <3>2
  <2>8. \/ hasty' = hasty
        \/ hasty' = hasty \cup Ignored(a, due) /\ <<a, sid[a]>> \notin due
        BY <1>5, <1>9
  <2> QED BY <2>5, <2>6, <2>7, <2>8
<1> QED BY <1>6, <1>7, <1>8, <1>9

LEMMA SummarizeStep ==
    ASSUME ContextAssumption, CInv, NEW a \in Agents, Summarize(a)
    PROVE  CInv'
<1> USE DEF CInv
<1>1. UNCHANGED <<counters, sid, old, sessions>> /\ pc[a] \in Reasons BY DEF Summarize
<1>2. PICK d, due, stored :
               /\ compressor' = [compressor EXCEPT ![a] = d]
               /\ DOMAIN d = Fields /\ d.count \in Nat /\ d.cooling \in BOOLEAN
               /\ \/ due = owed /\ stored = cooling
                  \/ due = Elsewhere(sid[a]) /\ stored = cooling \ {sid[a]}
               /\ FailuresAfter(a, d, due, stored)
               /\ \/ hasty' = hasty
                  \/ hasty' = hasty \cup Ignored(a, due) /\ <<a, sid[a]>> \notin due
               /\ \/ Release(a)
                  \/ Split(a) /\ UNCHANGED <<lock, locked, alone>>
      BY SummarizeOutcome
<1>3. /\ Compressors' /\ compressor'[a] = d
      /\ \A b \in Agents \ {a} : compressor'[b] = compressor[b]
      BY <1>2, CompressorUpdate
<1>4. old[a] = 0 /\ Compacts(a) /\ sid[a] \in 1..Len(sessions)
      BY <1>1 DEF LocksAreOfOrigins, Compacts, Reasons, Shapes
<1>5. /\ pc' \in [Agents -> Pcs]
      /\ lock' \in Seq(Agents \cup {NoOne, Dead}) /\ Len(lock') = Len(lock)
      /\ locked' \in [Agents -> 0..Len(sessions)]
      /\ alone' \subseteq Agents
      /\ RowsAreHeld' /\ LocksAreOfOrigins'
      /\ \A b \in Agents : pc'[b] = "absent" => pc[b] = "absent"
  <2>1. CASE Release(a)
    <3>1. old' = [old EXCEPT ![a] = 0] BY <1>1, <1>4 DEF Shapes
    <3>2. UNCHANGED <<sid, sessions, mishaps>> BY <1>1 DEF counters
    <3>3. \A b \in Agents : pc'[b] = "absent" => pc[b] = "absent" BY <2>1 DEF Release, Shapes
    <3> QED BY <2>1, <3>1, <3>2, <3>3, ReleaseKeepsLocks
  <2>2. CASE Split(a) /\ UNCHANGED <<lock, locked, alone>>
    <3>1. PICK there \in {"archive", "end"} : pc' = [pc EXCEPT ![a] = there]
          BY <2>2 DEF Split
    <3>2. there \in Pcs \ {"absent", "idle"} BY DEF Pcs
    <3>3. RowsAreHeld' /\ LocksAreOfOrigins'
          BY <1>1, <1>4, <2>2, <3>1, <3>2, PlaceStep DEF counters
    <3>4. \A b \in Agents : pc'[b] = "absent" => pc[b] = "absent" BY <3>1 DEF Shapes
    <3> QED BY <2>2, <3>1, <3>2, <3>3, <3>4 DEF Shapes
  <2> QED BY <1>2, <2>1, <2>2
<1>6. \A s : Elsewhere(s) \subseteq owed BY DEF Elsewhere
<1>7. owed' \subseteq owed \cup {<<a, sid[a]>>} BY <1>2, <1>6 DEF FailuresAfter
<1>8. Shapes'
  <2>1. owed' \subseteq Agents \X (1..Len(sessions)) BY <1>4, <1>7 DEF Shapes
  <2>2. cooling' \subseteq 1..Len(sessions) BY <1>2, <1>4 DEF FailuresAfter, Shapes
  <2> QED BY <1>1, <1>5, <2>1, <2>2 DEF Shapes, counters
<1>9. RowsTell'
  <2>1. {f[2] : f \in Elsewhere(sid[a])} = cooling \ {sid[a]} BY DEF RowsTell, Elsewhere
  <2>2. stored = {f[2] : f \in due} BY <1>2, <2>1 DEF RowsTell
  <2>3. stored \ {sid[a]} = cooling \ {sid[a]} /\ stored \cup {sid[a]} = (cooling \ {sid[a]}) \cup {sid[a]}
        BY <1>2
  <2>4. CASE owed' = due /\ cooling' = stored BY <2>2, <2>4 DEF RowsTell
  <2>5. CASE owed' = Elsewhere(sid[a]) \cup {<<a, sid[a]>>} /\ cooling' = stored \cup {sid[a]}
    <3>1. {f[2] : f \in owed'} = {f[2] : f \in Elsewhere(sid[a])} \cup {sid[a]}
      <4>1. <<a, sid[a]>> \in owed' /\ <<a, sid[a]>>[2] = sid[a] BY <2>5
      <4>2. \A f \in owed' : f \in Elsewhere(sid[a]) \/ f[2] = sid[a] BY <2>5
      <4>3. Elsewhere(sid[a]) \subseteq owed' BY <2>5
      <4> QED BY <4>1, <4>2, <4>3
    <3> QED BY <2>1, <2>3, <2>5, <3>1 DEF RowsTell
  <2>6. CASE owed' = Elsewhere(sid[a]) /\ cooling' = stored \ {sid[a]}
    BY <2>1, <2>3, <2>6 DEF RowsTell
  <2> QED BY <1>2, <2>4, <2>5, <2>6 DEF FailuresAfter
<1>10. RecordersCool'
  <2>1. UNCHANGED sid BY <1>1
  <2>2. <<a, sid[a]>> \in owed' => d.cooling
    <3>1. <<a, sid[a]>> \notin Elsewhere(sid[a]) BY DEF Elsewhere
    <3> QED BY <1>2, <3>1 DEF FailuresAfter
  <2>3. \A b \in Agents \ {a} : <<b, sid[b]>> \in owed' => compressor'[b].cooling
        BY <1>3, <1>7 DEF RecordersCool
  <2>4. \A f \in owed' : pc'[f[1]] # "absent"
    <3> SUFFICES ASSUME NEW f \in owed' PROVE pc'[f[1]] # "absent" OBVIOUS
    <3>1. CASE f \in owed
      <4>1. f[1] \in Agents /\ pc[f[1]] # "absent" BY <3>1 DEF Shapes, RecordersCool
      <4> QED BY <1>5, <4>1
    <3>2. CASE f = <<a, sid[a]>>
      <4>1. pc[a] # "absent" BY <1>1 DEF Reasons
      <4> QED BY <1>5, <3>2, <4>1
    <3> QED BY <1>7, <3>1, <3>2
  <2> QED BY <1>3, <2>1, <2>2, <2>3, <2>4 DEF RecordersCool
<1>11. CooldownRespected'
  <2>1. <<a, sid[a]>> \notin due => "own" \notin Ignored(a, due)
    <3> SUFFICES ASSUME "own" \in Ignored(a, due) PROVE <<a, sid[a]>> \in due
        OBVIOUS
    <3>1. PICK f \in due : f[2] = sid[a] /\ f[1] = a BY DEF Ignored
    <3>2. f \in Agents \X (1..Len(sessions)) BY <1>2, <1>6 DEF Shapes
    <3> QED BY <3>1, <3>2
  <2> QED BY <1>2, <2>1 DEF CooldownRespected
<1> QED BY <1>3, <1>5, <1>8, <1>9, <1>10, <1>11

-----------------------------------------------------------------------------
(* Transcripts: the numbers *)

(* A bounded set of numbers has a least and a greatest. *)
LEMMA LeastOf ==
    ASSUME NEW lo \in Int, NEW S, S # {}, \A y \in S : y \in Int /\ y >= lo
    PROVE  Min(S) \in S /\ \A y \in S : Min(S) <= y
<1> DEFINE D == {y - lo : y \in S}
           less == OpToRel(<, Nat)
<1>1. D \subseteq Nat /\ D # {}
  <2>1. \A y \in S : y - lo \in Nat OBVIOUS
  <2> QED BY <2>1
<1>2. IsWellFoundedOn(less, Nat) BY NatLessThanWellFounded, Zenon
<1>3. PICK d \in D : \A e \in D : <<e, d>> \notin less
  <2> HIDE DEF D, less
  <2> QED BY <1>1, <1>2, WFMin
<1>4. \A e \in D : d <= e
  <2>1. \A e \in D : ~(e < d)
    <3> HIDE DEF D
    <3> QED BY <1>1, <1>3 DEF OpToRel
  <2>2. \A e \in D : e \in Nat /\ d \in Nat BY <1>1
  <2> HIDE DEF D
  <2> QED BY <2>1, <2>2
<1>5. PICK x \in S : d = x - lo OBVIOUS
<1>6. ASSUME NEW y \in S PROVE x <= y
  <2>1. y - lo \in D OBVIOUS
  <2>2. d <= y - lo
    <3> HIDE DEF D
    <3> QED BY <1>4, <2>1
  <2>3. x \in Int /\ y \in Int OBVIOUS
  <2> QED BY <1>5, <2>2, <2>3
<1>7. \E z \in S : \A y \in S : z =< y BY <1>6
<1> QED BY <1>7, Zenon DEF Min

LEMMA GreatestOf ==
    ASSUME NEW hi \in Int, NEW S, S # {}, \A y \in S : y \in Int /\ y <= hi
    PROVE  Max(S) \in S /\ \A y \in S : y <= Max(S)
<1> DEFINE T == {hi - y : y \in S}
<1>1. T # {} /\ \A z \in T : z \in Int /\ z >= 0 OBVIOUS
<1>2. PICK t : t = Min(T) OBVIOUS
<1>3. t \in T /\ \A z \in T : t <= z
  <2> HIDE DEF T
  <2> QED BY <1>1, <1>2, LeastOf
<1>4. PICK x \in S : t = hi - x BY <1>3
<1>5. ASSUME NEW y \in S PROVE y <= x
  <2>1. hi - y \in T OBVIOUS
  <2>2. t <= hi - y
    <3> HIDE DEF T
    <3> QED BY <1>3, <2>1
  <2>3. x \in Int /\ y \in Int OBVIOUS
  <2> QED BY <1>4, <2>2, <2>3
<1>6. \E z \in S : \A y \in S : z >= y BY <1>5
<1>7. Max(S) \in S /\ \A y \in S : Max(S) >= y BY <1>6, Zenon DEF Max
<1> QED BY <1>7

(* The extremes of the sets that the boundaries take them of are numbers.    *)
LEMMA MaxOfTwo ==
    ASSUME NEW x \in Int, NEW y \in Int
    PROVE  /\ Max({x, y}) \in Int /\ Max({x, y}) >= x /\ Max({x, y}) >= y
           /\ Max({x, y}) \in {x, y}
<1>1. \E z \in {x, y} : \A v \in {x, y} : z >= v OBVIOUS
<1>2. Max({x, y}) \in {x, y} /\ \A v \in {x, y} : Max({x, y}) >= v BY <1>1, Zenon DEF Max
<1> QED BY <1>2

LEMMA MinOfTwo ==
    ASSUME NEW x \in Int, NEW y \in Int
    PROVE  Min({x, y}) \in Int
<1>1. \E z \in {x, y} : \A v \in {x, y} : z =< v OBVIOUS
<1>2. Min({x, y}) \in {x, y} BY <1>1, Zenon DEF Min
<1> QED BY <1>2

LEMMA MinOfThree ==
    ASSUME NEW x \in Int, NEW y \in Int, NEW z \in Int
    PROVE  Min({x, y, z}) \in Int
<1>1. \E w \in {x, y, z} : \A v \in {x, y, z} : w =< v OBVIOUS
<1>2. Min({x, y, z}) \in {x, y, z} BY <1>1, Zenon DEF Min
<1> QED BY <1>2

(* The extreme of a range, or the value that stands in for an empty one.     *)
LEMMA Extremes ==
    ASSUME NEW lo \in Int, NEW hi \in Int, NEW S, S \subseteq lo..hi, NEW d \in Int
    PROVE  /\ HighestOr(S, d) \in Int /\ HighestOr(S, d) \in S \cup {d}
           /\ LowestOr(S, d) \in Int /\ LowestOr(S, d) \in S \cup {d}
           /\ S # {} => HighestOr(S, d) \in S /\ LowestOr(S, d) \in S
           /\ \A y \in S : LowestOr(S, d) <= y /\ y <= HighestOr(S, d)
<1>1. CASE S = {} BY <1>1 DEF HighestOr, LowestOr
<1>2. CASE S # {}
  <2>1. \A y \in S : y \in Int /\ y >= lo /\ y <= hi OBVIOUS
  <2>2. Min(S) \in S /\ \A y \in S : Min(S) <= y BY <1>2, <2>1, LeastOf
  <2>3. Max(S) \in S /\ \A y \in S : y <= Max(S) BY <1>2, <2>1, GreatestOf
  <2> QED BY <1>2, <2>1, <2>2, <2>3 DEF HighestOr, LowestOr
<1> QED BY <1>1, <1>2

-----------------------------------------------------------------------------
(* Transcripts: the boundaries *)

(* A boundary moved forward stays within the transcript, and one moved       *)
(* backward remains a number.                                                *)
LEMMA ForwardBoundary ==
    ASSUME NEW m, Len(m) \in Nat, NEW b \in Int
    PROVE  /\ AlignForward(m, b) \in Int
           /\ b >= 0 => AlignForward(m, b) \in 0..Len(m)
<1> DEFINE S == {k \in b..Len(m) - 1 : m[k + 1].role # "tool"}
<1>1. S \subseteq b..Len(m) - 1 OBVIOUS
<1>2. Len(m) \in Int /\ Len(m) - 1 \in Int OBVIOUS
<1>3. LowestOr(S, Len(m)) \in Int /\ LowestOr(S, Len(m)) \in S \cup {Len(m)}
  <2> HIDE DEF S
  <2> QED BY <1>1, <1>2, Extremes, ZenonT(60)
<1>4. AlignForward(m, b) = LowestOr(S, Len(m)) BY DEF AlignForward
<1>5. b >= 0 => S \cup {Len(m)} \subseteq 0..Len(m) OBVIOUS
<1> HIDE DEF S
<1> QED BY <1>3, <1>4, <1>5

LEMMA BackwardBoundary ==
    ASSUME NEW m, NEW b \in Int
    PROVE  AlignBackward(m, b) \in Int
<1> DEFINE S == {k \in 1..b : m[k].role # "tool"}
<1>1. S \subseteq 1..b /\ 0 \in Int /\ 1 \in Int OBVIOUS
<1>2. HighestOr(S, 0) \in Int
  <2> HIDE DEF S
  <2> QED BY <1>1, Extremes
<1>3. AlignBackward(m, b) = HighestOr(S, 0) - 1 \/ AlignBackward(m, b) = b BY DEF AlignBackward
<1> HIDE DEF S
<1> QED BY <1>2, <1>3

(* Each of the cuts behind the head is a number, whichever of its            *)
(* alternatives applies (_find_tail_cut_by_tokens and the two that keep the  *)
(* last turns).                                                              *)
LEMMA FloorIsNumber ==
    ASSUME NEW m, Len(m) \in Nat, NEW head \in Int
    PROVE  Floor(m, head) \in Int
<1> DEFINE room == Max({0, Len(m) - head - 1})
<1>1. room \in Int
  <2>1. 0 \in Int /\ Len(m) - head - 1 \in Int OBVIOUS
  <2> QED BY <2>1, MaxOfTwo
<1>2. Floor(m, head) = IF room > 1 THEN Min({Max({3, ProtectLast}), Max({3, room - 2}), room}) ELSE 0
      BY DEF Floor
<1> HIDE DEF room
<1>3. 3 \in Int /\ ProtectLast \in Int /\ room - 2 \in Int BY <1>1, CompactionAssumption
<1>4. Max({3, ProtectLast}) \in Int /\ Max({3, room - 2}) \in Int BY <1>3, MaxOfTwo
<1>5. Min({Max({3, ProtectLast}), Max({3, room - 2}), room}) \in Int BY <1>1, <1>4, MinOfThree
<1> QED BY <1>2, <1>5

LEMMA CutIsNumber ==
    ASSUME NEW m, Len(m) \in Nat, NEW head \in Int
    PROVE  BudgetCut(m, head) \in Int
<1>1. PICK floor : floor = Floor(m, head) OBVIOUS
<1>2. PICK ceiling : ceiling = (TailBudget * 3) \div 2 OBVIOUS
<1>3. \A budget : Overflows(m, head, floor, budget) \subseteq head..Len(m) - 1 BY DEF Overflows
<1> DEFINE S == {k + 1 : k \in Overflows(m, head, floor, ceiling)}
           T == Overflows(m, head, floor, TailBudget)
           walk == HighestOr(S, head)
           cut == IF walk <= head /\ TokensAfter(m, head) \in 1..ceiling
                  THEN HighestOr(T, head) ELSE walk
           kept == Min({cut, Len(m) - floor})
           b == IF kept <= head THEN Max({Len(m) - floor, head + 1}) ELSE kept
<1>4. BudgetCut(m, head) = AlignBackward(m, b) BY <1>1, <1>2 DEF BudgetCut
<1>5. walk \in Int
  <2>1. S \subseteq head + 1..Len(m) /\ head + 1 \in Int /\ Len(m) \in Int BY <1>3
  <2> HIDE DEF S
  <2> QED BY <2>1, Extremes
<1>6. HighestOr(T, head) \in Int
  <2>1. T \subseteq head..Len(m) - 1 BY <1>3
  <2>2. Len(m) - 1 \in Int OBVIOUS
  <2> HIDE DEF T
  <2> QED BY <2>1, <2>2, Extremes, ZenonT(60)
<1>7. cut \in Int
  <2> HIDE DEF walk, T
  <2> QED BY <1>5, <1>6
<1>8. floor \in Int /\ Len(m) - floor \in Int BY <1>1, FloorIsNumber
<1> HIDE DEF cut
<1>9. kept \in Int BY <1>7, <1>8, MinOfTwo
<1>10. Max({Len(m) - floor, head + 1}) \in Int
  <2>1. head + 1 \in Int OBVIOUS
  <2> QED BY <1>8, <2>1, MaxOfTwo
<1> HIDE DEF kept
<1>11. b \in Int BY <1>9, <1>10
<1> HIDE DEF b
<1> QED BY <1>4, <1>11, BackwardBoundary

LEMMA UserCutIsNumber ==
    ASSUME NEW m, Len(m) \in Nat, NEW head \in Int, NEW cut \in Int
    PROVE  KeepLastUser(m, cut, head) \in Int
<1> DEFINE S == {k \in head + 1..Len(m) : m[k].role = "user" /\ ~m[k].summary}
<1>1. S \subseteq head + 1..Len(m) /\ head + 1 \in Int /\ Len(m) \in Int /\ 0 \in Int OBVIOUS
<1>2. HighestOr(S, 0) \in Int
  <2> HIDE DEF S
  <2> QED BY <1>1, Extremes
<1>3. PICK user : user = LastUser(m, head) OBVIOUS
<1>4. user \in Int BY <1>2, <1>3 DEF LastUser
<1>5. PairEnd(m, user) \in Int
  <2>1. user + 2 \in Int /\ user + 1 \in Int BY <1>4
  <2>2. AlignForward(m, user + 2) \in Int BY <2>1, ForwardBoundary
  <2> QED BY <2>1, <2>2 DEF PairEnd
<1>6. Max({PairEnd(m, user), head + 1}) \in Int BY <1>1, <1>5, MaxOfTwo
<1>7. KeepLastUser(m, cut, head) = IF user < 0 \/ user >= cut THEN cut
                                   ELSE IF head + 1 <= user THEN user
                                   ELSE Max({PairEnd(m, user), head + 1})
      BY <1>3 DEF KeepLastUser
<1> QED BY <1>4, <1>6, <1>7

LEMMA AssistantCutIsNumber ==
    ASSUME NEW m, Len(m) \in Nat, NEW head \in Int, NEW cut \in Int
    PROVE  KeepLastAssistant(m, cut, head) \in Int
<1> DEFINE replies == {k \in head + 1..Len(m) : m[k].role = "assistant"}
           said == {k \in replies : m[k].text}
           S == IF said # {} THEN said ELSE replies
<1>1. S \subseteq head + 1..Len(m) /\ head + 1 \in Int /\ Len(m) \in Int /\ 0 \in Int OBVIOUS
<1>2. HighestOr(S, 0) \in Int
  <2> HIDE DEF S
  <2> QED BY <1>1, Extremes
<1>3. PICK last : last = LastAssistant(m, head) OBVIOUS
<1>4. last = HighestOr(S, 0) - 1 BY <1>3 DEF LastAssistant
<1> HIDE DEF S
<1>5. last \in Int BY <1>2, <1>4
<1>6. Max({AlignBackward(m, last), head + 1}) \in Int
  <2>1. AlignBackward(m, last) \in Int BY <1>5, BackwardBoundary
  <2> QED BY <1>1, <2>1, MaxOfTwo
<1> QED BY <1>3, <1>5, <1>6 DEF KeepLastAssistant

LEMMA TailBoundary ==
    ASSUME NEW m, Len(m) \in Nat, NEW head \in Int
    PROVE  TailCut(m, head) \in Int
<1>1. BudgetCut(m, head) \in Int BY CutIsNumber
<1>2. KeepLastUser(m, BudgetCut(m, head), head) \in Int BY <1>1, UserCutIsNumber
<1>3. KeepLastAssistant(m, KeepLastUser(m, BudgetCut(m, head), head), head) \in Int
      BY <1>2, AssistantCutIsNumber
<1>4. head + 1 \in Int OBVIOUS
<1> QED BY <1>3, <1>4, MaxOfTwo DEF TailCut

-----------------------------------------------------------------------------
(* Transcripts: the order of calls and results *)

Parts == {"role", "text", "calls", "of", "weight", "summary", "asks", "covers"}
IsMessage(x, n) ==
    /\ DOMAIN x = Parts
    /\ x.calls \subseteq 1..n
    /\ x.role # "assistant" => x.calls = {}

Listed(m, n) == m \in Seq(Range(m)) /\ \A k \in 1..Len(m) : IsMessage(m[k], n)

Ordered(m) == \A j, k \in 1..Len(m) : m[k].role = "tool" /\ m[k].of \in m[j].calls => j < k

Paired(m) ==
    /\ \A k \in 1..Len(m) : m[k].role = "tool" => \E j \in 1..Len(m) : m[k].of \in m[j].calls
    /\ \A j \in 1..Len(m) : \A c \in m[j].calls :
          \E k \in 1..Len(m) : m[k].role = "tool" /\ m[k].of = c

Intact(m, n) == Listed(m, n) /\ Ordered(m) /\ Paired(m)

(* A message as it was, but for its text, its weight and calls it has lost. *)
Keeps(x, y) == x.role = y.role /\ x.of = y.of /\ x.calls \subseteq y.calls

(* Being listed, said of positions.                                          *)
LEMMA ListedShape ==
    ASSUME NEW m, NEW n, Listed(m, n)
    PROVE  /\ Len(m) \in Nat /\ DOMAIN m = 1..Len(m)
           /\ \A k \in 1..Len(m) : m[k] \in Range(m)
BY LenProperties DEF Listed, Range

LEMMA IsListed ==
    ASSUME NEW S, NEW l \in Seq(S), NEW n, \A k \in 1..Len(l) : IsMessage(l[k], n)
    PROVE  Listed(l, n)
BY SeqOfRange DEF Listed

(* A function on 1..k is a sequence of that length. *)
LEMMA FunctionIsSequence ==
    ASSUME NEW k \in Nat, NEW f, f = [i \in 1..k |-> f[i]]
    PROVE  f \in Seq(Range(f)) /\ Len(f) = k
<1>1. f \in [1..k -> Range(f)]
  <2>1. DOMAIN f = 1..k OBVIOUS
  <2> QED BY <2>1 DEF Range
<1> QED BY <1>1

(* Messages keep their order when they move without overtaking each other. *)
LEMMA OrderSurvives ==
    ASSUME NEW m, NEW l, Ordered(m), Len(l) \in Nat, NEW g,
           \A i \in 1..Len(l) : g[i] \in Int,
           \A i, j \in 1..Len(l) : i < j => g[i] < g[j],
           \A i \in 1..Len(l) : \/ g[i] \in 1..Len(m) /\ Keeps(l[i], m[g[i]])
                                \/ l[i].role # "tool" /\ l[i].calls = {}
    PROVE  Ordered(l)
<1> SUFFICES ASSUME NEW j \in 1..Len(l), NEW k \in 1..Len(l), l[k].role = "tool", l[k].of \in l[j].calls
             PROVE  j < k
    BY DEF Ordered
<1>1. /\ g[k] \in 1..Len(m) /\ Keeps(l[k], m[g[k]])
      /\ g[j] \in 1..Len(m) /\ Keeps(l[j], m[g[j]])
      OBVIOUS
<1>2. g[j] < g[k] BY <1>1 DEF Ordered, Keeps
<1>3. ~(k < j) /\ k # j
  <2>1. g[j] \in Int /\ g[k] \in Int OBVIOUS
  <2>2. k < j => g[k] < g[j] OBVIOUS
  <2> QED BY <1>2, <2>1, <2>2
<1> QED BY <1>3

(* The positions of a set: each has its place, and none overtakes another. *)
LEMMA PositionsInOrder ==
    ASSUME NEW n \in Nat, NEW S, S \subseteq 1..n
    PROVE  /\ Cardinality(S) \in Nat
           /\ \A i \in 1..Cardinality(S) : Position(S, i) \in S
           /\ \A i, j \in 1..Cardinality(S) : i < j => Position(S, i) < Position(S, j)
           /\ \A k \in S : \E i \in 1..Cardinality(S) : Position(S, i) = k
           /\ \A i \in 1..Cardinality(S) : Cardinality({j \in S : j < Position(S, i)}) = i - 1
<1> DEFINE Below(k) == {j \in S : j < k}
           r == Cardinality(S)
           rank == [k \in S |-> Cardinality(Below(k))]
<1>1. IsFiniteSet(S) /\ r \in Nat
  <2>1. IsFiniteSet(1..n) BY FS_Interval
  <2>2. S \in SUBSET (1..n) OBVIOUS
  <2>3. IsFiniteSet(S) BY <2>1, <2>2, FS_Subset
  <2> QED BY <2>3, FS_CardinalityType
<1>2. \A k \in S : IsFiniteSet(Below(k)) /\ Cardinality(Below(k)) \in Nat
  <2>1. \A k \in S : Below(k) \in SUBSET S OBVIOUS
  <2>2. \A T \in SUBSET S : IsFiniteSet(T) /\ Cardinality(T) \in Nat BY <1>1, FS_Subset, FS_CardinalityType
  <2> HIDE DEF Below
  <2> QED BY <2>1, <2>2
<1>3. ASSUME NEW k \in S PROVE Cardinality(Below(k)) < r
  <2>1. Below(k) \cup {k} \in SUBSET S /\ k \notin Below(k) OBVIOUS
  <2>2. Cardinality(Below(k) \cup {k}) <= r
    <3> HIDE DEF Below
    <3> QED BY <1>1, <2>1, FS_Subset
  <2>3. Cardinality(Below(k) \cup {k}) = Cardinality(Below(k)) + 1
    <3> HIDE DEF Below
    <3> QED BY <1>2, <2>1, FS_AddElement
  <2> HIDE DEF Below
  <2> QED BY <1>1, <1>2, <2>2, <2>3
<1>4. ASSUME NEW k \in S, NEW l \in S, k < l PROVE Cardinality(Below(k)) < Cardinality(Below(l))
  <2>1. Below(k) \cup {k} \in SUBSET Below(l) /\ k \notin Below(k)
    <3>1. \A j \in S : j \in Int OBVIOUS
    <3>2. \A j \in S : j < k => j < l BY <1>4, <3>1
    <3>3. k \in Below(l) /\ k \notin Below(k) BY <1>4, <3>1
    <3> QED BY <3>2, <3>3
  <2>2. Cardinality(Below(k) \cup {k}) <= Cardinality(Below(l))
    <3> HIDE DEF Below
    <3> QED BY <1>2, <2>1, FS_Subset
  <2>3. Cardinality(Below(k) \cup {k}) = Cardinality(Below(k)) + 1
    <3> HIDE DEF Below
    <3> QED BY <1>2, <2>1, FS_AddElement
  <2> HIDE DEF Below
  <2> QED BY <1>2, <2>2, <2>3
<1>5. \A k \in S : rank[k] \in 0..r - 1
  <2>1. \A k \in S : rank[k] = Cardinality(Below(k)) OBVIOUS
  <2> HIDE DEF Below, rank, r
  <2> QED BY <1>1, <1>2, <1>3, <2>1
<1>6. \A k, l \in S : k < l => rank[k] < rank[l]
  <2>1. \A k \in S : rank[k] = Cardinality(Below(k)) OBVIOUS
  <2> HIDE DEF Below, rank
  <2> QED BY <1>4, <2>1
<1>7. \A k, l \in S : rank[k] = rank[l] => k = l
  <2>1. \A k \in S : k \in Int /\ rank[k] \in Int
    <3>1. \A k \in S : k \in Int OBVIOUS
    <3> HIDE DEF rank
    <3> QED BY <1>1, <1>5, <3>1
  <2> HIDE DEF rank
  <2> QED BY <1>6, <2>1
<1>8. \A p \in 0..r - 1 : \E k \in S : rank[k] = p
  <2>1. rank \in Injection(S, 0..r - 1)
    <3>1. DOMAIN rank = S /\ rank = [k \in S |-> rank[k]] OBVIOUS
    <3> HIDE DEF rank, r
    <3> QED BY <1>5, <1>7, <3>1 DEF Injection, IsInjective
  <2>2. IsFiniteSet(0..r - 1) /\ Cardinality(0..r - 1) = r
    <3>1. 0 \in Int /\ r - 1 \in Int BY <1>1
    <3> HIDE DEF r
    <3> QED BY <1>1, <3>1, FS_Interval
  <2>3. rank \in Surjection(S, 0..r - 1)
    <3> HIDE DEF rank
    <3> QED BY <2>1, <2>2, FS_Injection
  <2> HIDE DEF rank
  <2> QED BY <2>3 DEF Surjection
<1>9. \A i \in 1..r : /\ Position(S, i) \in S /\ rank[Position(S, i)] = i - 1
                       /\ Cardinality({j \in S : j < Position(S, i)}) = i - 1
  <2> SUFFICES ASSUME NEW i \in 1..r
               PROVE  /\ Position(S, i) \in S /\ rank[Position(S, i)] = i - 1
                      /\ Cardinality({j \in S : j < Position(S, i)}) = i - 1
      OBVIOUS
  <2>1. i - 1 \in 0..r - 1 BY <1>1
  <2>2. \E k \in S : Cardinality({j \in S : j < k}) = i - 1
    <3>1. PICK k \in S : rank[k] = i - 1
      <4> HIDE DEF rank, r
      <4> QED BY <1>8, <2>1
    <3> QED BY <3>1
  <2>3. Position(S, i) \in S /\ Cardinality({j \in S : j < Position(S, i)}) = i - 1
        BY <2>2, Zenon DEF Position
  <2> QED BY <2>3
<1> HIDE DEF rank, r
<1>10. ASSUME NEW i \in 1..r, NEW j \in 1..r, i < j PROVE Position(S, i) < Position(S, j)
  <2>1. PICK x \in S, y \in S : x = Position(S, i) /\ y = Position(S, j) BY <1>9
  <2>2. rank[x] = i - 1 /\ rank[y] = j - 1 BY <1>9, <2>1
  <2>3. ~(y < x) /\ x # y
    <3>1. y < x => rank[y] < rank[x] BY <1>6
    <3> QED BY <1>1, <1>10, <2>2, <3>1
  <2>4. x \in Int /\ y \in Int OBVIOUS
  <2>5. x < y BY <2>3, <2>4
  <2> QED BY <2>1, <2>5
<1>11. ASSUME NEW k \in S PROVE \E i \in 1..r : Position(S, i) = k
  <2>1. rank[k] \in 0..r - 1 BY <1>5
  <2>2. rank[k] + 1 \in 1..r /\ (rank[k] + 1) - 1 = rank[k] BY <1>1, <2>1
  <2>3. Position(S, rank[k] + 1) \in S /\ rank[Position(S, rank[k] + 1)] = rank[k] BY <1>9, <2>2
  <2> QED BY <1>7, <2>2, <2>3
<1> QED BY <1>1, <1>9, <1>10, <1>11 DEF r

-----------------------------------------------------------------------------
(* Transcripts: what becomes of one *)

(* The repair pairs what is in order. *)
LEMMA PairsRestored ==
    ASSUME NEW n, NEW m, Listed(m, n), Ordered(m)
    PROVE  Intact(SanitizePairs(m), n)
<1> DEFINE called == UNION {m[k].calls : k \in DOMAIN m}
           S == {k \in DOMAIN m : m[k].role = "tool" => m[k].of \in called}
           kept == MessagesAt(m, S)
           answered == {kept[k].of : k \in {j \in DOMAIN kept : kept[j].role = "tool"}}
           Stripped(x) == IF x.calls \subseteq answered THEN x
                          ELSE [x EXCEPT !.calls = @ \cap answered,
                                         !.text = @ \/ x.calls \cap answered = {}]
           r == Cardinality(S)
<1>1. PICK l : l = SanitizePairs(m) OBVIOUS
<1>2. Len(m) \in Nat /\ DOMAIN m = 1..Len(m) /\ \A k \in 1..Len(m) : IsMessage(m[k], n)
      BY ListedShape, SMTT(60) DEF Listed
<1>3. l = [k \in DOMAIN kept |-> Stripped(kept[k])] BY <1>1 DEF SanitizePairs
<1>4. /\ r \in Nat
      /\ \A i \in 1..r : Position(S, i) \in S
      /\ \A i, j \in 1..r : i < j => Position(S, i) < Position(S, j)
      /\ \A k \in S : \E i \in 1..r : Position(S, i) = k
  <2>1. S \subseteq 1..Len(m) BY <1>2
  <2> HIDE DEF S
  <2> QED BY <1>2, <2>1, PositionsInOrder
<1>5. DOMAIN kept = 1..r /\ \A i \in 1..r : kept[i] = m[Position(S, i)]
  <2> HIDE DEF S
  <2> QED BY DEF MessagesAt
<1>6. \A k \in S : k \in 1..Len(m) /\ (m[k].role = "tool" => m[k].of \in called) BY <1>2
<1>7. \A k \in 1..Len(m) : m[k].role # "tool" \/ m[k].of \in called => k \in S BY <1>2
<1>8. \A j \in 1..Len(m) : \A c \in m[j].calls : c \in called BY <1>2
<1>9. \A c \in called : \E j \in 1..Len(m) : c \in m[j].calls BY <1>2
<1> HIDE DEF S, r, called
<1>10. \A i \in 1..r : IsMessage(kept[i], n) BY <1>2, <1>4, <1>5, <1>6
<1>11. \A k \in 1..r : kept[k].role = "tool" => kept[k].of \in answered BY <1>5
<1>12. \A c \in answered : \E k \in 1..r : kept[k].role = "tool" /\ kept[k].of = c BY <1>5
<1>13. ASSUME NEW x, IsMessage(x, n)
       PROVE  IsMessage(Stripped(x), n) /\ Keeps(Stripped(x), x) /\ Stripped(x).calls = x.calls \cap answered
  <2> HIDE DEF kept, answered
  <2>1. CASE x.calls \subseteq answered BY <1>13, <2>1 DEF Keeps
  <2>2. CASE ~(x.calls \subseteq answered)
    <3>1. PICK y : y = [x EXCEPT !.calls = @ \cap answered, !.text = @ \/ x.calls \cap answered = {}] OBVIOUS
    <3>2. /\ DOMAIN y = Parts /\ y.calls = x.calls \cap answered /\ y.role = x.role /\ y.of = x.of
          BY <1>13, <3>1 DEF IsMessage, Parts
    <3>3. Stripped(x) = y BY <2>2, <3>1
    <3> HIDE DEF Stripped
    <3> QED BY <1>13, <3>2, <3>3 DEF IsMessage, Keeps
  <2> QED BY <2>1, <2>2
<1> HIDE DEF kept, answered
<1>14. l = [k \in 1..r |-> Stripped(kept[k])] BY <1>3, <1>5
<1> HIDE DEF Stripped
<1>15. \A k \in 1..r : /\ IsMessage(l[k], n) /\ Keeps(l[k], kept[k])
                       /\ l[k].calls = kept[k].calls \cap answered
       BY <1>10, <1>13, <1>14
<1>16. l \in Seq(Range(l)) /\ Len(l) = r
  <2>1. l = [k \in 1..r |-> l[k]] BY <1>14
  <2> QED BY <1>4, <2>1, FunctionIsSequence
<1>17. Listed(l, n) BY <1>15, <1>16 DEF Listed
<1>18. Ordered(l)
  <2> DEFINE g == [i \in 1..r |-> Position(S, i)]
  <2>1. \A i \in 1..r : g[i] = Position(S, i) /\ g[i] \in 1..Len(m) BY <1>4, <1>6
  <2> HIDE DEF g
  <2>2. \A i \in 1..r : g[i] \in Int /\ Keeps(l[i], m[g[i]]) BY <1>5, <1>15, <2>1
  <2>3. \A i, j \in 1..r : i < j => g[i] < g[j] BY <1>4, <2>1
  <2> QED BY <1>4, <1>16, <2>1, <2>2, <2>3, OrderSurvives
<1>19. Paired(l)
  <2>1. ASSUME NEW k \in 1..r, l[k].role = "tool" PROVE \E j \in 1..r : l[k].of \in l[j].calls
    <3>1. kept[k].role = "tool" /\ kept[k].of = l[k].of BY <1>15, <2>1 DEF Keeps
    <3>2. l[k].of \in called BY <1>4, <1>5, <1>6, <3>1
    <3>3. PICK j \in 1..Len(m) : l[k].of \in m[j].calls BY <1>9, <3>2
    <3>4. j \in S BY <1>2, <1>7, <3>3 DEF IsMessage
    <3>5. PICK i \in 1..r : Position(S, i) = j BY <1>4, <3>4
    <3>6. l[k].of \in kept[i].calls BY <1>5, <3>3, <3>5
    <3>7. l[k].of \in answered BY <1>11, <3>1
    <3> QED BY <1>15, <3>6, <3>7
  <2>2. ASSUME NEW j \in 1..r, NEW c \in l[j].calls
        PROVE  \E k \in 1..r : l[k].role = "tool" /\ l[k].of = c
    <3>1. c \in answered BY <1>15
    <3>2. PICK k \in 1..r : kept[k].role = "tool" /\ kept[k].of = c BY <1>12, <3>1
    <3> QED BY <1>15, <3>2 DEF Keeps
  <2> QED BY <1>16, <2>1, <2>2 DEF Paired
<1> QED BY <1>1, <1>17, <1>18, <1>19 DEF Intact

(* Old results only lose weight. *)
LEMMA PruneKeepsPairs ==
    ASSUME NEW n, NEW m, Intact(m, n)
    PROVE  Intact(Prune(m), n)
<1> DEFINE Shrunk(x) == [x EXCEPT !.weight = Small]
<1>1. PICK l : l = Prune(m) OBVIOUS
<1>2. Len(m) \in Nat /\ DOMAIN m = 1..Len(m) /\ \A k \in 1..Len(m) : IsMessage(m[k], n)
      BY ListedShape DEF Intact, Listed
<1>3. CASE TailBudget > 0
  <2>1. PICK boundary :
           l = [k \in DOMAIN m |-> IF k <= boundary /\ m[k].role = "tool" THEN Shrunk(m[k]) ELSE m[k]]
    <3> DEFINE floor == Min({ProtectLast, Len(m)})
               walk == HighestOr(Overflows(m, 0, floor, TailBudget), 0)
    <3>1. PICK b : b = Len(m) - Max({Len(m) - walk, floor}) OBVIOUS
    <3>2. l = [k \in DOMAIN m |-> IF k <= b /\ m[k].role = "tool" THEN Shrunk(m[k]) ELSE m[k]]
          BY <1>1, <1>3, <3>1 DEF Prune
    <3> QED BY <3>2
  <2>2. ASSUME NEW x, IsMessage(x, n)
        PROVE  /\ IsMessage(Shrunk(x), n)
               /\ Shrunk(x).role = x.role /\ Shrunk(x).of = x.of /\ Shrunk(x).calls = x.calls
        BY <2>2 DEF IsMessage, Parts
  <2> HIDE DEF Shrunk
  <2>3. \A k \in 1..Len(m) : l[k] \in {Shrunk(m[k]), m[k]} BY <1>2, <2>1
  <2>4. \A k \in 1..Len(m) :
           /\ IsMessage(l[k], n)
           /\ l[k].role = m[k].role /\ l[k].of = m[k].of /\ l[k].calls = m[k].calls
    <3> SUFFICES ASSUME NEW k \in 1..Len(m)
                 PROVE  /\ IsMessage(l[k], n)
                        /\ l[k].role = m[k].role /\ l[k].of = m[k].of /\ l[k].calls = m[k].calls
        OBVIOUS
    <3>1. CASE l[k] = m[k] BY <1>2, <3>1
    <3>2. CASE l[k] = Shrunk(m[k]) BY <1>2, <2>2, <3>2
    <3> QED BY <2>3, <3>1, <3>2
  <2>5. l \in Seq(Range(l)) /\ Len(l) = Len(m)
    <3>1. l = [k \in 1..Len(m) |-> l[k]] BY <1>2, <2>1
    <3> QED BY <1>2, <3>1, FunctionIsSequence
  <2>6. Listed(l, n) BY <2>4, <2>5 DEF Listed
  <2>7. Ordered(l) BY <2>4, <2>5 DEF Intact, Ordered
  <2>8. Paired(l)
    <3>1. \A k \in 1..Len(l) : l[k].role = "tool" => \E j \in 1..Len(l) : l[k].of \in l[j].calls
          BY <2>4, <2>5 DEF Intact, Paired
    <3>2. ASSUME NEW j \in 1..Len(l), NEW c \in l[j].calls
          PROVE  \E k \in 1..Len(l) : l[k].role = "tool" /\ l[k].of = c
      <4>1. j \in 1..Len(m) /\ c \in m[j].calls BY <2>4, <2>5
      <4>2. PICK k \in 1..Len(m) : m[k].role = "tool" /\ m[k].of = c BY <4>1 DEF Intact, Paired
      <4> QED BY <2>4, <2>5, <4>2
    <3> QED BY <3>1, <3>2 DEF Paired
  <2> QED BY <1>1, <2>6, <2>7, <2>8 DEF Intact
<1>4. CASE ~(TailBudget > 0) BY <1>4 DEF Prune
<1> QED BY <1>3, <1>4

(* The head, and what comes behind it. *)
LEMMA JoinedElements ==
    ASSUME NEW R, NEW m \in Seq(R), NEW start \in 0..Len(m), NEW S, NEW rest \in Seq(S)
    PROVE  /\ SubSeq(m, 1, start) \o rest \in Seq(R \cup S)
           /\ Len(SubSeq(m, 1, start) \o rest) = start + Len(rest)
           /\ \A i \in 1..start + Len(rest) :
                 (SubSeq(m, 1, start) \o rest)[i] = IF i <= start THEN m[i] ELSE rest[i - start]
<1> DEFINE head == SubSeq(m, 1, start)
           l == head \o rest
           t == Len(rest)
<1>1. /\ Len(m) \in Nat /\ start \in Nat /\ start <= Len(m) /\ t \in Nat
      /\ \A k \in 1..Len(m) : m[k] \in R
      BY LenProperties
<1>2. head \in Seq(R) /\ Len(head) = start /\ \A i \in 1..start : head[i] = m[i]
  <2>1. 1 \in Int /\ start \in Int /\ \A i \in 1..start : m[i] \in R BY <1>1
  <2>2. /\ head \in Seq(R) /\ Len(head) = IF 1 <= start THEN start - 1 + 1 ELSE 0
        /\ \A i \in 1..start - 1 + 1 : head[i] = m[1 + i - 1]
        BY <2>1, SubSeqProperties
  <2> HIDE DEF head
  <2> QED BY <1>1, <2>2
<1>3. head \in Seq(R \cup S) /\ rest \in Seq(R \cup S) BY <1>2, SeqMonotonic
<1>4. /\ l \in Seq(R \cup S) /\ Len(l) = Len(head) + t
      /\ \A i \in 1..Len(head) + t : l[i] = IF i <= Len(head) THEN head[i] ELSE rest[i - Len(head)]
  <2> HIDE DEF head
  <2> QED BY <1>3, ConcatProperties
<1>5. PICK j, h : j = l /\ h = head OBVIOUS
<1> HIDE DEF l, head
<1> QED BY <1>1, <1>2, <1>4 DEF l, head, t

(* The head, and behind it messages that stood behind it, and new ones. *)
LEMMA JoinedInOrder ==
    ASSUME NEW n, NEW m, Listed(m, n), Ordered(m),
           NEW start \in 0..Len(m), NEW e \in Int, start <= e,
           NEW S, NEW rest \in Seq(S),
           \A i \in 1..Len(rest) :
               /\ IsMessage(rest[i], n)
               /\ \/ e + i \in 1..Len(m) /\ Keeps(rest[i], m[e + i])
                  \/ rest[i].role # "tool" /\ rest[i].calls = {}
    PROVE  Listed(SubSeq(m, 1, start) \o rest, n) /\ Ordered(SubSeq(m, 1, start) \o rest)
<1> DEFINE l == SubSeq(m, 1, start) \o rest
           t == Len(rest)
           R == Range(m) \cup S
           g == [i \in 1..start + t |-> IF i <= start THEN i ELSE e + (i - start)]
<1>1. /\ Len(m) \in Nat /\ start \in Nat /\ start <= Len(m) /\ t \in Nat
      /\ \A k \in 1..Len(m) : IsMessage(m[k], n) /\ m[k] \in Range(m)
      BY ListedShape DEF Listed
<1>2. m \in Seq(Range(m)) BY DEF Listed
<1>3. /\ l \in Seq(R) /\ Len(l) = start + t
      /\ \A i \in 1..start + t : l[i] = IF i <= start THEN m[i] ELSE rest[i - start]
      BY <1>2, JoinedElements
<1> HIDE DEF l, R, t
<1>4. \A i \in 1..start + t : i > start => i - start \in 1..t BY <1>1
<1>5. \A i \in 1..start + t : IsMessage(l[i], n)
  <2> SUFFICES ASSUME NEW i \in 1..start + t PROVE IsMessage(l[i], n) OBVIOUS
  <2>1. CASE i <= start BY <1>1, <1>3, <2>1
  <2>2. CASE ~(i <= start)
    <3>1. i - start \in 1..t BY <1>1, <1>4, <2>2
    <3> QED BY <1>3, <2>2, <3>1 DEF t
  <2> QED BY <2>1, <2>2
<1>6. Listed(l, n) BY <1>3, <1>5, IsListed
<1>7. Ordered(l)
  <2>1. \A i \in 1..start + t : g[i] = (IF i <= start THEN i ELSE e + (i - start)) /\ g[i] \in Int
        BY <1>1
  <2>2. \A i, j \in 1..start + t : i < j => g[i] < g[j]
    <3> HIDE DEF g
    <3> QED BY <1>1, <2>1
  <2>3. ASSUME NEW i \in 1..start + t
        PROVE  \/ g[i] \in 1..Len(m) /\ Keeps(l[i], m[g[i]])
               \/ l[i].role # "tool" /\ l[i].calls = {}
    <3>1. CASE i <= start
      <4>1. g[i] = i /\ l[i] = m[i] /\ i \in 1..Len(m) BY <1>1, <1>3, <2>1, <3>1
      <4> HIDE DEF g
      <4> QED BY <4>1 DEF Keeps
    <3>2. CASE ~(i <= start)
      <4>1. i - start \in 1..t BY <1>1, <1>4, <3>2
      <4>2. g[i] = e + (i - start) /\ l[i] = rest[i - start] BY <1>3, <2>1, <3>2
      <4> HIDE DEF g
      <4> QED BY <4>1, <4>2 DEF t
    <3> QED BY <3>1, <3>2
  <2> HIDE DEF g
  <2>4. Len(l) = start + t /\ Len(l) \in Nat BY <1>1, <1>3
  <2>5. /\ \A i \in 1..Len(l) : g[i] \in Int
        /\ \A i, j \in 1..Len(l) : i < j => g[i] < g[j]
        /\ \A i \in 1..Len(l) : \/ g[i] \in 1..Len(m) /\ Keeps(l[i], m[g[i]])
                                \/ l[i].role # "tool" /\ l[i].calls = {}
        BY <2>1, <2>2, <2>3, <2>4
  <2> QED BY <2>4, <2>5, OrderSurvives
<1> QED BY <1>6, <1>7 DEF l

(* The summary speaks as a user or as an assistant, or opens the tail.       *)
LEMMA RoleOfSummary ==
    ASSUME NEW m, NEW start, NEW end
    PROVE  SummaryRole(m, start, end) \in {"user", "assistant", "merge"}
BY DEF SummaryRole

(* What the repair is given: the head, the summary, be it a message or merged *)
(* into one, and the tail.  What stood at e + i stands at start + i.         *)
Joined(l, m, start, end, e, covers) ==
    /\ Len(l) \in Nat /\ Len(l) >= start
    /\ \A i \in 1..start : l[i] = m[i]
    /\ Len(l) > start =>
          /\ l[start + 1].summary /\ l[start + 1].covers = covers
          /\ l[start + 1].role \in {"user", "assistant"}
          /\ \/ l[start + 1].calls = {}
             \/ e + 1 \in 1..Len(m) /\ l[start + 1].calls = m[e + 1].calls
    /\ \A i \in start + 2..Len(l) : e + (i - start) \in 1..Len(m) /\ l[i] = m[e + (i - start)]
    /\ \A k \in end + 1..Len(m) : /\ k - e + start \in start + 1..Len(l)
                                  /\ l[k - e + start].role = m[k].role
                                  /\ m[k].asks \subseteq l[k - e + start].asks

(* Only a result is no place for the summary. *)
LEMMA MergesIntoTurn ==
    ASSUME NEW m, NEW start, NEW end, end < Len(m), SummaryRole(m, start, end) = "merge"
    PROVE  m[end + 1].role \in {"user", "assistant"}
<1> DEFINE before == IF start > 0 THEN m[start].role ELSE "user"
           survives == \E k \in (1..start) \cup (end + 1..Len(m)) : m[k].role = "user"
           forced == before = "system" \/ ~survives
           role == IF before \in {"assistant", "tool"} \/ forced THEN "user" ELSE "assistant"
           flipped == IF role = "user" THEN "assistant" ELSE "user"
<1>1. PICK b, s : b = before /\ s = survives OBVIOUS
<1>2. SummaryRole(m, start, end) = IF role # m[end + 1].role THEN role
                                   ELSE IF flipped # before /\ ~forced THEN flipped
                                   ELSE "merge"
      BY DEF SummaryRole
<1>3. role \in {"user", "assistant"} OBVIOUS
<1> HIDE DEF role, flipped, forced
<1>4. role = m[end + 1].role BY <1>2, <1>3
<1> QED BY <1>3, <1>4

(* Head, summary and tail. *)
LEMMA AssembledParts ==
    ASSUME NEW n, NEW m, Listed(m, n), Ordered(m),
           NEW start \in 0..Len(m), NEW end \in Int, start < end, NEW covers
    PROVE  \E l : \E e \in Int : /\ start <= e
                                 /\ Assemble(m, start, end, covers) = SanitizePairs(l)
                                 /\ Listed(l, n) /\ Ordered(l)
                                 /\ Joined(l, m, start, end, e, covers)
<1> DEFINE role == SummaryRole(m, start, end)
           handoff == [Blank EXCEPT !.role = role, !.summary = TRUE, !.covers = covers,
                                    !.weight = SummaryWeight]
           head == SubSeq(m, 1, start)
           tail == SubSeq(m, end + 1, Len(m))
           first == [tail[1] EXCEPT !.summary = TRUE, !.text = TRUE,
                                    !.asks = @ \cup tail[1].covers, !.covers = covers,
                                    !.weight = @ + SummaryWeight]
           merged == [tail EXCEPT ![1] = first]
           rest == IF role = "merge" /\ tail # <<>> THEN merged
                   ELSE IF role = "merge" THEN <<>>
                   ELSE <<handoff>> \o tail
<1>1. Assemble(m, start, end, covers) = SanitizePairs(head \o rest) BY DEF Assemble
<1>2. /\ Len(m) \in Nat /\ \A k \in 1..Len(m) : IsMessage(m[k], n) /\ m[k] \in Range(m)
      /\ m \in Seq(Range(m))
      BY ListedShape DEF Listed
<1>3. /\ tail \in Seq(Range(m)) /\ Len(tail) \in Nat
      /\ Len(tail) = IF end + 1 <= Len(m) THEN Len(m) - end ELSE 0
      /\ \A i \in 1..Len(tail) : end + i \in 1..Len(m) /\ tail[i] = m[end + i]
  <2>1. end + 1 \in Int /\ Len(m) \in Int /\ \A i \in end + 1..Len(m) : m[i] \in Range(m) BY <1>2
  <2>2. /\ tail \in Seq(Range(m))
        /\ Len(tail) = IF end + 1 <= Len(m) THEN Len(m) - (end + 1) + 1 ELSE 0
        /\ \A i \in 1..Len(m) - (end + 1) + 1 : tail[i] = m[(end + 1) + i - 1]
        BY <2>1, SubSeqProperties
  <2> HIDE DEF tail
  <2> QED BY <1>2, <2>2
<1>4. CASE role = "merge" /\ tail # <<>>
  <2>1. Len(tail) \in Nat /\ 1 \in 1..Len(tail) BY <1>3, <1>4, EmptySeq
  <2>2. tail[1] = m[end + 1] /\ IsMessage(tail[1], n) BY <1>2, <1>3, <2>1
  <2>3. /\ IsMessage(first, n) /\ Keeps(first, tail[1]) /\ first.summary /\ first.covers = covers
        /\ first.calls = tail[1].calls /\ tail[1].asks \subseteq first.asks
    <3> HIDE DEF tail
    <3> QED BY <2>2 DEF IsMessage, Keeps, Parts
  <2> HIDE DEF first
  <2>4. /\ merged \in Seq(Range(m) \cup {first}) /\ Len(merged) = Len(tail)
        /\ \A j \in 1..Len(tail) : merged[j] = IF j = 1 THEN first ELSE tail[j]
    <3>1. tail \in Seq(Range(m) \cup {first}) BY <1>3, SeqMonotonic
    <3> HIDE DEF tail
    <3> QED BY <2>1, <3>1, ExceptSeq
  <2>5. \A i \in 1..Len(merged) :
           /\ IsMessage(merged[i], n)
           /\ end + i \in 1..Len(m) /\ Keeps(merged[i], m[end + i])
    <3> HIDE DEF tail, merged
    <3> SUFFICES ASSUME NEW i \in 1..Len(merged)
                 PROVE  IsMessage(merged[i], n) /\ end + i \in 1..Len(m) /\ Keeps(merged[i], m[end + i])
        OBVIOUS
    <3>1. i \in 1..Len(tail) /\ end + i \in 1..Len(m) /\ tail[i] = m[end + i] BY <1>3, <2>4
    <3>2. CASE i = 1 BY <2>3, <2>4, <3>1, <3>2
    <3>3. CASE i # 1
      <4>1. merged[i] = m[end + i] BY <2>4, <3>1, <3>3
      <4> QED BY <1>2, <3>1, <4>1 DEF Keeps
    <3> QED BY <3>2, <3>3
  <2>6. start <= end /\ rest = merged
    <3> HIDE DEF merged, tail
    <3> QED BY <1>2, <1>4
  <2>7. m[end + 1].role \in {"user", "assistant"} /\ Len(m) - end = Len(tail) /\ end < Len(m)
    <3>1. end < Len(m) /\ Len(m) - end = Len(tail)
      <4> HIDE DEF tail
      <4> QED BY <1>2, <1>3, <2>1
    <3>2. PICK r : r = SummaryRole(m, start, end) OBVIOUS
    <3>3. m[end + 1].role \in {"user", "assistant"} BY <1>4, <3>1, MergesIntoTurn
    <3> QED BY <3>1, <3>3
  <2> HIDE DEF merged, rest, tail, head
  <2>8. PICK l : l = SubSeq(m, 1, start) \o merged OBVIOUS
  <2>9. /\ Listed(l, n) /\ Ordered(l) /\ Len(l) = start + Len(merged)
        /\ \A i \in 1..start + Len(merged) : l[i] = IF i <= start THEN m[i] ELSE merged[i - start]
    <3>1. Listed(SubSeq(m, 1, start) \o merged, n) /\ Ordered(SubSeq(m, 1, start) \o merged)
          BY <2>4, <2>5, <2>6, JoinedInOrder
    <3>2. /\ Len(SubSeq(m, 1, start) \o merged) = start + Len(merged)
          /\ \A i \in 1..start + Len(merged) :
                (SubSeq(m, 1, start) \o merged)[i] = IF i <= start THEN m[i] ELSE merged[i - start]
          BY <1>2, <2>4, JoinedElements
    <3> QED BY <2>8, <3>1, <3>2
  <2>10. Joined(l, m, start, end, end, covers)
    <3>1. Len(l) = start + Len(tail) /\ Len(l) \in Nat /\ start \in Nat /\ start <= Len(m)
          BY <1>2, <2>1, <2>4, <2>9
    <3>2. \A i \in 1..start : l[i] = m[i] BY <2>9, <2>4, <3>1
    <3>3. l[start + 1] = first
      <4>1. start + 1 \in 1..start + Len(merged) /\ (start + 1) - start = 1 BY <2>1, <2>4, <3>1
      <4> QED BY <2>1, <2>4, <2>9, <3>1, <4>1
    <3>4. ASSUME NEW i \in start + 2..Len(l)
          PROVE  end + (i - start) \in 1..Len(m) /\ l[i] = m[end + (i - start)]
      <4>1. i - start \in 1..Len(tail) /\ i - start # 1 /\ i \in 1..start + Len(merged) /\ ~(i <= start)
            BY <2>4, <3>1
      <4>2. l[i] = tail[i - start] BY <2>4, <2>9, <4>1
      <4> QED BY <1>3, <4>1, <4>2
    <3>5. ASSUME NEW k \in end + 1..Len(m)
          PROVE  /\ k - end + start \in start + 1..Len(l)
                 /\ l[k - end + start].role = m[k].role
                 /\ m[k].asks \subseteq l[k - end + start].asks
      <4>1. PICK i : i = k - end + start OBVIOUS
      <4>2. i \in start + 1..Len(l) BY <1>2, <2>7, <3>1, <4>1
      <4>3. CASE i = start + 1
        <5>1. k = end + 1 BY <1>2, <3>1, <4>1, <4>3
        <5> QED BY <2>2, <2>3, <3>3, <4>1, <4>2, <4>3, <5>1 DEF Keeps
      <4>4. CASE i # start + 1
        <5>1. i \in start + 2..Len(l) /\ end + (i - start) = k BY <1>2, <3>1, <4>1, <4>2, <4>4
        <5>2. l[i] = m[k] BY <3>4, <5>1
        <5> QED BY <4>1, <4>2, <5>2
      <4> QED BY <4>3, <4>4
    <3>6. first.role \in {"user", "assistant"} BY <2>2, <2>3, <2>7 DEF Keeps
    <3>7. end + 1 \in 1..Len(m) /\ first.calls = m[end + 1].calls BY <1>2, <2>2, <2>3, <2>7
    <3> QED BY <2>3, <3>1, <3>2, <3>3, <3>4, <3>5, <3>6, <3>7 DEF Joined
  <2>11. Assemble(m, start, end, covers) = SanitizePairs(l) BY <1>1, <2>6, <2>8 DEF head
  <2> QED BY <2>6, <2>9, <2>10, <2>11
<1>5. CASE role = "merge" /\ tail = <<>>
  <2>1. rest = <<>> BY <1>5
  <2>2. <<>> \in Seq(Range(m)) /\ Len(<<>>) = 0 /\ start <= end BY EmptySeq
  <2>3. \A i \in 1..Len(<<>>) :
               /\ IsMessage(<<>>[i], n)
               /\ \/ end + i \in 1..Len(m) /\ Keeps(<<>>[i], m[end + i])
                  \/ <<>>[i].role # "tool" /\ <<>>[i].calls = {}
        BY <2>2
  <2>4. PICK l : l = SubSeq(m, 1, start) \o <<>> OBVIOUS
  <2>5. /\ Listed(l, n) /\ Ordered(l) /\ Len(l) = start + Len(<<>>)
        /\ \A i \in 1..start + Len(<<>>) : l[i] = IF i <= start THEN m[i] ELSE <<>>[i - start]
    <3>1. Listed(SubSeq(m, 1, start) \o <<>>, n) /\ Ordered(SubSeq(m, 1, start) \o <<>>)
          BY <2>2, <2>3, JoinedInOrder
    <3>2. /\ Len(SubSeq(m, 1, start) \o <<>>) = start + Len(<<>>)
          /\ \A i \in 1..start + Len(<<>>) :
                (SubSeq(m, 1, start) \o <<>>)[i] = IF i <= start THEN m[i] ELSE <<>>[i - start]
          BY <1>2, <2>2, JoinedElements
    <3> QED BY <2>4, <3>1, <3>2
  <2>6. Joined(l, m, start, end, end, covers)
    <3>1. Len(l) = start /\ Len(l) \in Nat /\ start \in Nat BY <1>2, <2>2, <2>5
    <3>2. \A i \in 1..start : l[i] = m[i] BY <2>2, <2>5, <3>1
    <3>3. Len(tail) = 0
      <4> HIDE DEF tail
      <4> QED BY <1>5, <2>2
    <3>4. ~(end + 1 <= Len(m))
      <4> HIDE DEF tail
      <4> QED BY <1>2, <1>3, <3>3
    <3>5. \A k \in end + 1..Len(m) : FALSE BY <1>2, <3>4
    <3>6. \A i \in start + 2..Len(l) : FALSE BY <3>1
    <3> QED BY <3>1, <3>2, <3>5, <3>6 DEF Joined
  <2>7. Assemble(m, start, end, covers) = SanitizePairs(l) BY <1>1, <2>1, <2>4
  <2> QED BY <2>2, <2>5, <2>6, <2>7
<1>6. CASE role # "merge"
  <2>1. PICK x : x = handoff OBVIOUS
  <2>2. /\ IsMessage(x, n) /\ x.role \in {"user", "assistant"} /\ x.calls = {}
        /\ x.summary /\ x.covers = covers
    <3>1. role \in {"user", "assistant"} BY <1>6, RoleOfSummary
    <3> HIDE DEF role
    <3> QED BY <2>1, <3>1 DEF Blank, IsMessage, Parts
  <2>3. rest = <<x>> \o tail BY <1>6, <2>1
  <2> HIDE DEF rest, handoff, role
  <2>4. /\ rest \in Seq(Range(m) \cup {x}) /\ Len(rest) = 1 + Len(tail)
        /\ \A i \in 1..1 + Len(tail) : rest[i] = IF i <= 1 THEN <<x>>[i] ELSE tail[i - 1]
    <3>1. <<x>> \in Seq(Range(m) \cup {x}) /\ Len(<<x>>) = 1 OBVIOUS
    <3>2. tail \in Seq(Range(m) \cup {x}) BY <1>3, SeqMonotonic
    <3> HIDE DEF tail
    <3> QED BY <2>3, <3>1, <3>2, ConcatProperties
  <2>5. Len(tail) \in Nat BY <1>3, LenProperties
  <2>6. ASSUME NEW i \in 1..Len(rest)
        PROVE  /\ IsMessage(rest[i], n)
               /\ \/ (end - 1) + i \in 1..Len(m) /\ Keeps(rest[i], m[(end - 1) + i])
                  \/ rest[i].role # "tool" /\ rest[i].calls = {}
               /\ IF i = 1 THEN rest[i] = x
                  ELSE (end - 1) + i \in 1..Len(m) /\ rest[i] = m[(end - 1) + i]
    <3> HIDE DEF tail
    <3>1. CASE i = 1
      <4>1. rest[i] = x BY <2>4, <2>5, <3>1
      <4> QED BY <2>2, <3>1, <4>1
    <3>2. CASE i # 1
      <4>1. i - 1 \in 1..Len(tail) /\ rest[i] = tail[i - 1] BY <2>4, <2>5, <3>2
      <4>2. (end - 1) + i \in 1..Len(m) /\ rest[i] = m[(end - 1) + i]
        <5>1. end + (i - 1) \in 1..Len(m) /\ tail[i - 1] = m[end + (i - 1)] BY <1>3, <4>1
        <5>2. end + (i - 1) = (end - 1) + i OBVIOUS
        <5> QED BY <4>1, <5>1, <5>2
      <4> QED BY <1>2, <3>2, <4>2 DEF Keeps
    <3> QED BY <3>1, <3>2
  <2>7. end - 1 \in Int /\ start <= end - 1 BY <1>2
  <2>8. PICK t : t = Len(tail) OBVIOUS
  <2>9. t = (IF end + 1 <= Len(m) THEN Len(m) - end ELSE 0) /\ t \in Nat BY <1>3, <2>8
  <2> HIDE DEF tail, head
  <2>10. PICK l : l = SubSeq(m, 1, start) \o rest OBVIOUS
  <2>11. /\ Listed(l, n) /\ Ordered(l) /\ Len(l) = start + Len(rest)
         /\ \A i \in 1..start + Len(rest) : l[i] = IF i <= start THEN m[i] ELSE rest[i - start]
    <3> DEFINE R == Range(m) \cup {x}
    <3>0. rest \in Seq(R) BY <2>4
    <3> HIDE DEF R
    <3>1. Listed(SubSeq(m, 1, start) \o rest, n) /\ Ordered(SubSeq(m, 1, start) \o rest)
      <4>1. \A i \in 1..Len(rest) :
               /\ IsMessage(rest[i], n)
               /\ \/ (end - 1) + i \in 1..Len(m) /\ Keeps(rest[i], m[(end - 1) + i])
                  \/ rest[i].role # "tool" /\ rest[i].calls = {}
            BY <2>6
      <4> QED BY <2>7, <3>0, <4>1, JoinedInOrder
    <3>2. /\ Len(SubSeq(m, 1, start) \o rest) = start + Len(rest)
          /\ \A i \in 1..start + Len(rest) :
                (SubSeq(m, 1, start) \o rest)[i] = IF i <= start THEN m[i] ELSE rest[i - start]
          BY <1>2, <3>0, JoinedElements
    <3> QED BY <2>10, <3>1, <3>2
  <2>12. Joined(l, m, start, end, end - 1, covers)
    <3>1. /\ Len(l) = start + 1 + t /\ Len(l) \in Nat /\ start \in Nat /\ start <= Len(m)
          /\ Len(rest) = 1 + t /\ Len(l) >= start
      <4>1. Len(rest) = 1 + t BY <2>4, <2>8
      <4>2. Len(l) = start + Len(rest) BY <2>11
      <4>3. start \in Nat /\ start <= Len(m) BY <1>2
      <4>4. t \in Nat BY <2>9
      <4> QED BY <4>1, <4>2, <4>3, <4>4
    <3>2. \A i \in 1..start : l[i] = m[i] BY <2>11, <3>1
    <3>3. l[start + 1] = x
      <4>1. start + 1 \in 1..start + Len(rest) /\ (start + 1) - start = 1 /\ 1 \in 1..Len(rest)
            BY <2>9, <3>1
      <4>2. ~(start + 1 <= start) BY <3>1
      <4>3. l[start + 1] = rest[1] BY <2>11, <4>1, <4>2
      <4>4. rest[1] = x BY <2>6, <4>1
      <4> QED BY <4>3, <4>4
    <3>4. ASSUME NEW i \in start + 2..Len(l)
          PROVE  (end - 1) + (i - start) \in 1..Len(m) /\ l[i] = m[(end - 1) + (i - start)]
      <4>1. i - start \in 1..Len(rest) /\ i - start # 1 /\ i \in 1..start + Len(rest) /\ ~(i <= start)
        <5>1. t \in Nat BY <2>9
        <5>2. PICK z : z = Len(l) OBVIOUS
        <5>3. i \in Int /\ start + 2 <= i /\ i <= start + 1 + t
          <6>1. z = start + 1 + t /\ z \in Nat BY <3>1, <5>2
          <6>2. i \in start + 2..z BY <5>2
          <6>3. start \in Nat BY <3>1
          <6> QED BY <6>1, <6>2, <6>3
        <5>4. start + Len(rest) = start + 1 + t BY <3>1, <5>1
        <5>5. i - start \in 1..1 + t /\ i - start # 1 /\ i \in 1..start + 1 + t /\ ~(i <= start)
          <6>1. start \in Nat BY <3>1
          <6> QED BY <5>1, <5>3, <6>1
        <5> QED BY <3>1, <5>4, <5>5
      <4>2. l[i] = rest[i - start] BY <2>11, <4>1
      <4> QED BY <2>6, <4>1, <4>2
    <3>5. ASSUME NEW k \in end + 1..Len(m)
          PROVE  /\ k - (end - 1) + start \in start + 1..Len(l)
                 /\ l[k - (end - 1) + start].role = m[k].role
                 /\ m[k].asks \subseteq l[k - (end - 1) + start].asks
      <4>1. PICK i : i = k - (end - 1) + start OBVIOUS
      <4>2. i \in start + 2..Len(l) /\ (end - 1) + (i - start) = k
        <5>1. Len(m) \in Int /\ k \in Int /\ end + 1 <= k /\ k <= Len(m) BY <1>2
        <5>2. end + 1 <= Len(m) BY <5>1
        <5>3. t = Len(m) - end BY <2>9, <5>2
        <5> QED BY <3>1, <4>1, <5>1, <5>3
      <4>3. l[i] = m[k] BY <3>4, <4>2
      <4>4. i \in start + 1..Len(l) BY <3>1, <4>2
      <4> QED BY <4>1, <4>3, <4>4
    <3> QED BY <2>2, <3>1, <3>2, <3>3, <3>4, <3>5 DEF Joined
  <2>13. Assemble(m, start, end, covers) = SanitizePairs(l) BY <1>1, <2>10 DEF head
  <2> QED BY <2>7, <2>11, <2>12, <2>13
<1> QED BY <1>4, <1>5, <1>6

LEMMA AssembledInOrder ==
    ASSUME NEW n, NEW m, Listed(m, n), Ordered(m),
           NEW start \in 0..Len(m), NEW end \in Int, start < end, NEW covers
    PROVE  Intact(Assemble(m, start, end, covers), n)
<1>1. PICK l : Assemble(m, start, end, covers) = SanitizePairs(l) /\ Listed(l, n) /\ Ordered(l)
      BY AssembledParts
<1> QED BY <1>1, PairsRestored

(* A message without calls goes at the end. *)
LEMMA MessageAdded ==
    ASSUME NEW n, NEW m, Intact(m, n), NEW x, IsMessage(x, n), x.role # "tool", x.calls = {}
    PROVE  /\ Intact(m \o <<x>>, n)
           /\ Len(m \o <<x>>) = Len(m) + 1 /\ (m \o <<x>>)[Len(m) + 1] = x
           /\ \A k \in 1..Len(m) : (m \o <<x>>)[k] = m[k]
<1> DEFINE l == m \o <<x>>
           R == Range(m) \cup {x}
<1>1. /\ Len(m) \in Nat /\ m \in Seq(Range(m)) /\ \A k \in 1..Len(m) : IsMessage(m[k], n)
      BY ListedShape DEF Intact, Listed
<1>2. /\ l \in Seq(R) /\ Len(l) = Len(m) + 1
      /\ \A k \in 1..Len(m) + 1 : l[k] = IF k <= Len(m) THEN m[k] ELSE x
  <2>1. <<x>> \in Seq(R) /\ Len(<<x>>) = 1 /\ <<x>>[1] = x OBVIOUS
  <2>2. m \in Seq(R) BY <1>1, SeqMonotonic
  <2>3. /\ l \in Seq(R) /\ Len(l) = Len(m) + Len(<<x>>)
        /\ \A i \in 1..Len(m) + Len(<<x>>) : l[i] = IF i <= Len(m) THEN m[i] ELSE <<x>>[i - Len(m)]
    <3> HIDE DEF R
    <3> QED BY <2>1, <2>2, ConcatProperties
  <2> HIDE DEF l, R
  <2> QED BY <1>1, <2>1, <2>3
<1> HIDE DEF l, R
<1>3. l[Len(m) + 1] = x /\ \A k \in 1..Len(m) : l[k] = m[k] BY <1>1, <1>2
<1>4. \A k \in 1..Len(l) : k \in 1..Len(m) \/ k = Len(m) + 1 BY <1>1, <1>2
<1>5. Listed(l, n)
  <2>1. \A k \in 1..Len(l) : IsMessage(l[k], n) BY <1>1, <1>3, <1>4
  <2> QED BY <1>2, <2>1, IsListed
<1>6. Ordered(l) BY <1>3, <1>4 DEF Intact, Ordered
<1>7. Paired(l)
  <2>1. \A k \in 1..Len(m) : k \in 1..Len(l) BY <1>1, <1>2
  <2>2. ASSUME NEW k \in 1..Len(l), l[k].role = "tool" PROVE \E j \in 1..Len(l) : l[k].of \in l[j].calls
    <3>1. k \in 1..Len(m) /\ l[k] = m[k] BY <1>3, <1>4, <2>2
    <3>2. PICK j \in 1..Len(m) : m[k].of \in m[j].calls BY <2>2, <3>1 DEF Intact, Paired
    <3> QED BY <1>3, <2>1, <3>1, <3>2
  <2>3. ASSUME NEW j \in 1..Len(l), NEW c \in l[j].calls
        PROVE  \E k \in 1..Len(l) : l[k].role = "tool" /\ l[k].of = c
    <3>1. j \in 1..Len(m) /\ l[j] = m[j] BY <1>3, <1>4
    <3>2. PICK k \in 1..Len(m) : m[k].role = "tool" /\ m[k].of = c BY <3>1 DEF Intact, Paired
    <3> QED BY <1>3, <2>1, <3>2
  <2> QED BY <2>2, <2>3 DEF Paired
<1> QED BY <1>2, <1>3, <1>5, <1>6, <1>7 DEF l, Intact

(* So does a round of its own call and result. *)
LEMMA RoundAdded ==
    ASSUME NEW n \in Nat, NEW m, Intact(m, n), NEW w
    PROVE  /\ Intact(m \o <<Calls(n + 1), Result(n + 1, w)>>, n + 1)
           /\ Len(m \o <<Calls(n + 1), Result(n + 1, w)>>) = Len(m) + 2
           /\ \A k \in 1..Len(m) : (m \o <<Calls(n + 1), Result(n + 1, w)>>)[k] = m[k]
<1>1. PICK x, y : x = Calls(n + 1) /\ y = Result(n + 1, w) OBVIOUS
<1>2. /\ DOMAIN x = Parts /\ x.role = "assistant" /\ x.calls = {n + 1}
      /\ DOMAIN y = Parts /\ y.role = "tool" /\ y.calls = {} /\ y.of = n + 1
      BY <1>1 DEF Calls, Result, Blank, Parts
<1>3. IsMessage(x, n + 1) /\ IsMessage(y, n + 1) BY <1>2 DEF IsMessage
<1> DEFINE l == m \o <<x, y>>
           R == Range(m) \cup {x, y}
<1>4. /\ Len(m) \in Nat /\ m \in Seq(Range(m)) /\ \A k \in 1..Len(m) : IsMessage(m[k], n)
      BY ListedShape DEF Intact, Listed
<1>5. /\ l \in Seq(R) /\ Len(l) = Len(m) + 2
      /\ \A k \in 1..Len(m) + 2 : l[k] = IF k <= Len(m) THEN m[k] ELSE <<x, y>>[k - Len(m)]
  <2>1. <<x, y>> \in Seq(R) /\ Len(<<x, y>>) = 2 OBVIOUS
  <2>2. m \in Seq(R) BY <1>4, SeqMonotonic
  <2>3. /\ l \in Seq(R) /\ Len(l) = Len(m) + Len(<<x, y>>)
        /\ \A i \in 1..Len(m) + Len(<<x, y>>) : l[i] = IF i <= Len(m) THEN m[i] ELSE <<x, y>>[i - Len(m)]
    <3> HIDE DEF R
    <3> QED BY <2>1, <2>2, ConcatProperties
  <2> HIDE DEF l, R
  <2> QED BY <2>1, <2>3
<1> HIDE DEF l, R
<1>6. l[Len(m) + 1] = x /\ l[Len(m) + 2] = y /\ \A k \in 1..Len(m) : l[k] = m[k]
  <2>1. Len(m) + 1 \in 1..Len(m) + 2 /\ Len(m) + 2 \in 1..Len(m) + 2 BY <1>4
  <2>2. l[Len(m) + 1] = <<x, y>>[1] /\ l[Len(m) + 2] = <<x, y>>[2] BY <1>4, <1>5, <2>1
  <2>3. \A k \in 1..Len(m) : l[k] = m[k] BY <1>4, <1>5
  <2> QED BY <2>2, <2>3
<1>7. \A k \in 1..Len(l) : k \in 1..Len(m) \/ k = Len(m) + 1 \/ k = Len(m) + 2 BY <1>4, <1>5
<1>8. \A k \in 1..Len(m) : IsMessage(l[k], n + 1) /\ l[k].calls \subseteq 1..n /\ k \in 1..Len(l)
      BY <1>4, <1>5, <1>6 DEF IsMessage
<1>9. Listed(l, n + 1)
  <2>1. \A k \in 1..Len(l) : IsMessage(l[k], n + 1) BY <1>3, <1>6, <1>7, <1>8
  <2> QED BY <1>5, <2>1, IsListed
<1>10. \A k \in 1..Len(m) : m[k].role = "tool" => m[k].of \in 1..n
  <2> SUFFICES ASSUME NEW k \in 1..Len(m), m[k].role = "tool" PROVE m[k].of \in 1..n OBVIOUS
  <2>1. PICK j \in 1..Len(m) : m[k].of \in m[j].calls BY DEF Intact, Paired
  <2> QED BY <1>4, <2>1 DEF IsMessage
<1>11. Len(m) + 1 \in 1..Len(l) /\ Len(m) + 2 \in 1..Len(l) /\ n + 1 \notin 1..n BY <1>4, <1>5
<1>12. Ordered(l)
  <2> SUFFICES ASSUME NEW j \in 1..Len(l), NEW k \in 1..Len(l), l[k].role = "tool", l[k].of \in l[j].calls
               PROVE  j < k
      BY DEF Ordered
  <2>1. CASE k \in 1..Len(m)
    <3>1. l[k].of \in 1..n BY <1>6, <1>10, <2>1
    <3>2. j \in 1..Len(m) BY <1>2, <1>6, <1>7, <1>11, <3>1
    <3> QED BY <1>6, <2>1, <3>2 DEF Intact, Ordered
  <2>2. CASE k = Len(m) + 1 BY <1>2, <1>6, <2>2
  <2>3. CASE k = Len(m) + 2
    <3>1. j # Len(m) + 2 BY <1>2, <1>6
    <3> QED BY <1>4, <1>7, <2>3, <3>1
  <2> QED BY <1>7, <2>1, <2>2, <2>3
<1>13. Paired(l)
  <2>1. ASSUME NEW k \in 1..Len(l), l[k].role = "tool" PROVE \E j \in 1..Len(l) : l[k].of \in l[j].calls
    <3>1. CASE k \in 1..Len(m)
      <4>1. PICK j \in 1..Len(m) : m[k].of \in m[j].calls BY <1>6, <2>1, <3>1 DEF Intact, Paired
      <4> QED BY <1>6, <1>8, <3>1, <4>1
    <3>2. CASE k = Len(m) + 1 BY <1>2, <1>6, <2>1, <3>2
    <3>3. CASE k = Len(m) + 2 BY <1>2, <1>6, <1>11, <3>3
    <3> QED BY <1>7, <3>1, <3>2, <3>3
  <2>2. ASSUME NEW j \in 1..Len(l), NEW c \in l[j].calls
        PROVE  \E k \in 1..Len(l) : l[k].role = "tool" /\ l[k].of = c
    <3>1. CASE j \in 1..Len(m)
      <4>1. PICK k \in 1..Len(m) : m[k].role = "tool" /\ m[k].of = c BY <1>6, <3>1 DEF Intact, Paired
      <4> QED BY <1>6, <1>8, <4>1
    <3>2. CASE j = Len(m) + 1
      <4>1. c = n + 1 BY <1>2, <1>6, <3>2
      <4> QED BY <1>2, <1>6, <1>11, <4>1
    <3>3. CASE j = Len(m) + 2 BY <1>2, <1>6, <3>3
    <3> QED BY <1>7, <3>1, <3>2, <3>3
  <2> QED BY <2>1, <2>2 DEF Paired
<1> QED BY <1>1, <1>5, <1>6, <1>9, <1>12, <1>13 DEF l, Intact

HasUser(m) == \E k \in 1..Len(m) : m[k].role = "user"

(* A user turn survives or comes back. *)
LEMMA UserTurnAdded ==
    ASSUME NEW n, NEW original, Listed(original, n), NEW m, Intact(m, n)
    PROVE  \E x : /\ IsMessage(x, n) /\ x.role = "user" /\ x.calls = {}
                  /\ EnsureUserTurn(original, m) = IF HasUser(m) THEN m ELSE m \o <<x>>
<1> DEFINE asks == {k \in DOMAIN original : original[k].role = "user"}
           last == IF asks = {} THEN Blank ELSE original[Max(asks)]
<1>1. Len(m) \in Nat /\ DOMAIN m = 1..Len(m) /\ m \in Seq(Range(m)) BY ListedShape DEF Intact, Listed
<1>2. Len(original) \in Nat /\ DOMAIN original = 1..Len(original) BY ListedShape
<1>3. PICK x : x = last OBVIOUS
<1>4. IsMessage(x, n) /\ x.role = "user" /\ x.calls = {}
  <2>1. CASE asks = {} BY <1>3, <2>1 DEF Blank, IsMessage, Parts
  <2>2. CASE asks # {}
    <3>1. \A y \in asks : y \in Int /\ y <= Len(original) BY <1>2
    <3>2. Max(asks) \in asks
      <4> HIDE DEF asks
      <4> QED BY <1>2, <2>2, <3>1, GreatestOf
    <3>3. PICK k \in 1..Len(original) : x = original[k] /\ original[k].role = "user" BY <1>2, <1>3, <2>2, <3>2
    <3> QED BY <3>3 DEF Listed, IsMessage
  <2> QED BY <2>1, <2>2
<1>5. EnsureUserTurn(original, m) = IF \E k \in DOMAIN m : m[k].role = "user" THEN m ELSE Append(m, x)
      BY <1>3 DEF EnsureUserTurn
<1>6. Append(m, x) = m \o <<x>>
  <2>1. m \in Seq(Range(m) \cup {x}) /\ x \in Range(m) \cup {x} BY <1>1, SeqMonotonic
  <2> QED BY <2>1, AppendIsConcat
<1> QED BY <1>1, <1>4, <1>5, <1>6 DEF HasUser

LEMMA UserTurnEnsured ==
    ASSUME NEW n, NEW original, Listed(original, n), NEW m, Intact(m, n)
    PROVE  /\ Intact(EnsureUserTurn(original, m), n)
           /\ HasUser(EnsureUserTurn(original, m))
<1>1. PICK x : /\ IsMessage(x, n) /\ x.role = "user" /\ x.calls = {}
               /\ EnsureUserTurn(original, m) = IF HasUser(m) THEN m ELSE m \o <<x>>
      BY UserTurnAdded
<1>2. CASE HasUser(m)
  <2>1. EnsureUserTurn(original, m) = m BY <1>1, <1>2
  <2> QED BY <1>2, <2>1
<1>3. CASE ~HasUser(m)
  <2>1. /\ Intact(m \o <<x>>, n) /\ Len(m \o <<x>>) = Len(m) + 1 /\ (m \o <<x>>)[Len(m) + 1] = x
        BY <1>1, MessageAdded
  <2>2. Len(m) \in Nat BY ListedShape DEF Intact
  <2>3. HasUser(m \o <<x>>) BY <1>1, <2>1, <2>2 DEF HasUser
  <2> QED BY <1>1, <1>3, <2>1, <2>3
<1> QED BY <1>2, <1>3

-----------------------------------------------------------------------------
(* Transcripts: the invariant *)

(* A transcript is intact, a call is one of the rounds there were, and who   *)
(* has been asked has a user turn.                                           *)
Transcripts ==
    /\ rounds \in Nat
    /\ DOMAIN transcript = Agents /\ DOMAIN asked = Agents
    /\ \A a \in Agents : /\ Intact(transcript[a], rounds)
                         /\ asked[a] # {} => HasUser(transcript[a])

(* A transcript of fewer rounds is one of more.                              *)
LEMMA MoreRounds ==
    ASSUME NEW n \in Nat, NEW m, Intact(m, n)
    PROVE  Intact(m, n + 1)
<1>1. 1..n \subseteq 1..n + 1 OBVIOUS
<1>2. \A x : IsMessage(x, n) => IsMessage(x, n + 1) BY <1>1 DEF IsMessage
<1> QED BY <1>2 DEF Intact, Listed

LEMMA InitTranscripts == ASSUME Init PROVE Transcripts
<1>1. PICK t \in {<<>>, <<System>>} : transcript = [a \in Agents |-> t] BY DEF Init
<1>2. Intact(t, 0)
  <2>1. CASE t = <<>>
    <3>1. t \in Seq(Range(t)) /\ Len(t) = 0 BY <2>1, EmptySeq
    <3> QED BY <3>1 DEF Intact, Listed, Ordered, Paired
  <2>2. CASE t = <<System>>
    <3>1. Len(t) = 1 /\ t[1] = System /\ t \in Seq({System}) BY <2>2
    <3>2. IsMessage(System, 0) /\ System.role # "tool" /\ System.calls = {}
          BY DEF System, Blank, IsMessage, Parts
    <3>3. Listed(t, 0) BY <3>1, <3>2, IsListed
    <3> QED BY <3>1, <3>2, <3>3 DEF Intact, Ordered, Paired
  <2> QED BY <2>1, <2>2
<1>3. rounds = 0 /\ asked = [a \in Agents |-> {}] BY DEF Init
<1> QED BY <1>1, <1>2, <1>3 DEF Transcripts

(* One transcript changes, and no round is new. *)
LEMMA TranscriptUpdate ==
    ASSUME Transcripts, NEW a \in Agents, NEW l,
           transcript' = [transcript EXCEPT ![a] = l], rounds' = rounds,
           Intact(l, rounds), DOMAIN asked' = Agents,
           \A b \in Agents \ {a} : asked'[b] = asked[b],
           asked'[a] # {} => HasUser(l)
    PROVE  Transcripts'
<1>1. transcript'[a] = l /\ \A b \in Agents \ {a} : transcript'[b] = transcript[b] BY DEF Transcripts
<1>2. DOMAIN transcript' = Agents BY DEF Transcripts
<1> QED BY <1>1, <1>2 DEF Transcripts

(* One lemma for each action that writes a transcript.                       *)
LEMMA AskKeepsTranscripts == ASSUME Transcripts, NEW a \in Agents, Ask(a) PROVE Transcripts'
<1>1. PICK n : /\ asked' = [asked EXCEPT ![a] = @ \cup {n}]
               /\ transcript' = [transcript EXCEPT ![a] = transcript[a] \o <<UserAsks(n)>>]
      BY DEF Ask, Converse
<1>2. PICK x, l : x = UserAsks(n) /\ l = transcript[a] \o <<x>> OBVIOUS
<1>3. PICK r : r = rounds OBVIOUS
<1>4. PICK m : m = transcript[a] OBVIOUS
<1>5. IsMessage(x, r) /\ x.role = "user" /\ x.calls = {}
      BY <1>2 DEF UserAsks, Blank, IsMessage, Parts
<1>6. Intact(m, r) BY <1>3, <1>4 DEF Transcripts
<1>7. Intact(l, r) /\ Len(l) = Len(m) + 1 /\ l[Len(m) + 1] = x BY <1>2, <1>4, <1>5, <1>6, MessageAdded
<1>8. Len(m) \in Nat BY <1>6, ListedShape DEF Intact
<1>9. HasUser(l) BY <1>5, <1>7, <1>8 DEF HasUser
<1>10. UNCHANGED rounds BY DEF Ask
<1>11. DOMAIN asked' = Agents /\ \A b \in Agents \ {a} : asked'[b] = asked[b] BY <1>1 DEF Transcripts
<1> QED BY <1>1, <1>2, <1>3, <1>7, <1>9, <1>10, <1>11, TranscriptUpdate

LEMMA ReplyKeepsTranscripts == ASSUME Transcripts, NEW a \in Agents, Reply(a) PROVE Transcripts'
<1>1. PICK x, l, m, r : x = Answer /\ m = transcript[a] /\ l = m \o <<x>> /\ r = rounds OBVIOUS
<1>2. transcript' = [transcript EXCEPT ![a] = l] /\ UNCHANGED <<asked, rounds>>
      BY <1>1 DEF Reply, Converse
<1>3. IsMessage(x, r) /\ x.role # "tool" /\ x.calls = {}
      BY <1>1 DEF Answer, Blank, IsMessage, Parts
<1>4. Intact(m, r) BY <1>1 DEF Transcripts
<1>5. Intact(l, r) /\ Len(l) = Len(m) + 1 /\ \A k \in 1..Len(m) : l[k] = m[k] BY <1>1, <1>3, <1>4, MessageAdded
<1>6. Len(m) \in Nat BY <1>4, ListedShape DEF Intact
<1>7. HasUser(m) => HasUser(l) BY <1>5, <1>6 DEF HasUser
<1>8. asked[a] # {} => HasUser(m) BY <1>1 DEF Transcripts
<1>9. DOMAIN asked' = Agents BY <1>2 DEF Transcripts
<1> QED BY <1>1, <1>2, <1>5, <1>7, <1>8, <1>9, TranscriptUpdate

LEMMA UseToolKeepsTranscripts == ASSUME Transcripts, NEW a \in Agents, UseTool(a) PROVE Transcripts'
<1>1. PICK w : transcript' = [transcript EXCEPT ![a] = transcript[a] \o <<Calls(rounds + 1), Result(rounds + 1, w)>>]
      BY DEF UseTool, Converse
<1>2. PICK m, r : m = transcript[a] /\ r = rounds OBVIOUS
<1>3. PICK l : l = m \o <<Calls(r + 1), Result(r + 1, w)>> OBVIOUS
<1>4. r \in Nat /\ Intact(m, r) BY <1>2 DEF Transcripts
<1>5. Intact(l, r + 1) /\ Len(l) = Len(m) + 2 /\ \A k \in 1..Len(m) : l[k] = m[k]
      BY <1>3, <1>4, RoundAdded
<1>6. Len(m) \in Nat BY <1>4, ListedShape DEF Intact
<1>7. HasUser(m) => HasUser(l) BY <1>5, <1>6 DEF HasUser
<1>8. rounds' = r + 1 /\ asked' = asked BY <1>2 DEF UseTool
<1>9. transcript' = [transcript EXCEPT ![a] = l] BY <1>1, <1>2, <1>3
<1>10. DOMAIN transcript' = Agents /\ transcript'[a] = l /\ \A b \in Agents \ {a} : transcript'[b] = transcript[b]
       BY <1>9 DEF Transcripts
<1>11. \A b \in Agents : Intact(transcript[b], r + 1) BY <1>2, <1>4, MoreRounds DEF Transcripts
<1>12. \A b \in Agents : Intact(transcript'[b], rounds') BY <1>5, <1>8, <1>10, <1>11
<1>13. \A b \in Agents : asked'[b] # {} => HasUser(transcript'[b]) BY <1>2, <1>7, <1>8, <1>10 DEF Transcripts
<1> QED BY <1>4, <1>8, <1>10, <1>12, <1>13 DEF Transcripts

LEMMA ForkKeepsTranscripts == ASSUME Transcripts, NEW a \in Agents, NEW b \in Agents, Fork(a, b) PROVE Transcripts'
<1>1. /\ transcript' = [transcript EXCEPT ![b] = transcript[a]]
      /\ asked' = [asked EXCEPT ![b] = asked[a]] /\ rounds' = rounds
      BY DEF Fork
<1>2. PICK l : l = transcript[a] OBVIOUS
<1>3. Intact(l, rounds) /\ (asked[a] # {} => HasUser(l)) BY <1>2 DEF Transcripts
<1>4. DOMAIN asked' = Agents /\ asked'[b] = asked[a] /\ \A c \in Agents \ {b} : asked'[c] = asked[c]
      BY <1>1 DEF Transcripts
<1> QED BY <1>1, <1>2, <1>3, <1>4, TranscriptUpdate

(* The middle lies between two boundaries. *)
LEMMA WindowBoundaries ==
    ASSUME NEW a \in Agents, NEW c, NEW n, Intact(transcript[a], n), NEW w, w = Window(a, c)
    PROVE  /\ w.short => w.empty
           /\ ~w.short => Intact(w.messages, n)
           /\ ~w.empty => /\ ~w.short
                          /\ w.start \in 0..Len(w.messages)
                          /\ w.end \in Int /\ w.start < w.end
<1>1. PICK m : m = Prune(transcript[a]) OBVIOUS
<1>2. PICK head : head = ProtectHead(m, c.count, c.previous) OBVIOUS
<1>3. PICK start : start = AlignForward(m, head) OBVIOUS
<1>4. PICK end : end = TailCut(m, start) OBVIOUS
<1>5. PICK known, turns : /\ known = Rehydrated(m, end, c.previous)
                          /\ turns = AsksOf(TurnsToSummarize(m, start, end))
      OBVIOUS
<1>6. w = IF Len(m) <= head + 4
          THEN [short |-> TRUE, empty |-> TRUE]
          ELSE [short |-> FALSE, empty |-> start >= end, messages |-> m, start |-> start, end |-> end, known |-> known, turns |-> turns]
      BY <1>1, <1>2, <1>3, <1>4, <1>5 DEF Window
<1>7. Intact(m, n)
  <2>1. PICK t : t = transcript[a] OBVIOUS
  <2>2. Intact(t, n) BY <2>1
  <2> QED BY <1>1, <2>1, <2>2, PruneKeepsPairs
<1>8. Len(m) \in Nat BY <1>7, ListedShape DEF Intact
<1>9. head \in Nat
  <2>1. PICK x, y : /\ x = IF m # <<>> /\ m[1].role = "system" THEN 1 ELSE 0
                    /\ y = IF c.count >= 1 \/ c.previous # Nothing THEN 0 ELSE ProtectFirst
        OBVIOUS
  <2>2. x \in Nat BY <2>1
  <2>3. ProtectFirst \in Nat BY CompactionAssumption
  <2>4. y \in Nat BY <2>1, <2>3
  <2>5. head = x + y BY <1>2, <2>1 DEF ProtectHead
  <2> QED BY <2>2, <2>4, <2>5
<1>10. start \in 0..Len(m)
  <2>1. head \in Int /\ head >= 0 BY <1>9
  <2> QED BY <1>3, <1>8, <2>1, ForwardBoundary
<1>11. end \in Int
  <2>1. start \in Int BY <1>10
  <2> QED BY <1>4, <1>8, <2>1, TailBoundary
<1>12. CASE Len(m) <= head + 4 BY <1>6, <1>12
<1>13. CASE ~(Len(m) <= head + 4)
  <2>1. /\ w.short = FALSE /\ w.empty = (start >= end) /\ w.messages = m
        /\ w.start = start /\ w.end = end
        BY <1>6, <1>13
  <2>2. ~(start >= end) => start < end BY <1>10, <1>11
  <2> QED BY <1>7, <1>10, <1>11, <2>1, <2>2
<1> QED BY <1>12, <1>13

(* No middle, an abort, or a compaction. *)
LEMMA SummarizeCases ==
    ASSUME NEW a \in Agents, Summarize(a)
    PROVE  \E c, w : /\ c \in {compressor[a], [compressor[a] EXCEPT !.cooling = FALSE]}
                     /\ w = Window(a, c)
                     /\ \/ NoMiddle(a, c, w)
                        \/ /\ ~w.empty
                           /\ \/ UNCHANGED transcript
                              \/ \E s : Compact(a, s, w)
<1>1. PICK c : c = IF pc[a] = "manual" THEN [compressor[a] EXCEPT !.cooling = FALSE] ELSE compressor[a] OBVIOUS
<1>2. PICK w : w = Window(a, c) OBVIOUS
<1>3. \/ NoMiddle(a, c, w)
      \/ /\ ~w.empty
         /\ \E s \in AfterSummary([c EXCEPT !.previous = w.known], Told(w)) :
               IF Aborts(s) THEN UNCHANGED transcript ELSE Compact(a, s, w)
      BY <1>1, <1>2 DEF Summarize
<1>4. c \in {compressor[a], [compressor[a] EXCEPT !.cooling = FALSE]} BY <1>1
<1>5. \/ NoMiddle(a, c, w)
      \/ ~w.empty /\ (UNCHANGED transcript \/ \E s : Compact(a, s, w))
      BY <1>3
<1> QED BY <1>2, <1>4, <1>5

LEMMA SummarizeKeepsTranscripts == ASSUME Transcripts, NEW a \in Agents, Summarize(a) PROVE Transcripts'
<1>1. PICK c, w : /\ w = Window(a, c)
                  /\ \/ NoMiddle(a, c, w)
                     \/ /\ ~w.empty
                        /\ \/ UNCHANGED transcript
                           \/ \E s : Compact(a, s, w)
      BY SummarizeCases
<1>2. PICK n, t : n = rounds /\ t = transcript[a] OBVIOUS
<1>3. Intact(t, n) /\ Listed(t, n) BY <1>2 DEF Transcripts, Intact
<1>4. /\ w.short => w.empty
      /\ ~w.short => Intact(w.messages, n)
      /\ ~w.empty => /\ ~w.short
                     /\ w.start \in 0..Len(w.messages)
                     /\ w.end \in Int /\ w.start < w.end
      BY <1>1, <1>2, <1>3, WindowBoundaries
<1>5. UNCHANGED <<asked, rounds>> BY DEF Summarize, counters
<1>6. DOMAIN asked' = Agents BY <1>5 DEF Transcripts
<1>7. ASSUME NEW original, Listed(original, n), NEW m, Intact(m, n),
             transcript' = [transcript EXCEPT ![a] = EnsureUserTurn(original, m)]
      PROVE  Transcripts'
  <2>1. PICK l : l = EnsureUserTurn(original, m) OBVIOUS
  <2>2. Intact(l, n) /\ HasUser(l) BY <1>7, <2>1, UserTurnEnsured
  <2> QED BY <1>2, <1>5, <1>6, <1>7, <2>1, <2>2, TranscriptUpdate
<1>8. CASE NoMiddle(a, c, w)
  <2>1. PICK m : m = IF w.short THEN t ELSE w.messages OBVIOUS
  <2>2. transcript' = [transcript EXCEPT ![a] = EnsureUserTurn(t, m)] BY <1>2, <1>8, <2>1 DEF NoMiddle
  <2>3. Intact(m, n) BY <1>3, <1>4, <2>1
  <2> QED BY <1>3, <1>7, <2>2, <2>3
<1>9. CASE UNCHANGED transcript BY <1>5, <1>9 DEF Transcripts
<1>10. ASSUME NEW s, ~w.empty, Compact(a, s, w) PROVE Transcripts'
  <2>1. PICK m, start, end : m = w.messages /\ start = w.start /\ end = w.end OBVIOUS
  <2>2. PICK covers : covers = IF s.cooling THEN Makeshift(w) ELSE Told(w) OBVIOUS
  <2>3. PICK after : /\ after = Assemble(m, start, end, covers)
                     /\ transcript' = [transcript EXCEPT ![a] = EnsureUserTurn(m, after)]
        BY <1>10, <2>1, <2>2 DEF Compact
  <2>4. Intact(m, n) /\ Listed(m, n) /\ Ordered(m) BY <1>4, <1>10, <2>1 DEF Intact
  <2>5. start \in 0..Len(m) /\ end \in Int /\ start < end BY <1>4, <1>10, <2>1
  <2>6. Intact(after, n) BY <2>3, <2>4, <2>5, AssembledInOrder
  <2> QED BY <1>7, <2>3, <2>4, <2>6
<1> QED BY <1>1, <1>8, <1>9, <1>10

(* The other actions write none.                                             *)
LEMMA TranscriptsInductive == ASSUME Transcripts, [Next]_vars PROVE Transcripts'
<1>1. ASSUME NEW a \in Agents, AgentNext(a) PROVE Transcripts'
  <2>1. CASE Ask(a) BY <2>1, AskKeepsTranscripts
  <2>2. CASE UseTool(a) BY <2>2, UseToolKeepsTranscripts
  <2>3. CASE Reply(a) BY <2>3, ReplyKeepsTranscripts
  <2>4. CASE Summarize(a) BY <2>4, SummarizeKeepsTranscripts
  <2>5. CASE UNCHANGED <<asked, rounds, transcript>> BY <2>5 DEF Transcripts
  <2>6. AdoptCooldown(a) \/ CoolOff(a) => UNCHANGED <<asked, rounds, transcript>>
        BY DEF AdoptCooldown, CoolOff, counters
  <2>7. Begin(a) => UNCHANGED <<asked, rounds, transcript>> BY DEF Begin
  <2>8. EndSession(a) \/ CreateSession(a) => UNCHANGED <<asked, rounds, transcript>>
        BY DEF EndSession, CreateSession
  <2>9. Archive(a) \/ Boundary(a) => UNCHANGED <<asked, rounds, transcript>>
        BY DEF Archive, Boundary, counters
  <2>10. Restart(a) \/ Crash(a) => UNCHANGED <<asked, rounds, transcript>> BY DEF Restart, Crash
  <2> QED BY <1>1, <2>1, <2>2, <2>3, <2>4, <2>5, <2>6, <2>7, <2>8, <2>9, <2>10 DEF AgentNext
<1>2. ASSUME NEW a \in Agents, NEW b \in Agents, Fork(a, b) PROVE Transcripts'
      BY <1>2, ForkKeepsTranscripts
<1>3. ASSUME NEW s \in DOMAIN lock, Lapse(s) \/ Expire(s) PROVE Transcripts'
      BY <1>3 DEF Lapse, Expire, counters, local, Transcripts
<1>4. CASE UNCHANGED vars BY <1>4 DEF vars, counters, local, Transcripts
<1> QED BY <1>1, <1>2, <1>3, <1>4 DEF Next

-----------------------------------------------------------------------------
(* The latest message: settled transcripts *)

(* A message of the user's own, which no handoff summary has gone into.      *)
Own(x) == x.role = "user" /\ ~x.summary

SystemCount(m) == IF Len(m) > 0 /\ m[1].role = "system" THEN 1 ELSE 0

(* A result stands right behind its call, only the first message is a system *)
(* prompt, and a summary is right behind a message of the user's own only at *)
(* the end of a head of at least two (compress, 2779-2790).                  *)
Settled(m) ==
    /\ \A k \in 1..Len(m) : m[k].role = "tool" => ~m[k].summary
    /\ \A k \in 2..Len(m) : m[k].role # "system"
    /\ \A j, k \in 1..Len(m) : m[k].role = "tool" /\ m[k].of \in m[j].calls => j = k - 1
    /\ \A p \in 1..Len(m) - 1 :
          Own(m[p]) /\ m[p + 1].summary => p - SystemCount(m) \in 2..ProtectFirst

(* The same message, but for its text, its weight and calls it has lost.     *)
Alike(x, y) ==
    x.role = y.role /\ x.of = y.of /\ x.calls \subseteq y.calls
      /\ x.summary = y.summary /\ x.asks = y.asks /\ x.covers = y.covers

(* A result's call is the message before it. *)
LEMMA BehindItsCall ==
    ASSUME NEW m, NEW n, Intact(m, n), Settled(m), NEW k \in 1..Len(m), m[k].role = "tool"
    PROVE  /\ k - 1 \in 1..Len(m) /\ m[k].of \in m[k - 1].calls
           /\ m[k - 1].role = "assistant"
<1>1. PICK j \in 1..Len(m) : m[k].of \in m[j].calls BY DEF Intact, Paired
<1>2. j = k - 1 BY <1>1 DEF Settled
<1>3. m[j].calls # {} /\ IsMessage(m[j], n) BY <1>1 DEF Intact, Listed
<1>4. m[j].role = "assistant" BY <1>3 DEF IsMessage
<1> QED BY <1>1, <1>2, <1>4

(* Pruning leaves everything but the weights. *)
LEMMA PruneIsAlike ==
    ASSUME NEW n, NEW m, Intact(m, n)
    PROVE  /\ Len(Prune(m)) = Len(m)
           /\ \A k \in 1..Len(m) : Alike(Prune(m)[k], m[k]) /\ Prune(m)[k].calls = m[k].calls
<1> DEFINE Shrunk(x) == [x EXCEPT !.weight = Small]
<1>1. PICK l : l = Prune(m) OBVIOUS
<1>2. Len(m) \in Nat /\ DOMAIN m = 1..Len(m) /\ \A k \in 1..Len(m) : IsMessage(m[k], n)
      BY ListedShape DEF Intact, Listed
<1>3. CASE TailBudget > 0
  <2>1. PICK boundary :
           l = [k \in DOMAIN m |-> IF k <= boundary /\ m[k].role = "tool" THEN Shrunk(m[k]) ELSE m[k]]
    <3> DEFINE floor == Min({ProtectLast, Len(m)})
               walk == HighestOr(Overflows(m, 0, floor, TailBudget), 0)
    <3>1. PICK b : b = Len(m) - Max({Len(m) - walk, floor}) OBVIOUS
    <3>2. l = [k \in DOMAIN m |-> IF k <= b /\ m[k].role = "tool" THEN Shrunk(m[k]) ELSE m[k]]
          BY <1>1, <1>3, <3>1 DEF Prune
    <3> QED BY <3>2
  <2>2. ASSUME NEW x, IsMessage(x, n)
        PROVE  Alike(Shrunk(x), x) /\ Shrunk(x).calls = x.calls
        BY <2>2 DEF IsMessage, Parts, Alike
  <2> HIDE DEF Shrunk
  <2>3. \A k \in 1..Len(m) : l[k] \in {Shrunk(m[k]), m[k]} BY <1>2, <2>1
  <2>4. ASSUME NEW k \in 1..Len(m) PROVE Alike(l[k], m[k]) /\ l[k].calls = m[k].calls
    <3>1. CASE l[k] = m[k] BY <3>1 DEF Alike
    <3>2. CASE l[k] = Shrunk(m[k]) BY <1>2, <2>2, <3>2
    <3> QED BY <2>3, <3>1, <3>2
  <2>5. Len(l) = Len(m)
    <3>1. l = [k \in 1..Len(m) |-> l[k]] BY <1>2, <2>1
    <3> QED BY <1>2, <3>1, FunctionIsSequence
  <2> QED BY <1>1, <2>4, <2>5
<1>4. CASE ~(TailBudget > 0) BY <1>4 DEF Prune, Alike
<1> QED BY <1>3, <1>4

LEMMA PruneSettled ==
    ASSUME NEW n, NEW m, Intact(m, n), Settled(m)
    PROVE  Settled(Prune(m)) /\ SystemCount(Prune(m)) = SystemCount(m)
<1>1. PICK l : l = Prune(m) OBVIOUS
<1>2. Len(l) = Len(m) /\ \A k \in 1..Len(m) : Alike(l[k], m[k]) /\ l[k].calls = m[k].calls
      BY <1>1, PruneIsAlike
<1>3. Len(m) \in Nat BY ListedShape DEF Intact
<1>4. \A k \in 1..Len(m) : /\ l[k].role = m[k].role /\ l[k].of = m[k].of /\ l[k].calls = m[k].calls
                           /\ l[k].summary = m[k].summary
      BY <1>2 DEF Alike
<1>5. SystemCount(l) = SystemCount(m) BY <1>2, <1>3, <1>4 DEF SystemCount
<1>6. \A k \in 1..Len(l) : l[k].role = "tool" => ~l[k].summary BY <1>2, <1>4 DEF Settled
<1>7. \A k \in 2..Len(l) : l[k].role # "system" BY <1>2, <1>3, <1>4 DEF Settled
<1>8. \A j, k \in 1..Len(l) : l[k].role = "tool" /\ l[k].of \in l[j].calls => j = k - 1
      BY <1>2, <1>4 DEF Settled
<1>9. ASSUME NEW p \in 1..Len(l) - 1, Own(l[p]), l[p + 1].summary
      PROVE  p - SystemCount(l) \in 2..ProtectFirst
  <2>1. p \in 1..Len(m) /\ p + 1 \in 1..Len(m) BY <1>2, <1>3
  <2>2. Own(m[p]) /\ m[p + 1].summary BY <1>4, <1>9, <2>1 DEF Own
  <2> QED BY <1>2, <1>5, <2>2 DEF Settled
<1> QED BY <1>1, <1>5, <1>6, <1>7, <1>8, <1>9 DEF Settled

-----------------------------------------------------------------------------
(* The latest message: where the head ends and the tail begins *)

(* Moved forward, a boundary passes results only. *)
LEMMA ForwardPassesResults ==
    ASSUME NEW m, Len(m) \in Nat, NEW b \in 0..Len(m)
    PROVE  /\ AlignForward(m, b) \in b..Len(m)
           /\ \A k \in b + 1..AlignForward(m, b) : m[k].role = "tool"
<1> DEFINE S == {k \in b..Len(m) - 1 : m[k + 1].role # "tool"}
<1>1. PICK s : s = AlignForward(m, b) OBVIOUS
<1>2. s = LowestOr(S, Len(m)) BY <1>1 DEF AlignForward
<1>3. S \subseteq b..Len(m) - 1 /\ Len(m) \in Int /\ b \in Int /\ Len(m) - 1 \in Int OBVIOUS
<1>4. s \in Int /\ s \in S \cup {Len(m)} /\ \A k \in S : s <= k
  <2>1. PICK e, d : e = Len(m) - 1 /\ d = Len(m) OBVIOUS
  <2>2. S \subseteq b..e /\ b \in Int /\ e \in Int /\ d \in Int BY <1>3, <2>1
  <2> HIDE DEF S
  <2>3. /\ LowestOr(S, d) \in Int /\ LowestOr(S, d) \in S \cup {d}
        /\ \A y \in S : LowestOr(S, d) <= y
        BY <2>2, Extremes
  <2> QED BY <1>2, <2>1, <2>3
<1>5. s \in b..Len(m) BY <1>3, <1>4
<1>6. ASSUME NEW k \in b + 1..s PROVE m[k].role = "tool"
  <2>1. k - 1 \in b..Len(m) - 1 /\ (k - 1) + 1 = k BY <1>5
  <2>2. k - 1 \notin S
    <3> HIDE DEF S
    <3> QED BY <1>4, <1>5
  <2> QED BY <2>1, <2>2
<1> QED BY <1>1, <1>5, <1>6

(* No two results follow each other: each has its call before it. *)
LEMMA ForwardByOne ==
    ASSUME NEW m, NEW n, Intact(m, n), Settled(m), NEW b \in 0..Len(m)
    PROVE  /\ AlignForward(m, b) \in b..Len(m) /\ AlignForward(m, b) <= b + 1
           /\ \A k \in b + 1..AlignForward(m, b) : m[k].role = "tool"
<1>1. Len(m) \in Nat BY ListedShape DEF Intact
<1>2. PICK s : s = AlignForward(m, b) OBVIOUS
<1>3. s \in b..Len(m) /\ \A k \in b + 1..s : m[k].role = "tool" BY <1>1, <1>2, ForwardPassesResults
<1>4. s <= b + 1
  <2> SUFFICES ASSUME s > b + 1 PROVE FALSE BY <1>3
  <2>1. b + 1 \in b + 1..s /\ b + 2 \in b + 1..s /\ b + 2 \in 1..Len(m) /\ (b + 2) - 1 = b + 1
        BY <1>1, <1>3
  <2>2. m[b + 1].role = "tool" /\ m[b + 2].role = "tool" BY <1>3, <2>1
  <2>3. m[(b + 2) - 1].role = "assistant" BY <2>1, <2>2, BehindItsCall
  <2> QED BY <2>1, <2>2, <2>3
<1> QED BY <1>2, <1>3, <1>4

(* The head: the system prompt and, in the first compaction, ProtectFirst    *)
(* messages more, or one more still if that is a result.                     *)
LEMMA HeadOf ==
    ASSUME NEW m, NEW n, Intact(m, n), Settled(m), NEW count, NEW previous,
           NEW head, head = ProtectHead(m, count, previous), head <= Len(m),
           NEW start, start = AlignForward(m, head)
    PROVE  /\ start \in head..Len(m) /\ start <= head + 1
           /\ head = SystemCount(m) => start = head
           /\ head \in {SystemCount(m), SystemCount(m) + ProtectFirst}
           /\ start # head => m[start].role = "tool"
<1>1. Len(m) \in Nat /\ m \in Seq(Range(m)) BY ListedShape DEF Intact, Listed
<1>2. m # <<>> <=> Len(m) > 0 BY <1>1, EmptySeq
<1>3. SystemCount(m) \in {0, 1} /\ SystemCount(m) = IF m # <<>> /\ m[1].role = "system" THEN 1 ELSE 0
      BY <1>2 DEF SystemCount
<1>4. head \in {SystemCount(m), SystemCount(m) + ProtectFirst} /\ head \in Nat
  <2>1. PICK x : x = SystemCount(m) OBVIOUS
  <2>2. head = x + (IF count >= 1 \/ previous # Nothing THEN 0 ELSE ProtectFirst)
        BY <1>3, <2>1 DEF ProtectHead
  <2>3. x \in Nat /\ ProtectFirst \in Nat BY <1>3, <2>1, CompactionAssumption
  <2>4. head = x \/ head = x + ProtectFirst BY <2>2, <2>3
  <2> QED BY <2>1, <2>3, <2>4
<1>5. head \in 0..Len(m) BY <1>1, <1>4
<1>6. /\ start \in head..Len(m) /\ start <= head + 1
      /\ \A k \in head + 1..start : m[k].role = "tool"
      BY <1>5, ForwardByOne
<1>7. start # head => start = head + 1 /\ start \in head + 1..start /\ start \in 1..Len(m) BY <1>1, <1>4, <1>6
<1>8. start # head => m[start].role = "tool" BY <1>6, <1>7
<1>9. ASSUME head = SystemCount(m), start # head PROVE FALSE
  <2>1. start \in 1..Len(m) /\ start = head + 1 /\ m[start].role = "tool" BY <1>7, <1>8, <1>9
  <2>2. start - 1 \in 1..Len(m) /\ m[start - 1].role = "assistant" BY <2>1, BehindItsCall
  <2>3. start - 1 = 1 /\ SystemCount(m) = 1 BY <1>3, <1>9, <2>1, <2>2
  <2>4. m[1].role = "system" BY <2>3 DEF SystemCount
  <2> QED BY <2>2, <2>3, <2>4
<1> QED BY <1>4, <1>6, <1>8, <1>9

LEMMA BackwardNotForward ==
    ASSUME NEW m, NEW b \in Int
    PROVE  AlignBackward(m, b) \in Int /\ AlignBackward(m, b) <= b
<1> DEFINE S == {k \in 1..b : m[k].role # "tool"}
<1>1. PICK parent : parent = HighestOr(S, 0) OBVIOUS
<1>2. S \subseteq 1..b /\ 0 \in Int /\ 1 \in Int OBVIOUS
<1>3. parent \in Int /\ parent \in S \cup {0}
  <2> HIDE DEF S
  <2> QED BY <1>1, <1>2, Extremes
<1>4. AlignBackward(m, b) = IF b \in 1..Len(m) - 1 /\ parent > 0 /\ m[parent].role = "assistant" /\ m[parent].calls # {}
                            THEN parent - 1 ELSE b
      BY <1>1 DEF AlignBackward
<1>5. parent > 0 => parent <= b BY <1>3
<1> QED BY <1>3, <1>4, <1>5

(* The assistant's anchor moves the cut back, but not into the head. *)
LEMMA AssistantCutNotForward ==
    ASSUME NEW m, Len(m) \in Nat, NEW head \in Int, NEW cut \in Int
    PROVE  /\ KeepLastAssistant(m, cut, head) \in Int
           /\ KeepLastAssistant(m, cut, head) <= cut \/ KeepLastAssistant(m, cut, head) = head + 1
<1>1. PICK last : last = LastAssistant(m, head) OBVIOUS
<1>2. PICK k : k = KeepLastAssistant(m, cut, head) OBVIOUS
<1>3. last \in Int
  <2> DEFINE replies == {j \in head + 1..Len(m) : m[j].role = "assistant"}
             said == {j \in replies : m[j].text}
             S == IF said # {} THEN said ELSE replies
  <2>1. S \subseteq head + 1..Len(m) /\ head + 1 \in Int /\ Len(m) \in Int /\ 0 \in Int OBVIOUS
  <2>2. last = HighestOr(S, 0) - 1 BY <1>1 DEF LastAssistant
  <2>3. HighestOr(S, 0) \in Int
    <3> HIDE DEF S
    <3> QED BY <2>1, Extremes
  <2> HIDE DEF S
  <2> QED BY <2>2, <2>3
<1>4. PICK b : b = AlignBackward(m, last) OBVIOUS
<1>5. b \in Int /\ b <= last BY <1>3, <1>4, BackwardNotForward
<1>6. head + 1 \in Int OBVIOUS
<1>7. Max({b, head + 1}) \in {b, head + 1} BY <1>5, <1>6, MaxOfTwo
<1>8. k = IF last < 0 \/ last >= cut THEN cut ELSE Max({b, head + 1})
      BY <1>1, <1>2, <1>4 DEF KeepLastAssistant
<1>9. k = cut \/ (k = b /\ last < cut) \/ k = head + 1 BY <1>3, <1>7, <1>8
<1> QED BY <1>2, <1>3, <1>5, <1>6, <1>9

(* The user's anchor: the cut is not behind the user's latest message, or it *)
(* is behind the reply to it, if that message is the first behind the head.  *)
LEMMA UserCutKeepsAsk ==
    ASSUME NEW m, NEW n, Intact(m, n), Settled(m),
           NEW start \in 0..Len(m), start + 3 < Len(m),
           NEW u \in start + 1..Len(m), Own(m[u]), \A k \in u + 1..Len(m) : ~Own(m[k]),
           u = start + 1 => ~m[u + 1].summary,
           NEW cut \in Int, NEW x, x = KeepLastUser(m, cut, start)
    PROVE  /\ x \in Int
           /\ \/ x < u
              \/ u = start + 1 /\ x <= start + 3 /\ \A k \in u..x : ~m[k].summary
<1>1. Len(m) \in Nat BY ListedShape DEF Intact
<1>2. LastUser(m, start) = u - 1
  <2> DEFINE S == {k \in start + 1..Len(m) : m[k].role = "user" /\ ~m[k].summary}
  <2>1. PICK lo, hi : lo = start + 1 /\ hi = Len(m) OBVIOUS
  <2>2. S \subseteq lo..hi /\ lo \in Int /\ hi \in Int /\ 0 \in Int BY <1>1, <2>1
  <2>3. u \in S /\ S # {} BY DEF Own
  <2>4. \A k \in S : k <= u
    <3> SUFFICES ASSUME NEW k \in S, ~(k <= u) PROVE FALSE OBVIOUS
    <3>1. k \in u + 1..Len(m) BY <1>1
    <3> QED BY <3>1 DEF Own
  <2>5. LastUser(m, start) = HighestOr(S, 0) - 1 BY DEF LastUser
  <2> HIDE DEF S
  <2>6. HighestOr(S, 0) \in S /\ HighestOr(S, 0) \in Int /\ \A y \in S : y <= HighestOr(S, 0)
        BY <2>2, <2>3, Extremes
  <2>7. HighestOr(S, 0) = u BY <2>3, <2>4, <2>6
  <2> QED BY <2>5, <2>7
<1>3. PICK user : user = LastUser(m, start) OBVIOUS
<1>4. user = u - 1 /\ user \in Int /\ user >= 0 BY <1>1, <1>2, <1>3
<1>5. x = IF user < 0 \/ user >= cut THEN cut
          ELSE IF start + 1 <= user THEN user
          ELSE Max({PairEnd(m, user), start + 1})
      BY <1>3 DEF KeepLastUser
<1>6. CASE user >= cut
  <2>1. x = cut BY <1>4, <1>5, <1>6
  <2> QED BY <1>4, <1>6, <2>1
<1>7. CASE ~(user >= cut) /\ start + 1 <= user
  <2>1. x = user BY <1>4, <1>5, <1>7
  <2> QED BY <1>4, <2>1
<1>8. CASE ~(user >= cut) /\ ~(start + 1 <= user)
  <2>1. x = Max({PairEnd(m, user), start + 1}) BY <1>4, <1>5, <1>8
  <2>2. u = start + 1 BY <1>1, <1>4, <1>8
  <2>3. PICK p : p = PairEnd(m, user) OBVIOUS
  <2>4. p \in u..u + 2 /\ \A k \in u + 2..p : m[k].role = "tool"
    <3>1. PICK v : v = user + 2 OBVIOUS
    <3>2. v = u + 1 /\ v \in 0..Len(m) /\ v + 1 = u + 2 BY <1>1, <1>4, <2>2, <3>1
    <3>3. /\ AlignForward(m, v) \in v..Len(m) /\ AlignForward(m, v) <= v + 1
          /\ \A k \in v + 1..AlignForward(m, v) : m[k].role = "tool"
          BY <3>2, ForwardByOne
    <3>4. p = AlignForward(m, v) \/ p = u BY <1>4, <2>3, <3>1, <3>2 DEF PairEnd
    <3>5. CASE p = AlignForward(m, v)
      <4>1. p \in v..Len(m) /\ p <= v + 1 /\ \A k \in v + 1..p : m[k].role = "tool" BY <3>3, <3>5
      <4> QED BY <1>1, <3>2, <4>1
    <3>6. CASE p = u BY <1>1, <3>6
    <3> QED BY <3>4, <3>5, <3>6
  <2>5. x = p
    <3>1. p \in Int /\ start + 1 \in Int /\ p >= start + 1 BY <2>2, <2>4
    <3>2. Max({p, start + 1}) >= p /\ Max({p, start + 1}) \in {p, start + 1} BY <3>1, MaxOfTwo
    <3> QED BY <2>1, <2>3, <3>1, <3>2
  <2>6. ASSUME NEW k \in u..x PROVE ~m[k].summary
    <3>1. CASE k = u BY <3>1 DEF Own
    <3>2. CASE k = u + 1 BY <2>2, <3>2
    <3>3. CASE k \in u + 2..p
      <4>1. k \in 1..Len(m) BY <1>1, <2>2, <2>4, <3>3
      <4> QED BY <2>4, <3>3, <4>1 DEF Settled
    <3> QED BY <1>1, <2>4, <2>5, <3>1, <3>2, <3>3
  <2> QED BY <2>2, <2>4, <2>5, <2>6
<1> QED BY <1>4, <1>6, <1>7, <1>8

LEMMA TailKeepsAsk ==
    ASSUME NEW m, NEW n, Intact(m, n), Settled(m),
           NEW start \in 0..Len(m), start + 3 < Len(m),
           NEW u \in start + 1..Len(m), Own(m[u]), \A k \in u + 1..Len(m) : ~Own(m[k]),
           u = start + 1 => ~m[u + 1].summary,
           NEW end, end = TailCut(m, start)
    PROVE  /\ end \in Int
           /\ \/ end < u
              \/ u = start + 1 /\ end < Len(m) /\ \A k \in u..end : ~m[k].summary
<1>1. Len(m) \in Nat /\ start \in Int BY ListedShape DEF Intact
<1>2. PICK cut : cut = BudgetCut(m, start) OBVIOUS
<1>3. cut \in Int BY <1>1, <1>2, CutIsNumber
<1>4. PICK x : x = KeepLastUser(m, cut, start) OBVIOUS
<1>5. /\ x \in Int
      /\ \/ x < u
         \/ u = start + 1 /\ x <= start + 3 /\ \A k \in u..x : ~m[k].summary
      BY <1>3, <1>4, UserCutKeepsAsk
<1>6. PICK y : y = KeepLastAssistant(m, x, start) OBVIOUS
<1>7. y \in Int /\ (y <= x \/ y = start + 1) BY <1>1, <1>5, <1>6, AssistantCutNotForward
<1>8. end = Max({y, start + 1}) BY <1>2, <1>4, <1>6 DEF TailCut
<1>9. end \in Int /\ (end <= x \/ end = start + 1) /\ end >= start + 1
  <2>1. start + 1 \in Int BY <1>1
  <2>2. /\ Max({y, start + 1}) \in Int /\ Max({y, start + 1}) >= start + 1
        /\ Max({y, start + 1}) \in {y, start + 1}
        BY <1>7, <2>1, MaxOfTwo
  <2> QED BY <1>7, <1>8, <2>2
<1>10. CASE end = start + 1 /\ ~(end < u)
  <2>1. u = end BY <1>1, <1>9, <1>10
  <2>2. \A k \in u..end : k = u BY <2>1
  <2> QED BY <1>1, <1>9, <1>10, <2>1, <2>2 DEF Own
<1>11. CASE end <= x /\ ~(end < u)
  <2>1. u = start + 1 /\ x <= start + 3 /\ \A k \in u..x : ~m[k].summary BY <1>1, <1>5, <1>9, <1>11
  <2>2. u..end \subseteq u..x BY <1>5, <1>9, <1>11
  <2> QED BY <1>1, <1>5, <1>9, <1>11, <2>1, <2>2
<1> QED BY <1>9, <1>10, <1>11

-----------------------------------------------------------------------------
(* The latest message: what is summarized, and what the repair leaves *)

(* The middle is summarized from its first message, unless an earlier        *)
(* summary is in it.                                                         *)
LEMMA AskIsSummarized ==
    ASSUME NEW m, NEW n, Listed(m, n), NEW start \in 0..Len(m), NEW end \in Int,
           start < end, end < Len(m), \A k \in start + 1..end : ~m[k].summary
    PROVE  m[start + 1].asks \subseteq AsksOf(TurnsToSummarize(m, start, end))
<1>1. Len(m) \in Nat /\ m \in Seq(Range(m)) BY ListedShape DEF Listed
<1>2. PICK at : at = LatestSummary(m, end) OBVIOUS
<1>3. at \in Int /\ at <= start
  <2>1. PICK from : from = IF m # <<>> /\ m[1].role = "system" THEN 2 ELSE 1 OBVIOUS
  <2> DEFINE S == {k \in from..end : m[k].summary}
  <2>2. S \subseteq from..end /\ from \in Int /\ 0 \in Int /\ from >= 1 BY <2>1
  <2>3. \A k \in S : k <= start
    <3> SUFFICES ASSUME NEW k \in S, ~(k <= start) PROVE FALSE BY <2>2
    <3>1. k \in start + 1..end BY <2>2
    <3> QED BY <3>1
  <2>4. at = HighestOr(S, 0) BY <1>2, <2>1 DEF LatestSummary
  <2> HIDE DEF S
  <2>5. HighestOr(S, 0) \in Int /\ HighestOr(S, 0) \in S \cup {0} BY <2>2, Extremes
  <2> QED BY <2>3, <2>4, <2>5
<1>4. Max({start, at}) = start
  <2>1. start \in Int OBVIOUS
  <2>2. Max({start, at}) \in {start, at} /\ Max({start, at}) >= start BY <1>3, <2>1, MaxOfTwo
  <2> QED BY <1>3, <2>1, <2>2
<1>5. PICK s : s = SubSeq(m, start + 1, end) OBVIOUS
<1>6. TurnsToSummarize(m, start, end) = s BY <1>2, <1>4, <1>5 DEF TurnsToSummarize
<1>7. 1 \in DOMAIN s /\ s[1] = m[start + 1]
  <2>1. start + 1 \in Int /\ \A i \in start + 1..end : m[i] \in Range(m)
    <3>1. start + 1..end \subseteq 1..Len(m) BY <1>1
    <3> QED BY <3>1, ListedShape
  <2>2. /\ s \in Seq(Range(m)) /\ Len(s) = IF start + 1 <= end THEN end - (start + 1) + 1 ELSE 0
        /\ \A i \in 1..end - (start + 1) + 1 : s[i] = m[(start + 1) + i - 1]
        BY <1>5, <2>1, SubSeqProperties
  <2>3. 1 \in 1..end - (start + 1) + 1 /\ (start + 1) + 1 - 1 = start + 1 BY <1>1
  <2>4. Len(s) = end - start BY <2>2
  <2>5. 1 \in 1..Len(s) BY <2>4
  <2> QED BY <2>2, <2>3, <2>5, LenProperties
<1> QED BY <1>6, <1>7 DEF AsksOf

(* The numbers of a range, counted; and the places of a set of numbers.      *)
LEMMA PlacesCount ==
    ASSUME NEW n \in Nat, NEW S, S \subseteq 1..n
    PROVE  /\ \A i \in 1..Cardinality(S) : i <= Position(S, i)
           /\ \A k \in 1..n : 1..k \subseteq S => k \in 1..Cardinality(S) /\ Position(S, k) = k
<1>1. /\ Cardinality(S) \in Nat
      /\ \A i \in 1..Cardinality(S) : Position(S, i) \in S
      /\ \A k \in S : \E i \in 1..Cardinality(S) : Position(S, i) = k
      /\ \A i \in 1..Cardinality(S) : Cardinality({j \in S : j < Position(S, i)}) = i - 1
      BY PositionsInOrder
<1>2. \A k \in 1..n : /\ IsFiniteSet(1..k - 1) /\ Cardinality(1..k - 1) = k - 1
  <2> SUFFICES ASSUME NEW k \in 1..n PROVE IsFiniteSet(1..k - 1) /\ Cardinality(1..k - 1) = k - 1 OBVIOUS
  <2>1. 1 \in Int /\ k - 1 \in Int OBVIOUS
  <2>2. IsFiniteSet(1..k - 1) /\ Cardinality(1..k - 1) = IF 1 > k - 1 THEN 0 ELSE (k - 1) - 1 + 1
        BY <2>1, FS_Interval
  <2> QED BY <2>2
<1>3. ASSUME NEW i \in 1..Cardinality(S) PROVE i <= Position(S, i)
  <2>1. PICK k \in S : k = Position(S, i) BY <1>1
  <2>2. k \in 1..n /\ {j \in S : j < k} \in SUBSET (1..k - 1)
    <3>1. \A j \in S : j \in Int /\ 1 <= j OBVIOUS
    <3>2. \A j \in S : j < k => j \in 1..k - 1 BY <3>1
    <3> QED BY <3>2
  <2>3. Cardinality({j \in S : j < k}) <= Cardinality(1..k - 1) BY <1>2, <2>2, FS_Subset
  <2>4. i - 1 <= k - 1 BY <1>1, <1>2, <2>1, <2>2, <2>3
  <2> QED BY <1>1, <2>1, <2>2, <2>4
<1>4. ASSUME NEW k \in 1..n, 1..k \subseteq S PROVE k \in 1..Cardinality(S) /\ Position(S, k) = k
  <2>1. k \in S BY <1>4
  <2>2. PICK i \in 1..Cardinality(S) : Position(S, i) = k BY <1>1, <2>1
  <2>3. {j \in S : j < k} = 1..k - 1
    <3>1. \A j \in S : j \in Int /\ 1 <= j OBVIOUS
    <3>2. \A j \in S : j < k => j \in 1..k - 1 BY <3>1
    <3>3. \A j \in 1..k - 1 : j \in 1..k /\ j < k OBVIOUS
    <3>4. \A j \in 1..k - 1 : j \in S /\ j < k BY <1>4, <3>3
    <3> QED BY <3>2, <3>4, Zenon
  <2>4. i - 1 = k - 1 BY <1>1, <1>2, <2>2, <2>3
  <2>5. i = k BY <1>1, <2>4
  <2> QED BY <2>2, <2>5
<1> QED BY <1>3, <1>4

(* What the repair leaves: everything but results that nobody called.        *)
LEMMA SanitizeParts ==
    ASSUME NEW n, NEW m, Listed(m, n), NEW l, l = SanitizePairs(m)
    PROVE  \E S \in SUBSET (1..Len(m)) :
              /\ Len(l) = Cardinality(S)
              /\ \A i \in 1..Len(l) : Alike(l[i], m[Position(S, i)])
              /\ \A k \in 1..Len(m) :
                    k \in S <=> (m[k].role = "tool" => \E j \in 1..Len(m) : m[k].of \in m[j].calls)
<1> DEFINE called == UNION {m[k].calls : k \in DOMAIN m}
           S == {k \in DOMAIN m : m[k].role = "tool" => m[k].of \in called}
           kept == MessagesAt(m, S)
           answered == {kept[k].of : k \in {j \in DOMAIN kept : kept[j].role = "tool"}}
           Stripped(x) == IF x.calls \subseteq answered THEN x
                          ELSE [x EXCEPT !.calls = @ \cap answered,
                                         !.text = @ \/ x.calls \cap answered = {}]
           r == Cardinality(S)
<1>1. Len(m) \in Nat /\ DOMAIN m = 1..Len(m) /\ \A k \in 1..Len(m) : IsMessage(m[k], n)
      BY ListedShape DEF Listed
<1>2. l = [k \in DOMAIN kept |-> Stripped(kept[k])] BY DEF SanitizePairs
<1>3. S \in SUBSET (1..Len(m)) BY <1>1
<1>4. \A k \in 1..Len(m) : k \in S <=> (m[k].role = "tool" => \E j \in 1..Len(m) : m[k].of \in m[j].calls)
      BY <1>1
<1>5. r \in Nat /\ \A i \in 1..r : Position(S, i) \in S
  <2> HIDE DEF S
  <2> QED BY <1>1, <1>3, PositionsInOrder
<1>6. DOMAIN kept = 1..r /\ \A i \in 1..r : kept[i] = m[Position(S, i)]
  <2> HIDE DEF S
  <2> QED BY DEF MessagesAt
<1> HIDE DEF S, r, called
<1>7. ASSUME NEW x, IsMessage(x, n) PROVE Alike(Stripped(x), x)
  <2> HIDE DEF kept, answered
  <2>1. CASE x.calls \subseteq answered BY <2>1 DEF Alike
  <2>2. CASE ~(x.calls \subseteq answered)
    <3>1. PICK y : y = [x EXCEPT !.calls = @ \cap answered, !.text = @ \/ x.calls \cap answered = {}] OBVIOUS
    <3>2. /\ y.calls = x.calls \cap answered /\ y.role = x.role /\ y.of = x.of
          /\ y.summary = x.summary /\ y.asks = x.asks /\ y.covers = x.covers
          BY <1>7, <3>1 DEF IsMessage, Parts
    <3>3. Stripped(x) = y BY <2>2, <3>1
    <3> HIDE DEF Stripped
    <3> QED BY <3>2, <3>3 DEF Alike
  <2> QED BY <2>1, <2>2
<1> HIDE DEF kept, answered, Stripped
<1>8. l = [k \in 1..r |-> l[k]] /\ \A k \in 1..r : l[k] = Stripped(kept[k]) BY <1>2, <1>6
<1>9. Len(l) = r BY <1>5, <1>8, FunctionIsSequence
<1>10. \A k \in 1..r : IsMessage(kept[k], n) BY <1>1, <1>3, <1>5, <1>6
<1>11. \A k \in 1..r : Alike(l[k], kept[k]) BY <1>7, <1>8, <1>10
<1> QED BY <1>3, <1>4, <1>6, <1>9, <1>11 DEF r

-----------------------------------------------------------------------------
(* The latest message: a compaction leaves a settled transcript *)

(* Where a message of the joined sequence was. *)
Place(start, e, i) == IF i <= start THEN i ELSE e + (i - start)

LEMMA Places ==
    ASSUME NEW start \in Nat, NEW e \in Int, start <= e
    PROVE  /\ \A i \in Nat : Place(start, e, i) \in Int /\ Place(start, e, i) >= i
           /\ \A i, j \in Nat : i < j => Place(start, e, i) - i <= Place(start, e, j) - j
BY DEF Place

(* Nothing but the summary is new. *)
Placed(pre, m, start, e) ==
    /\ Len(pre) \in Nat /\ start \in Nat /\ start <= Len(pre)
    /\ \A i \in 1..Len(pre) : i # start + 1 =>
          Place(start, e, i) \in 1..Len(m) /\ pre[i] = m[Place(start, e, i)]
    /\ start + 1 \in 1..Len(pre) =>
          /\ pre[start + 1].summary /\ pre[start + 1].role \in {"user", "assistant"}
          /\ \/ pre[start + 1].calls = {}
             \/ /\ Place(start, e, start + 1) \in 1..Len(m)
                /\ pre[start + 1].calls = m[Place(start, e, start + 1)].calls

LEMMA JoinedPlaces ==
    ASSUME NEW m, NEW start \in 0..Len(m), NEW end, NEW e \in Int, NEW covers,
           NEW pre, Joined(pre, m, start, end, e, covers), Len(m) \in Nat
    PROVE  Placed(pre, m, start, e)
<1>1. Len(pre) \in Nat /\ start \in Nat /\ start <= Len(pre) BY DEF Joined
<1>2. ASSUME NEW i \in 1..Len(pre), i # start + 1
      PROVE  Place(start, e, i) \in 1..Len(m) /\ pre[i] = m[Place(start, e, i)]
  <2>1. CASE i <= start
    <3>1. i \in 1..start /\ i \in 1..Len(m) BY <1>1, <2>1
    <3> QED BY <2>1, <3>1 DEF Joined, Place
  <2>2. CASE ~(i <= start)
    <3>1. i \in start + 2..Len(pre) BY <1>1, <1>2, <2>2
    <3> QED BY <2>2, <3>1 DEF Joined, Place
  <2> QED BY <2>1, <2>2
<1>3. ASSUME start + 1 \in 1..Len(pre)
      PROVE  /\ pre[start + 1].summary /\ pre[start + 1].role \in {"user", "assistant"}
             /\ \/ pre[start + 1].calls = {}
                \/ /\ Place(start, e, start + 1) \in 1..Len(m)
                   /\ pre[start + 1].calls = m[Place(start, e, start + 1)].calls
  <2>1. Len(pre) > start BY <1>1, <1>3
  <2>2. Place(start, e, start + 1) = e + 1 BY <1>1 DEF Place
  <2> QED BY <2>1, <2>2 DEF Joined
<1> QED BY <1>1, <1>2, <1>3 DEF Placed

(* Before the repair: a result still stands right behind its call.           *)
LEMMA JoinedAdjacent ==
    ASSUME NEW m, NEW n, Intact(m, n), Settled(m), NEW start \in 0..Len(m),
           NEW end, NEW e \in Int, start <= e, NEW covers,
           NEW pre, Ordered(pre), Joined(pre, m, start, end, e, covers)
    PROVE  /\ \A k \in 1..Len(pre) : pre[k].role = "tool" => ~pre[k].summary
           /\ \A j, k \in 1..Len(pre) : pre[k].role = "tool" /\ pre[k].of \in pre[j].calls => j = k - 1
           /\ \A p \in 1..Len(pre) - 1 : pre[p + 1].role = "tool" => ~Own(pre[p])
           /\ \A k \in 1..start : pre[k].role = "tool" =>
                 \E j \in 1..Len(pre) : pre[k].of \in pre[j].calls
<1>1. Len(m) \in Nat BY ListedShape DEF Intact
<1> DEFINE f(i) == Place(start, e, i)
<1>2. /\ Len(pre) \in Nat /\ start \in Nat /\ start <= Len(pre)
      /\ \A i \in 1..Len(pre) : i # start + 1 => f(i) \in 1..Len(m) /\ pre[i] = m[f(i)]
      /\ start + 1 \in 1..Len(pre) =>
            /\ pre[start + 1].summary /\ pre[start + 1].role \in {"user", "assistant"}
            /\ \/ pre[start + 1].calls = {}
               \/ f(start + 1) \in 1..Len(m) /\ pre[start + 1].calls = m[f(start + 1)].calls
  <2>1. Placed(pre, m, start, e) BY <1>1, JoinedPlaces
  <2> QED BY <2>1 DEF Placed
<1>3. \A i, j \in 1..Len(pre) : i < j => f(i) - i <= f(j) - j
  <2>1. \A i \in 1..Len(pre) : i \in Nat BY <1>2
  <2>2. \A i, j \in Nat : i < j => Place(start, e, i) - i <= Place(start, e, j) - j BY <1>2, Places
  <2> QED BY ONLY <2>1, <2>2 DEF f
<1>4. \A i \in 1..Len(pre) : f(i) \in Int
  <2>1. \A i \in 1..Len(pre) : i \in Nat BY <1>2
  <2>2. \A i \in Nat : Place(start, e, i) \in Int BY <1>2, Places
  <2> QED BY ONLY <2>1, <2>2 DEF f
<1>5. ASSUME NEW i \in 1..Len(pre), pre[i].role = "tool"
      PROVE  i # start + 1 /\ f(i) \in 1..Len(m) /\ pre[i] = m[f(i)]
      BY <1>2, <1>5
<1>6. \A i \in 1..start : f(i) = i BY <1>2 DEF Place
<1>7. \A i \in 1..Len(pre) - 1 : i # start => f(i + 1) = f(i) + 1
  <2> SUFFICES ASSUME NEW i \in 1..Len(pre) - 1, i # start PROVE f(i + 1) = f(i) + 1 OBVIOUS
  <2>1. i \in Int /\ start \in Int BY <1>2
  <2> QED BY <2>1 DEF Place
<1> HIDE DEF f
<1>8. ASSUME NEW j \in 1..Len(pre), NEW k \in 1..Len(pre), pre[k].role = "tool", pre[k].of \in pre[j].calls
      PROVE  j = k - 1
  <2>1. j < k BY <1>8 DEF Ordered
  <2>2. f(k) \in 1..Len(m) /\ pre[k] = m[f(k)] BY <1>5, <1>8
  <2>3. f(j) \in 1..Len(m) /\ pre[j].calls = m[f(j)].calls BY <1>2, <1>8
  <2>4. f(j) = f(k) - 1 BY <1>8, <2>2, <2>3 DEF Settled
  <2>5. f(j) - j <= f(k) - k BY <1>3, <2>1
  <2> QED BY <1>1, <1>2, <2>1, <2>2, <2>3, <2>4, <2>5
<1>9. ASSUME NEW p \in 1..Len(pre) - 1, pre[p + 1].role = "tool" PROVE ~Own(pre[p])
  <2>1. p \in 1..Len(pre) /\ p + 1 \in 1..Len(pre) BY <1>2
  <2>2. p + 1 # start + 1 /\ f(p + 1) \in 1..Len(m) /\ pre[p + 1] = m[f(p + 1)] BY <1>5, <1>9, <2>1
  <2>3. CASE p = start + 1 BY <1>2, <2>1, <2>3 DEF Own
  <2>4. CASE p # start + 1
    <3>1. f(p) \in 1..Len(m) /\ pre[p] = m[f(p)] BY <1>2, <2>1, <2>4
    <3>2. f(p + 1) = f(p) + 1 BY <1>2, <1>7, <2>2
    <3>3. f(p + 1) - 1 = f(p) BY <3>1, <3>2
    <3>4. m[f(p)].role = "assistant" BY <1>9, <2>2, <3>3, BehindItsCall
    <3> QED BY <3>1, <3>4 DEF Own
  <2> QED BY <2>3, <2>4
<1>10. ASSUME NEW k \in 1..start, pre[k].role = "tool" PROVE \E j \in 1..Len(pre) : pre[k].of \in pre[j].calls
  <2>1. k \in 1..Len(pre) /\ k \in 1..Len(m) /\ pre[k] = m[k] BY <1>1, <1>2, <1>5, <1>6, <1>10
  <2>2. k - 1 \in 1..Len(m) /\ m[k].of \in m[k - 1].calls BY <1>10, <2>1, BehindItsCall
  <2>3. k - 1 \in 1..start /\ k - 1 \in 1..Len(pre) /\ k - 1 # start + 1 BY <1>2, <2>2
  <2>4. pre[k - 1] = m[k - 1] BY <1>2, <1>6, <2>3
  <2> QED BY <2>1, <2>2, <2>3, <2>4
<1>11. \A k \in 1..Len(pre) : pre[k].role = "tool" => ~pre[k].summary BY <1>5 DEF Settled
<1> QED BY <1>8, <1>9, <1>10, <1>11

(* A summary behind a message of the user's own: where it was, or at the end *)
(* of the head.                                                              *)
LEMMA JoinedSummaries ==
    ASSUME NEW m, NEW n, Intact(m, n), Settled(m), NEW start \in 0..Len(m),
           SystemCount(m) <= start,
           start > 0 /\ Own(m[start]) => start - SystemCount(m) = ProtectFirst /\ ProtectFirst # 1,
           NEW end, NEW e \in Int, start <= e, NEW covers,
           NEW pre, Joined(pre, m, start, end, e, covers),
           NEW q \in 1..Len(pre) - 1, Own(pre[q]), pre[q + 1].summary
    PROVE  /\ q <= start => q - SystemCount(m) \in 2..ProtectFirst
           /\ q > start => q > start + 1 /\ q - SystemCount(m) <= ProtectFirst
<1>1. Len(m) \in Nat /\ ProtectFirst \in Nat BY ListedShape, CompactionAssumption DEF Intact
<1> DEFINE f(i) == Place(start, e, i)
<1>2. /\ Len(pre) \in Nat /\ start \in Nat /\ start <= Len(pre)
      /\ \A i \in 1..Len(pre) : i # start + 1 => f(i) \in 1..Len(m) /\ pre[i] = m[f(i)]
      /\ start + 1 \in 1..Len(pre) => pre[start + 1].summary
  <2>1. Placed(pre, m, start, e) BY <1>1, JoinedPlaces
  <2> QED BY <2>1 DEF Placed
<1>3. q \in 1..Len(pre) /\ q + 1 \in 1..Len(pre) /\ q # start + 1 BY <1>2 DEF Own
<1>4. f(q) \in 1..Len(m) /\ pre[q] = m[f(q)] BY <1>2, <1>3
<1>5. SystemCount(m) \in {0, 1} BY DEF SystemCount
<1>6. CASE q = start
  <2>1. f(q) = start BY <1>2, <1>6 DEF Place
  <2>2. Own(m[start]) /\ start > 0 BY <1>3, <1>4, <1>6, <2>1
  <2>3. start - SystemCount(m) = ProtectFirst /\ ProtectFirst # 1 BY <2>2
  <2>4. ProtectFirst # 0
    <3> SUFFICES ASSUME ProtectFirst = 0 PROVE FALSE OBVIOUS
    <3>1. start = SystemCount(m) BY <1>2, <1>5, <2>3
    <3>2. start = 1 /\ SystemCount(m) = 1 BY <1>5, <2>2, <3>1
    <3>3. m[1].role = "system" BY <3>2 DEF SystemCount
    <3> QED BY <2>2, <3>2, <3>3 DEF Own
  <2> QED BY <1>1, <1>5, <1>6, <2>3, <2>4
<1>7. CASE q # start
  <2>1. f(q + 1) = f(q) + 1 /\ f(q) \in Int /\ f(q) >= q /\ (q <= start => f(q) = q)
    <3>1. q \in Nat BY <1>3
    <3>2. f(q) \in Int /\ f(q) >= q BY <1>2, <3>1, Places
    <3>3. f(q + 1) = f(q) + 1
      <4>1. q \in Int /\ start \in Int /\ (q <= start => q + 1 <= start) /\ (~(q <= start) => ~(q + 1 <= start))
            BY <1>2, <1>7, <3>1
      <4> QED BY <4>1 DEF Place
    <3> QED BY <3>2, <3>3 DEF Place
  <2>2. q + 1 # start + 1 BY <1>2, <1>3, <1>7
  <2>3. f(q + 1) \in 1..Len(m) /\ pre[q + 1] = m[f(q + 1)] BY <1>2, <1>3, <2>2
  <2> HIDE DEF f
  <2>4. f(q) \in 1..Len(m) - 1 /\ Own(m[f(q)]) /\ m[f(q) + 1].summary
    <3>1. f(q) \in 1..Len(m) /\ f(q) + 1 \in 1..Len(m) BY <1>4, <2>1, <2>3
    <3>2. f(q) \in 1..Len(m) - 1 BY <1>1, <2>1, <3>1
    <3> QED BY <1>4, <2>1, <2>3, <3>2
  <2>5. f(q) - SystemCount(m) \in 2..ProtectFirst BY <2>4 DEF Settled
  <2>6. q \in Int BY <1>3
  <2> QED BY <1>1, <1>2, <1>3, <1>5, <2>1, <2>5, <2>6
<1> QED BY <1>6, <1>7

LEMMA SettledAfter ==
    ASSUME NEW m, NEW n, Intact(m, n), Settled(m), NEW start \in 0..Len(m),
           SystemCount(m) <= start,
           start > 0 /\ Own(m[start]) => start - SystemCount(m) = ProtectFirst /\ ProtectFirst # 1,
           NEW end, NEW e \in Int, start <= e, NEW covers,
           NEW pre, Listed(pre, n), Ordered(pre), Joined(pre, m, start, end, e, covers),
           NEW l, l = SanitizePairs(pre)
    PROVE  Settled(l)
<1> DEFINE f(i) == Place(start, e, i)
<1>1. Len(m) \in Nat /\ ProtectFirst \in Nat /\ Len(pre) \in Nat /\ Len(l) \in Nat
  <2>1. Intact(l, n) BY PairsRestored
  <2> QED BY <2>1, ListedShape, CompactionAssumption DEF Intact
<1>2. PICK S \in SUBSET (1..Len(pre)) :
              /\ Len(l) = Cardinality(S)
              /\ \A i \in 1..Len(l) : Alike(l[i], pre[Position(S, i)])
              /\ \A k \in 1..Len(pre) :
                    k \in S <=> (pre[k].role = "tool" => \E j \in 1..Len(pre) : pre[k].of \in pre[j].calls)
      BY SanitizeParts
<1> DEFINE g == [i \in 1..Len(l) |-> Position(S, i)]
<1>3. /\ \A i \in 1..Len(l) : g[i] \in S
      /\ \A i, j \in 1..Len(l) : i < j => g[i] < g[j]
      /\ \A k \in S : \E i \in 1..Len(l) : g[i] = k
      BY <1>1, <1>2, PositionsInOrder
<1>4. /\ \A i \in 1..Len(l) : i <= g[i]
      /\ \A k \in 1..Len(pre) : 1..k \subseteq S => k \in 1..Len(l) /\ g[k] = k
      BY <1>1, <1>2, PlacesCount
<1>5. \A i \in 1..Len(l) : Alike(l[i], pre[g[i]]) BY <1>2
<1>6. \A i \in 1..Len(l) : g[i] \in 1..Len(pre) /\ g[i] \in Int
  <2>1. \A k \in S : k \in 1..Len(pre) /\ k \in Int BY <1>1
  <2> HIDE DEF g
  <2> QED BY <1>3, <2>1
<1> HIDE DEF g
<1>7. /\ \A k \in 1..Len(pre) : pre[k].role = "tool" => ~pre[k].summary
      /\ \A j, k \in 1..Len(pre) : pre[k].role = "tool" /\ pre[k].of \in pre[j].calls => j = k - 1
      /\ \A p \in 1..Len(pre) - 1 : pre[p + 1].role = "tool" => ~Own(pre[p])
      /\ \A k \in 1..start : pre[k].role = "tool" => \E j \in 1..Len(pre) : pre[k].of \in pre[j].calls
      BY JoinedAdjacent
<1>8. /\ start \in Nat /\ start <= Len(pre)
      /\ \A i \in 1..Len(pre) : i # start + 1 => f(i) \in 1..Len(m) /\ pre[i] = m[f(i)]
      /\ start + 1 \in 1..Len(pre) => pre[start + 1].summary /\ pre[start + 1].role \in {"user", "assistant"}
      /\ \A i \in 1..start : f(i) = i
  <2>1. Placed(pre, m, start, e) BY <1>1, JoinedPlaces
  <2> QED BY <2>1 DEF Placed, Place
<1>9. \A i \in 1..Len(pre) : f(i) >= i /\ f(i) \in Int
  <2>1. \A i \in 1..Len(pre) : i \in Nat BY <1>1
  <2> QED BY <1>8, <2>1, Places
<1>10. SystemCount(m) \in {0, 1} BY DEF SystemCount
<1> HIDE DEF f
(* The head and the summary are not touched. *)
<1>11. ASSUME NEW k \in 1..Len(pre), k <= start + 1 PROVE k \in 1..Len(l) /\ g[k] = k
  <2>1. ASSUME NEW j \in 1..k PROVE j \in S
    <3>1. j \in 1..Len(pre) /\ (j \in 1..start \/ j = start + 1) BY <1>1, <1>8, <1>11
    <3> QED BY <1>2, <1>7, <1>8, <3>1
  <2> QED BY <1>4, <2>1
<1>12. \A k \in 1..Len(l) : l[k].role = "tool" => ~l[k].summary
  <2> SUFFICES ASSUME NEW k \in 1..Len(l), l[k].role = "tool" PROVE ~l[k].summary OBVIOUS
  <2>1. Alike(l[k], pre[g[k]]) /\ g[k] \in 1..Len(pre) BY <1>5, <1>6
  <2>2. l[k].role = pre[g[k]].role /\ l[k].summary = pre[g[k]].summary BY <2>1 DEF Alike
  <2>3. ~pre[g[k]].summary BY <1>7, <2>1, <2>2
  <2> QED BY <2>2, <2>3
<1>13. \A k \in 1..Len(pre) : pre[k].role = "system" => k = 1 /\ SystemCount(m) = 1
  <2> SUFFICES ASSUME NEW k \in 1..Len(pre), pre[k].role = "system" PROVE k = 1 /\ SystemCount(m) = 1
      OBVIOUS
  <2>1. f(k) \in 1..Len(m) /\ m[f(k)].role = "system" /\ f(k) >= k BY <1>8, <1>9
  <2>2. f(k) = 1
    <3>1. f(k) \notin 2..Len(m) BY <2>1 DEF Settled
    <3> QED BY <1>1, <2>1, <3>1
  <2>3. m[1].role = "system" /\ Len(m) > 0 BY <1>1, <2>1, <2>2
  <2> QED BY <1>1, <2>1, <2>2, <2>3 DEF SystemCount
<1>14. ASSUME NEW k \in 2..Len(l) PROVE l[k].role # "system"
  <2>1. k \in 1..Len(l) /\ k <= g[k] /\ g[k] \in 1..Len(pre) /\ g[k] # 1 BY <1>1, <1>4, <1>6
  <2> QED BY <1>5, <1>13, <2>1 DEF Alike
<1>15. SystemCount(l) = SystemCount(m)
  <2>1. CASE SystemCount(m) = 1
    <3>1. m[1].role = "system" BY <2>1 DEF SystemCount
    <3>2. 1 \in 1..Len(pre) /\ 1 \in 1..start BY <1>1, <1>8, <2>1
    <3>3. 1 # start + 1 /\ 1 <= start + 1 BY <1>8, <3>2
    <3>4. pre[1] = m[1] BY <1>8, <3>2, <3>3
    <3>5. 1 \in 1..Len(l) /\ g[1] = 1 BY <1>11, <3>2, <3>3
    <3>6. l[1].role = "system" /\ Len(l) > 0 BY <1>1, <1>5, <3>1, <3>4, <3>5 DEF Alike
    <3> QED BY <2>1, <3>6 DEF SystemCount
  <2>2. CASE SystemCount(m) = 0
    <3> SUFFICES ASSUME Len(l) > 0, l[1].role = "system" PROVE FALSE BY <2>2 DEF SystemCount
    <3>1. 1 \in 1..Len(l) BY <1>1
    <3>2. g[1] \in 1..Len(pre) /\ pre[g[1]].role = "system" BY <1>5, <1>6, <3>1 DEF Alike
    <3> QED BY <1>13, <2>2, <3>2
  <2> QED BY <1>10, <2>1, <2>2
<1>16. ASSUME NEW j \in 1..Len(l), NEW k \in 1..Len(l), l[k].role = "tool", l[k].of \in l[j].calls
       PROVE  j = k - 1
  <2>1. /\ g[j] \in 1..Len(pre) /\ g[k] \in 1..Len(pre)
        /\ pre[g[k]].role = "tool" /\ pre[g[k]].of \in pre[g[j]].calls
        BY <1>5, <1>6, <1>16 DEF Alike
  <2>2. g[j] = g[k] - 1 BY <1>7, <2>1
  <2>3. j < k
    <3>1. k < j => g[k] < g[j] BY <1>3
    <3> QED BY <1>1, <2>1, <2>2, <3>1
  <2>4. ~(j < k - 1)
    <3> SUFFICES ASSUME j < k - 1 PROVE FALSE OBVIOUS
    <3>1. j + 1 \in 1..Len(l) /\ j < j + 1 /\ j + 1 < k BY <1>1
    <3>2. g[j] < g[j + 1] /\ g[j + 1] < g[k] BY <1>3, <3>1
    <3> QED BY <1>6, <2>1, <2>2, <3>1, <3>2
  <2> QED BY <1>1, <2>3, <2>4
<1>17. ASSUME NEW p \in 1..Len(l) - 1, Own(l[p]), l[p + 1].summary
       PROVE  p - SystemCount(l) \in 2..ProtectFirst
  <2>1. p \in 1..Len(l) /\ p + 1 \in 1..Len(l) /\ p < p + 1 BY <1>1
  <2>2. PICK q : q = g[p] OBVIOUS
  <2>3. q \in 1..Len(pre) /\ g[p + 1] \in 1..Len(pre) /\ q < g[p + 1] /\ p <= q BY <1>3, <1>4, <1>6, <2>1, <2>2
  <2>4. q \in 1..Len(pre) - 1 /\ q + 1 \in 1..Len(pre) /\ q + 1 <= g[p + 1] BY <1>1, <2>3
  <2>5. Own(pre[q]) /\ pre[g[p + 1]].summary BY <1>5, <1>17, <2>1, <2>2 DEF Alike, Own
  <2>6. q + 1 \in S BY <1>2, <1>7, <2>4, <2>5
  <2>7. PICK i \in 1..Len(l) : g[i] = q + 1 BY <1>3, <2>6
  <2>8. i = p + 1
    <3>1. i < p => g[i] < g[p] BY <1>3, <2>1
    <3>2. i > p + 1 => g[p + 1] < g[i] BY <1>3, <2>1
    <3>3. i # p BY <2>2, <2>4, <2>7
    <3> QED BY <1>1, <2>1, <2>2, <2>3, <2>4, <2>7, <3>1, <3>2, <3>3
  <2>9. pre[q + 1].summary BY <2>5, <2>7, <2>8
  <2>10. /\ q <= start => q - SystemCount(m) \in 2..ProtectFirst
         /\ q > start => q > start + 1 /\ q - SystemCount(m) <= ProtectFirst
         BY <2>4, <2>5, <2>9, JoinedSummaries
  <2>11. CASE q <= start
    <3>1. q \in 1..Len(l) /\ g[q] = q BY <1>8, <1>11, <2>3, <2>11
    <3>2. q = p
      <4>1. p < q => g[p] < g[q] BY <1>3, <2>1, <3>1
      <4> QED BY <1>1, <2>2, <2>3, <3>1, <4>1
    <3> QED BY <1>15, <2>10, <2>11, <3>2
  <2>12. CASE q > start
    <3>1. q > start + 1 /\ q - SystemCount(m) <= ProtectFirst BY <2>10, <2>12
    <3>2. p > start + 1
      <4> SUFFICES ASSUME p <= start + 1 PROVE FALSE BY <1>8, <2>1
      <4>1. p \in 1..Len(pre) BY <1>1, <1>8, <2>1, <2>3
      <4>2. g[p] = p BY <1>11, <4>1
      <4> QED BY <1>1, <1>8, <2>2, <2>3, <3>1, <4>2
    <3> QED BY <1>1, <1>8, <1>10, <1>15, <2>1, <2>3, <3>1, <3>2, SMTT(60)
  <2> QED BY <1>8, <2>3, <2>11, <2>12
<1> QED BY <1>12, <1>14, <1>16, <1>17 DEF Settled

-----------------------------------------------------------------------------
(* The latest message: what else becomes of a settled transcript *)

(* Messages that are no summaries behind a message of the user's own.        *)
LEMMA SettledGrows ==
    ASSUME NEW m, NEW n, Intact(m, n), Settled(m), NEW l, NEW h, Intact(l, h),
           Len(m) <= Len(l), \A k \in 1..Len(m) : l[k] = m[k],
           \A k \in Len(m) + 1..Len(l) :
              /\ l[k].role = "tool" => ~l[k].summary
              /\ l[k].role # "system"
              /\ l[k].summary => \A p \in 1..Len(m) : ~Own(m[p])
              /\ l[k].summary => k = Len(m) + 1,
           \A j \in 1..Len(l), k \in Len(m) + 1..Len(l) :
              l[k].role = "tool" /\ l[k].of \in l[j].calls => j = k - 1
    PROVE  Settled(l)
<1>1. Len(m) \in Nat /\ Len(l) \in Nat BY ListedShape DEF Intact
<1>2. \A k \in 1..Len(l) : k \in 1..Len(m) \/ k \in Len(m) + 1..Len(l) BY <1>1
<1>3. \A k \in 1..Len(l) : l[k].role = "tool" => ~l[k].summary BY <1>2 DEF Settled
<1>4. \A k \in 2..Len(l) : l[k].role # "system"
  <2> SUFFICES ASSUME NEW k \in 2..Len(l) PROVE l[k].role # "system" OBVIOUS
  <2>1. k \in 2..Len(m) \/ k \in Len(m) + 1..Len(l) BY <1>1
  <2>2. CASE k \in 2..Len(m)
    <3>1. k \in 1..Len(m) BY <1>1, <2>2
    <3> QED BY <2>2, <3>1 DEF Settled
  <2> QED BY <2>1, <2>2
<1>5. ASSUME NEW j \in 1..Len(l), NEW k \in 1..Len(l), l[k].role = "tool", l[k].of \in l[j].calls
      PROVE  j = k - 1
  <2>1. CASE k \in 1..Len(m)
    <3>1. j < k BY <1>5 DEF Intact, Ordered
    <3>2. j \in 1..Len(m) BY <1>1, <2>1, <3>1
    <3> QED BY <1>5, <2>1, <3>2 DEF Settled
  <2> QED BY <1>2, <1>5, <2>1
<1>6. ASSUME NEW p \in 1..Len(l) - 1, Own(l[p]), l[p + 1].summary
      PROVE  p - SystemCount(l) \in 2..ProtectFirst
  <2>1. p \in 1..Len(l) /\ p + 1 \in 1..Len(l) /\ p \in Int BY <1>1
  <2>2. CASE p + 1 \in 1..Len(m)
    <3>1. p \in 1..Len(m) - 1 /\ p \in 1..Len(m) /\ 1 \in 1..Len(m) BY <1>1, <2>1, <2>2
    <3>2. Own(m[p]) /\ m[p + 1].summary BY <1>6, <2>2, <3>1
    <3>3. p - SystemCount(m) \in 2..ProtectFirst BY <3>1, <3>2 DEF Settled
    <3>4. SystemCount(l) = SystemCount(m)
      <4>1. l[1] = m[1] /\ Len(m) > 0 /\ Len(l) > 0 BY <1>1, <3>1
      <4> QED BY <4>1 DEF SystemCount
    <3> QED BY <3>3, <3>4
  <2>3. CASE p + 1 \in Len(m) + 1..Len(l)
    <3>1. p + 1 = Len(m) + 1 /\ \A i \in 1..Len(m) : ~Own(m[i]) BY <1>6, <2>3
    <3>2. p \in 1..Len(m) BY <1>1, <2>1, <3>1
    <3> QED BY <1>6, <3>1, <3>2
  <2> QED BY <1>2, <2>1, <2>2, <2>3
<1> QED BY <1>3, <1>4, <1>5, <1>6 DEF Settled

LEMMA MessageSettled ==
    ASSUME NEW n, NEW m, Intact(m, n), Settled(m), NEW x, IsMessage(x, n), x.role # "tool", x.calls = {},
           x.role # "system", x.summary => \A p \in 1..Len(m) : ~Own(m[p])
    PROVE  Settled(m \o <<x>>)
<1>1. PICK l : l = m \o <<x>> OBVIOUS
<1>2. /\ Intact(l, n) /\ Len(l) = Len(m) + 1 /\ l[Len(m) + 1] = x
      /\ \A k \in 1..Len(m) : l[k] = m[k]
      BY <1>1, MessageAdded
<1>3. Len(m) \in Nat /\ Len(l) \in Nat BY <1>2, ListedShape DEF Intact
<1>4. \A k \in Len(m) + 1..Len(l) : k = Len(m) + 1 /\ l[k] = x BY <1>2, <1>3
<1>5. Len(m) <= Len(l) BY <1>2, <1>3
<1>6. \A k \in Len(m) + 1..Len(l) :
              /\ l[k].role = "tool" => ~l[k].summary
              /\ l[k].role # "system"
              /\ l[k].summary => \A p \in 1..Len(m) : ~Own(m[p])
              /\ l[k].summary => k = Len(m) + 1
      BY <1>4
<1>7. \A j \in 1..Len(l), k \in Len(m) + 1..Len(l) :
              l[k].role = "tool" /\ l[k].of \in l[j].calls => j = k - 1
      BY <1>4
<1>8. Settled(l) BY <1>2, <1>5, <1>6, <1>7, SettledGrows
<1> QED BY <1>1, <1>8

LEMMA RoundSettled ==
    ASSUME NEW n \in Nat, NEW m, Intact(m, n), Settled(m), NEW w
    PROVE  Settled(m \o <<Calls(n + 1), Result(n + 1, w)>>)
<1>1. PICK l : l = m \o <<Calls(n + 1), Result(n + 1, w)>> OBVIOUS
<1>2. /\ Intact(l, n + 1) /\ Len(l) = Len(m) + 2 /\ \A k \in 1..Len(m) : l[k] = m[k]
      BY <1>1, RoundAdded
<1>3. Len(m) \in Nat /\ Len(l) \in Nat /\ \A k \in 1..Len(m) : IsMessage(m[k], n)
      BY <1>2, ListedShape DEF Intact, Listed
<1>4. PICK x, y : x = Calls(n + 1) /\ y = Result(n + 1, w) OBVIOUS
<1>5. l[Len(m) + 1] = x /\ l[Len(m) + 2] = y
  <2>1. m \in Seq(Range(m) \cup {x, y}) /\ <<x, y>> \in Seq(Range(m) \cup {x, y}) /\ Len(<<x, y>>) = 2
    <3>1. m \in Seq(Range(m)) BY DEF Intact, Listed
    <3> QED BY <3>1, SeqMonotonic
  <2>2. \A i \in 1..Len(m) + 2 : l[i] = IF i <= Len(m) THEN m[i] ELSE <<x, y>>[i - Len(m)]
    <3>1. l = m \o <<x, y>> BY <1>1, <1>4
    <3> QED BY <2>1, <3>1, ConcatProperties
  <2>3. /\ Len(m) + 1 \in 1..Len(m) + 2 /\ ~(Len(m) + 1 <= Len(m)) /\ (Len(m) + 1) - Len(m) = 1
        /\ Len(m) + 2 \in 1..Len(m) + 2 /\ ~(Len(m) + 2 <= Len(m)) /\ (Len(m) + 2) - Len(m) = 2
        BY <1>3
  <2> QED BY <2>2, <2>3
<1>6. /\ x.role = "assistant" /\ ~x.summary
      /\ y.role = "tool" /\ ~y.summary /\ y.of = n + 1 /\ y.calls = {}
      BY <1>4 DEF Calls, Result, Blank
<1>7. \A k \in Len(m) + 1..Len(l) : k = Len(m) + 1 \/ k = Len(m) + 2 BY <1>2, <1>3
<1>8. \A k \in Len(m) + 1..Len(l) : ~l[k].summary /\ l[k].role # "system" BY <1>5, <1>6, <1>7
<1>9. ASSUME NEW j \in 1..Len(l), NEW k \in Len(m) + 1..Len(l), l[k].role = "tool", l[k].of \in l[j].calls
      PROVE  j = k - 1
  <2>1. k = Len(m) + 2 /\ n + 1 \in l[j].calls BY <1>5, <1>6, <1>7, <1>9
  <2>2. j \notin 1..Len(m)
    <3> SUFFICES ASSUME j \in 1..Len(m) PROVE FALSE OBVIOUS
    <3>1. n + 1 \in 1..n BY <1>2, <1>3, <2>1 DEF IsMessage
    <3> QED BY <3>1
  <2>3. j # Len(m) + 2 BY <1>5, <1>6, <2>1
  <2> QED BY <1>2, <1>3, <2>1, <2>2, <2>3
<1>10. Len(m) <= Len(l) BY <1>2, <1>3
<1>11. Settled(l) BY <1>2, <1>8, <1>9, <1>10, SettledGrows
<1> QED BY <1>1, <1>11

LEMMA UserTurnSettled ==
    ASSUME NEW n, NEW original, Listed(original, n), NEW m, Intact(m, n), Settled(m),
           NEW l, l = EnsureUserTurn(original, m)
    PROVE  Settled(l) /\ Carried(m) \subseteq Carried(l)
<1>1. PICK x : /\ IsMessage(x, n) /\ x.role = "user" /\ x.calls = {}
               /\ l = IF HasUser(m) THEN m ELSE m \o <<x>>
      BY UserTurnAdded, ZenonT(60)
<1>2. CASE HasUser(m)
  <2>1. l = m BY <1>1, <1>2
  <2> QED BY <2>1
<1>3. CASE ~HasUser(m)
  <2>1. l = m \o <<x>> BY <1>1, <1>3
  <2>2. \A p \in 1..Len(m) : ~Own(m[p]) BY <1>3 DEF Own, HasUser
  <2>3. Settled(l) BY <1>1, <2>1, <2>2, MessageSettled
  <2>4. Intact(l, n) /\ Len(l) = Len(m) + 1 /\ \A k \in 1..Len(m) : l[k] = m[k]
        BY <1>1, <2>1, MessageAdded
  <2>5. Len(m) \in Nat /\ DOMAIN m = 1..Len(m) /\ DOMAIN l = 1..Len(l)
        BY <2>4, ListedShape DEF Intact
  <2>6. \A k \in DOMAIN m : k \in DOMAIN l /\ l[k] = m[k] BY <2>4, <2>5
  <2> QED BY <2>3, <2>6 DEF Carried
<1> QED BY <1>2, <1>3

(* A compaction's boundaries: the head holds the system prompt, and behind   *)
(* it no more than ProtectFirst messages and a result.                       *)
Windowed(w, t, n, m, start, end) ==
    /\ m = w.messages /\ start = w.start /\ end = w.end
    /\ m = Prune(t) /\ Intact(m, n) /\ Settled(m)
    /\ start \in 0..Len(m) /\ start + 3 < Len(m)
    /\ end = TailCut(m, start) /\ end \in Int /\ start < end
    /\ w.turns = AsksOf(TurnsToSummarize(m, start, end))
    /\ SystemCount(m) <= start
    /\ start > 0 /\ Own(m[start]) => start - SystemCount(m) = ProtectFirst
    /\ start + 1 - SystemCount(m) \notin 2..ProtectFirst

LEMMA WindowParts ==
    ASSUME NEW a, NEW c, NEW n, Intact(transcript[a], n), Settled(transcript[a]),
           NEW w, w = Window(a, c), ~w.empty
    PROVE  Windowed(w, transcript[a], n, w.messages, w.start, w.end)
<1>1. PICK p : p = Prune(transcript[a]) OBVIOUS
<1>2. PICK head : head = ProtectHead(p, c.count, c.previous) OBVIOUS
<1>3. PICK s : s = AlignForward(p, head) OBVIOUS
<1>4. PICK end : end = TailCut(p, s) OBVIOUS
<1>5. PICK known, turns : /\ known = Rehydrated(p, end, c.previous)
                          /\ turns = AsksOf(TurnsToSummarize(p, s, end))
      OBVIOUS
<1>6. w = IF Len(p) <= head + 4
          THEN [short |-> TRUE, empty |-> TRUE]
          ELSE [short |-> FALSE, empty |-> s >= end, messages |-> p, start |-> s, end |-> end, known |-> known, turns |-> turns]
      BY <1>1, <1>2, <1>3, <1>4, <1>5 DEF Window
<1>7. /\ ~(Len(p) <= head + 4) /\ ~(s >= end) /\ w.messages = p /\ w.start = s /\ w.end = end /\ w.turns = turns
  <2>1. CASE Len(p) <= head + 4 BY <1>6, <2>1
  <2>2. CASE ~(Len(p) <= head + 4)
    <3>1. w = [short |-> FALSE, empty |-> s >= end, messages |-> p, start |-> s, end |-> end, known |-> known, turns |-> turns]
          BY <1>6, <2>2
    <3>2. /\ w.empty = (s >= end) /\ w.messages = p /\ w.start = s
          /\ w.end = end /\ w.turns = turns
          BY <3>1
    <3> QED BY <2>2, <3>2
  <2> QED BY <2>1, <2>2
<1>8. PICK t : t = transcript[a] OBVIOUS
<1>9. Intact(p, n) /\ Settled(p)
  <2>1. Intact(t, n) /\ Settled(t) BY <1>8
  <2> QED BY <1>1, <1>8, <2>1, PruneKeepsPairs, PruneSettled
<1>10. Len(p) \in Nat /\ ProtectFirst \in Nat BY <1>9, ListedShape, CompactionAssumption DEF Intact
<1>11. SystemCount(p) \in {0, 1} BY DEF SystemCount
<1>12. head \in {SystemCount(p), SystemCount(p) + ProtectFirst}
  <2>1. PICK x, y : /\ x = SystemCount(p)
                    /\ y = IF c.count >= 1 \/ c.previous # Nothing THEN 0 ELSE ProtectFirst
        OBVIOUS
  <2>2. p # <<>> <=> Len(p) > 0
    <3>1. p \in Seq(Range(p)) BY <1>9 DEF Intact, Listed
    <3> QED BY <1>10, <3>1, EmptySeq
  <2>3. head = x + y BY <1>2, <2>1, <2>2 DEF ProtectHead, SystemCount
  <2>4. x \in Nat /\ y \in {0, ProtectFirst} BY <1>11, <2>1
  <2> QED BY <1>10, <2>1, <2>3, <2>4
<1>13. head \in Nat /\ head <= Len(p) BY <1>7, <1>10, <1>11, <1>12
<1>14. /\ s \in head..Len(p) /\ s <= head + 1
       /\ head = SystemCount(p) => s = head
       /\ s # head => p[s].role = "tool"
       BY <1>2, <1>3, <1>9, <1>13, HeadOf
<1>15. s \in 0..Len(p) /\ s + 3 < Len(p) /\ SystemCount(p) <= s
       BY <1>7, <1>10, <1>11, <1>12, <1>13, <1>14
<1>16. end \in Int /\ s < end
  <2>1. end \in Int BY <1>4, <1>10, <1>15, TailBoundary
  <2> QED BY <1>7, <1>15, <2>1
<1>17. ASSUME s > 0, Own(p[s]) PROVE s - SystemCount(p) = ProtectFirst
  <2>1. s = head BY <1>14, <1>17 DEF Own
  <2>2. CASE head = SystemCount(p)
    <3>1. s = 1 /\ SystemCount(p) = 1 BY <1>11, <1>15, <1>17, <2>1, <2>2
    <3>2. p[s].role = "system" BY <3>1 DEF SystemCount
    <3> QED BY <1>17, <3>2 DEF Own
  <2>3. CASE head = SystemCount(p) + ProtectFirst BY <1>10, <1>11, <2>1, <2>3
  <2> QED BY <1>12, <2>2, <2>3
<1>18. s + 1 - SystemCount(p) \notin 2..ProtectFirst
  <2>1. CASE head = SystemCount(p) BY <1>11, <1>14, <2>1
  <2>2. CASE head = SystemCount(p) + ProtectFirst BY <1>10, <1>11, <1>14, <2>2
  <2> QED BY <1>12, <2>1, <2>2
<1> QED BY <1>1, <1>4, <1>5, <1>7, <1>9, <1>15, <1>16, <1>17, <1>18 DEF Windowed

(* What is no result survives the repair. *)
LEMMA RepairCarries ==
    ASSUME NEW n, NEW pre, Listed(pre, n), Ordered(pre), NEW l, l = SanitizePairs(pre),
           NEW k \in 1..Len(pre), pre[k].role # "tool"
    PROVE  pre[k].asks \cup pre[k].covers \subseteq Carried(l)
<1>1. Len(pre) \in Nat /\ DOMAIN l = 1..Len(l) /\ Len(l) \in Nat
  <2>1. Intact(l, n) BY PairsRestored
  <2> QED BY <2>1, ListedShape DEF Intact, Listed
<1>2. PICK S \in SUBSET (1..Len(pre)) :
              /\ Len(l) = Cardinality(S)
              /\ \A i \in 1..Len(l) : Alike(l[i], pre[Position(S, i)])
              /\ \A j \in 1..Len(pre) :
                    j \in S <=> (pre[j].role = "tool" => \E i \in 1..Len(pre) : pre[j].of \in pre[i].calls)
      BY SanitizeParts
<1>3. k \in S BY <1>2
<1>4. PICK i \in 1..Len(l) : Position(S, i) = k BY <1>1, <1>2, <1>3, PositionsInOrder
<1>5. l[i].asks = pre[k].asks /\ l[i].covers = pre[k].covers BY <1>2, <1>4 DEF Alike
<1>6. i \in DOMAIN l BY <1>1
<1> QED BY <1>5, <1>6 DEF Carried

(* What the user said outside the middle is still there, a summary merged    *)
(* into the message or not.                                                  *)
LEMMA OutsideKept ==
    ASSUME NEW m, NEW n, Intact(m, n),
           NEW start \in 0..Len(m), NEW end \in Int, start < end, NEW covers,
           NEW e \in Int, start <= e,
           NEW pre, Listed(pre, n), Ordered(pre), Joined(pre, m, start, end, e, covers),
           NEW l, l = SanitizePairs(pre),
           NEW u \in 1..Len(m), m[u].role = "user", u \notin start + 1..end
    PROVE  m[u].asks \subseteq Carried(l)
<1>1. Len(m) \in Nat /\ Len(pre) \in Nat
  <2>1. Len(pre) \in Nat BY DEF Listed
  <2> QED BY <2>1, ListedShape DEF Intact
<1>3. CASE u <= start
  <2>1. u \in 1..start /\ u \in 1..Len(pre) BY <1>1, <1>3 DEF Joined
  <2>2. pre[u] = m[u] BY <2>1 DEF Joined
  <2>3. pre[u].asks \cup pre[u].covers \subseteq Carried(l) BY <2>1, <2>2, RepairCarries
  <2> QED BY <2>2, <2>3
<1>4. CASE end < u
  <2>1. u \in end + 1..Len(m) BY <1>1, <1>4
  <2>2. /\ u - e + start \in start + 1..Len(pre) /\ pre[u - e + start].role = m[u].role
        /\ m[u].asks \subseteq pre[u - e + start].asks
        BY <2>1 DEF Joined
  <2>3. u - e + start \in 1..Len(pre) BY <1>1, <2>2
  <2>4. PICK k \in 1..Len(pre) : k = u - e + start BY <2>3
  <2>5. pre[k].asks \cup pre[k].covers \subseteq Carried(l) BY <2>2, <2>4, RepairCarries
  <2> QED BY <2>2, <2>4, <2>5
<1> QED BY <1>1, <1>3, <1>4

(* The user's latest message is in what a compaction makes of a transcript.  *)
LEMMA AskCompacted ==
    ASSUME NEW m, NEW n, Intact(m, n), Settled(m),
           NEW start \in 0..Len(m), start + 3 < Len(m),
           start + 1 - SystemCount(m) \notin 2..ProtectFirst,
           NEW end \in Int, end = TailCut(m, start), start < end,
           NEW covers, AsksOf(TurnsToSummarize(m, start, end)) \subseteq covers,
           NEW e \in Int, start <= e,
           NEW pre, Listed(pre, n), Ordered(pre), Joined(pre, m, start, end, e, covers),
           NEW l, l = SanitizePairs(pre),
           NEW u \in 1..Len(m), Own(m[u]), \A k \in u + 1..Len(m) : ~Own(m[k])
    PROVE  m[u].asks \subseteq Carried(l)
<1>1. Len(m) \in Nat /\ Len(pre) \in Nat
  <2>1. Len(pre) \in Nat BY DEF Listed
  <2> QED BY <2>1, ListedShape DEF Intact
<1>2. ASSUME NEW k \in 1..Len(pre), pre[k].role # "tool"
      PROVE  pre[k].asks \cup pre[k].covers \subseteq Carried(l)
      BY <1>2, RepairCarries
<1>3. CASE u \notin start + 1..end BY <1>3, OutsideKept DEF Own
<1>5. CASE u \in start + 1..end
  <2>1. u \in start + 1..Len(m) BY <1>1, <1>5
  <2>2. ASSUME u = start + 1, m[u + 1].summary PROVE FALSE
    <3>1. u \in 1..Len(m) - 1 BY <1>1, <2>2
    <3>2. u - SystemCount(m) \in 2..ProtectFirst BY <2>2, <3>1 DEF Settled
    <3>3. SystemCount(m) \in {0, 1} /\ ProtectFirst \in Nat BY CompactionAssumption DEF SystemCount
    <3> QED BY <1>1, <2>2, <3>2, <3>3
  <2>3. u = start + 1 /\ end < Len(m) /\ \A k \in u..end : ~m[k].summary
    <3>1. u = start + 1 => ~m[u + 1].summary BY <2>2
    <3>2. \/ end < u
          \/ u = start + 1 /\ end < Len(m) /\ \A k \in u..end : ~m[k].summary
          BY <2>1, <3>1, TailKeepsAsk
    <3> QED BY <1>5, <3>2
  <2>4. m[u].asks \subseteq covers
    <3>1. \A k \in start + 1..end : ~m[k].summary BY <2>3
    <3>2. m[start + 1].asks \subseteq AsksOf(TurnsToSummarize(m, start, end))
          BY <2>3, <3>1, AskIsSummarized DEF Intact
    <3> QED BY <2>3, <3>2
  <2>5. start + 1 \in 1..Len(pre) /\ pre[start + 1].covers = covers /\ pre[start + 1].role # "tool"
    <3>1. Len(m) \in end + 1..Len(m) BY <1>1, <2>3
    <3>2. Len(m) - e + start \in start + 1..Len(pre) BY <3>1 DEF Joined
    <3>3. Len(pre) > start BY <1>1, <3>2
    <3> QED BY <1>1, <3>3 DEF Joined
  <2> QED BY <1>2, <2>4, <2>5
<1> QED BY <1>3, <1>5

-----------------------------------------------------------------------------
(* The latest message: the invariant, and what a compaction keeps *)

AllSettled == \A a \in Agents : Settled(transcript[a])

(* The user's latest own message of m is in l. *)
KeepsAsk(m, l) ==
    \A u \in 1..Len(m) :
       Own(m[u]) /\ (\A k \in u + 1..Len(m) : ~Own(m[k])) => m[u].asks \subseteq Carried(l)

(* So is whatever the user said outside the middle. *)
KeepsOutside(m, l, w) ==
    \A u \in 1..Len(m) : m[u].role = "user" /\ ~InTheMiddle(w, u) => m[u].asks \subseteq Carried(l)

LEMMA InitSettled == ASSUME Init PROVE AllSettled
<1>1. PICK t \in {<<>>, <<System>>} : transcript = [a \in Agents |-> t] BY DEF Init
<1>2. Settled(t)
  <2>1. CASE t = <<>> BY <2>1 DEF Settled
  <2>2. CASE t = <<System>>
    <3>1. Len(t) = 1 /\ t[1] = System BY <2>2
    <3>2. System.role = "system" BY DEF System, Blank
    <3> QED BY <3>1, <3>2 DEF Settled
  <2> QED BY <2>1, <2>2
<1> QED BY <1>1, <1>2 DEF AllSettled

(* A compaction that writes the transcript. *)
LEMMA CompactKeepsAsk ==
    ASSUME ProtectFirst # 1, NEW a \in Agents, NEW n, Intact(transcript[a], n), Settled(transcript[a]),
           NEW c, NEW w, w = Window(a, c), ~w.empty, NEW s, Compact(a, s, w)
    PROVE  \E l : /\ transcript' = [transcript EXCEPT ![a] = l]
                  /\ Settled(l) /\ KeepsAsk(transcript[a], l) /\ KeepsOutside(transcript[a], l, w)
<1>1. PICK t : t = transcript[a] OBVIOUS
<1>2. PICK m, start, end : m = w.messages /\ start = w.start /\ end = w.end OBVIOUS
<1>3. PICK covers : covers = IF s.cooling THEN Makeshift(w) ELSE Told(w) OBVIOUS
<1>4. PICK after, l : /\ after = Assemble(m, start, end, covers) /\ l = EnsureUserTurn(m, after)
                      /\ transcript' = [transcript EXCEPT ![a] = l]
      BY <1>2, <1>3 DEF Compact
<1>5. /\ m = Prune(t) /\ Intact(m, n) /\ Settled(m)
      /\ start \in 0..Len(m) /\ start + 3 < Len(m)
      /\ end = TailCut(m, start) /\ end \in Int /\ start < end
      /\ w.turns = AsksOf(TurnsToSummarize(m, start, end))
      /\ SystemCount(m) <= start
      /\ start > 0 /\ Own(m[start]) => start - SystemCount(m) = ProtectFirst
      /\ start + 1 - SystemCount(m) \notin 2..ProtectFirst
  <2>1. Windowed(w, t, n, m, start, end) BY <1>1, <1>2, WindowParts
  <2> QED BY <2>1 DEF Windowed
<1>6. AsksOf(TurnsToSummarize(m, start, end)) \subseteq covers BY <1>3, <1>5 DEF Makeshift, Told
<1>7. Listed(m, n) /\ Ordered(m) BY <1>5 DEF Intact
<1>8. PICK pre : \E e \in Int : /\ start <= e /\ Assemble(m, start, end, covers) = SanitizePairs(pre)
                                /\ Listed(pre, n) /\ Ordered(pre)
                                /\ Joined(pre, m, start, end, e, covers)
      BY <1>5, <1>7, AssembledParts
<1>9. PICK e \in Int : /\ start <= e /\ after = SanitizePairs(pre)
                       /\ Listed(pre, n) /\ Ordered(pre)
                       /\ Joined(pre, m, start, end, e, covers)
      BY <1>4, <1>8
<1>10. Settled(after) BY <1>5, <1>9, SettledAfter
<1>11. Intact(after, n) BY <1>9, PairsRestored
<1>12. Settled(l) /\ Carried(after) \subseteq Carried(l) BY <1>4, <1>7, <1>10, <1>11, UserTurnSettled
<1>13. KeepsAsk(t, l)
  <2> SUFFICES ASSUME NEW u \in 1..Len(t), Own(t[u]), \A k \in u + 1..Len(t) : ~Own(t[k])
               PROVE  t[u].asks \subseteq Carried(l)
      BY DEF KeepsAsk
  <2>1. Intact(t, n) /\ Len(t) \in Nat BY <1>1, ListedShape DEF Intact
  <2>2. Len(m) = Len(t) /\ \A k \in 1..Len(t) : Alike(m[k], t[k]) BY <1>5, <2>1, PruneIsAlike
  <2>3. \A k \in 1..Len(t) : (Own(m[k]) <=> Own(t[k])) /\ m[k].asks = t[k].asks BY <2>2 DEF Alike, Own
  <2>4. u \in 1..Len(m) /\ Own(m[u]) BY <2>2, <2>3
  <2>5. \A k \in u + 1..Len(m) : ~Own(m[k])
    <3> SUFFICES ASSUME NEW k \in u + 1..Len(m) PROVE ~Own(m[k]) OBVIOUS
    <3>1. k \in 1..Len(t) /\ k \in u + 1..Len(t) BY <2>1, <2>2
    <3> QED BY <2>3, <3>1
  <2>6. m[u].asks \subseteq Carried(after) BY <1>5, <1>6, <1>9, <2>4, <2>5, AskCompacted
  <2> QED BY <1>12, <2>3, <2>6
<1>14. KeepsOutside(t, l, w)
  <2> SUFFICES ASSUME NEW u \in 1..Len(t), t[u].role = "user", ~InTheMiddle(w, u)
               PROVE  t[u].asks \subseteq Carried(l)
      BY DEF KeepsOutside
  <2>1. Intact(t, n) BY <1>1
  <2>2. Len(m) = Len(t) /\ \A k \in 1..Len(t) : Alike(m[k], t[k]) BY <1>5, <2>1, PruneIsAlike
  <2>3. u \in 1..Len(m) /\ m[u].role = "user" /\ m[u].asks = t[u].asks BY <2>2 DEF Alike
  <2>4. u \notin start + 1..end BY <1>2 DEF InTheMiddle
  <2>5. m[u].asks \subseteq Carried(after) BY <1>5, <1>9, <2>3, <2>4, OutsideKept
  <2> QED BY <1>12, <2>3, <2>5
<1> QED BY <1>1, <1>4, <1>12, <1>13, <1>14

LEMMA SummarizeKeepsAsk ==
    ASSUME ProtectFirst # 1, Transcripts, AllSettled, NEW a \in Agents, Summarize(a)
    PROVE  \/ UNCHANGED transcript
           \/ \E l, c : /\ transcript' = [transcript EXCEPT ![a] = l]
                        /\ c \in {compressor[a], [compressor[a] EXCEPT !.cooling = FALSE]}
                        /\ Settled(l) /\ KeepsAsk(transcript[a], l)
                        /\ KeepsOutside(transcript[a], l, Window(a, c))
<1>1. PICK c, w : /\ c \in {compressor[a], [compressor[a] EXCEPT !.cooling = FALSE]}
                  /\ w = Window(a, c)
                  /\ \/ NoMiddle(a, c, w)
                     \/ /\ ~w.empty
                        /\ \/ UNCHANGED transcript
                           \/ \E s : Compact(a, s, w)
      BY SummarizeCases
<1>2. PICK n, t : n = rounds /\ t = transcript[a] OBVIOUS
<1>3. Intact(t, n) /\ Listed(t, n) /\ Settled(t) BY <1>2 DEF Transcripts, Intact, AllSettled
<1>4. CASE NoMiddle(a, c, w)
  <2>1. PICK m : m = IF w.short THEN t ELSE w.messages OBVIOUS
  <2>2. PICK l : l = EnsureUserTurn(t, m) OBVIOUS
  <2>3. transcript' = [transcript EXCEPT ![a] = l] BY <1>2, <1>4, <2>1, <2>2 DEF NoMiddle
  <2>4. ~w.short => w.messages = Prune(t)
    <3>1. PICK p : p = Prune(t) OBVIOUS
    <3>2. PICK head : head = ProtectHead(p, c.count, c.previous) OBVIOUS
    <3>3. PICK start : start = AlignForward(p, head) OBVIOUS
    <3>4. PICK end : end = TailCut(p, start) OBVIOUS
    <3>5. PICK known, turns : /\ known = Rehydrated(p, end, c.previous)
                              /\ turns = AsksOf(TurnsToSummarize(p, start, end))
          OBVIOUS
    <3>6. w = IF Len(p) <= head + 4
              THEN [short |-> TRUE, empty |-> TRUE]
              ELSE [short |-> FALSE, empty |-> start >= end, messages |-> p, start |-> start, end |-> end, known |-> known, turns |-> turns]
          BY <1>1, <1>2, <3>1, <3>2, <3>3, <3>4, <3>5 DEF Window
    <3>7. CASE Len(p) <= head + 4 BY <3>6, <3>7
    <3>8. CASE ~(Len(p) <= head + 4)
      <4>1. w.messages = p BY <3>6, <3>8
      <4> QED BY <3>1, <4>1
    <3> QED BY <3>7, <3>8
  <2>5. /\ Intact(m, n) /\ Settled(m) /\ Len(m) = Len(t) /\ \A k \in 1..Len(t) : Alike(m[k], t[k])
    <3>1. CASE m = t BY <1>3, <3>1 DEF Alike
    <3>2. CASE m = Prune(t) BY <1>3, <3>2, PruneIsAlike, PruneSettled, PruneKeepsPairs
    <3> QED BY <2>1, <2>4, <3>1, <3>2
  <2>6. Settled(l) /\ Carried(m) \subseteq Carried(l) BY <1>3, <2>2, <2>5, UserTurnSettled
  <2>7. KeepsAsk(t, l) /\ KeepsOutside(t, l, w)
    <3>1. DOMAIN m = 1..Len(m) BY <2>5, ListedShape DEF Intact
    <3>2. \A u \in 1..Len(t) : t[u].asks = m[u].asks /\ u \in DOMAIN m BY <2>5, <3>1 DEF Alike
    <3>3. \A u \in DOMAIN m : m[u].asks \subseteq Carried(m) BY DEF Carried
    <3>4. \A u \in 1..Len(t) : t[u].asks \subseteq Carried(l) BY <2>6, <3>2, <3>3
    <3> QED BY <3>4 DEF KeepsAsk, KeepsOutside
  <2> QED BY <1>1, <1>2, <2>3, <2>6, <2>7
<1>5. ASSUME NEW s, ~w.empty, Compact(a, s, w)
      PROVE  \E l : /\ transcript' = [transcript EXCEPT ![a] = l]
                    /\ Settled(l) /\ KeepsAsk(transcript[a], l) /\ KeepsOutside(transcript[a], l, w)
      BY <1>1, <1>2, <1>3, <1>5, CompactKeepsAsk
<1> QED BY <1>1, <1>4, <1>5

LEMMA SettledInductive ==
    ASSUME ProtectFirst # 1, Transcripts, AllSettled, [Next]_vars
    PROVE  AllSettled'
<1>1. DOMAIN transcript = Agents /\ rounds \in Nat /\ \A a \in Agents : Intact(transcript[a], rounds)
      BY DEF Transcripts
<1>2. ASSUME NEW a \in Agents, NEW l, Settled(l), transcript' = [transcript EXCEPT ![a] = l]
      PROVE  AllSettled'
  <2>1. \A b \in Agents : transcript'[b] = IF b = a THEN l ELSE transcript[b] BY <1>1, <1>2
  <2> QED BY <1>2, <2>1 DEF AllSettled
<1>3. CASE UNCHANGED transcript BY <1>3 DEF AllSettled
<1>4. ASSUME NEW a \in Agents, NEW x, IsMessage(x, rounds), x.role \notin {"tool", "system"}, x.calls = {},
             ~x.summary, transcript' = [transcript EXCEPT ![a] = transcript[a] \o <<x>>]
      PROVE  AllSettled'
  <2>1. PICK m, l : m = transcript[a] /\ l = m \o <<x>> OBVIOUS
  <2>2. Intact(m, rounds) /\ Settled(m) BY <1>1, <2>1 DEF AllSettled
  <2>3. Settled(l) BY <1>4, <2>1, <2>2, MessageSettled
  <2> QED BY <1>2, <1>4, <2>1, <2>3
<1>5. ASSUME NEW a \in Agents, AgentNext(a) PROVE AllSettled'
  <2>1. CASE Ask(a)
    <3>1. PICK i : transcript' = [transcript EXCEPT ![a] = transcript[a] \o <<UserAsks(i)>>]
          BY <2>1 DEF Ask, Converse
    <3>2. PICK x : x = UserAsks(i) OBVIOUS
    <3>3. IsMessage(x, rounds) /\ x.role = "user" /\ x.calls = {} /\ ~x.summary
          BY <3>2 DEF UserAsks, Blank, IsMessage, Parts
    <3> QED BY <1>4, <3>1, <3>2, <3>3
  <2>2. CASE UseTool(a)
    <3>1. PICK w : transcript' = [transcript EXCEPT ![a] = transcript[a] \o <<Calls(rounds + 1), Result(rounds + 1, w)>>]
          BY <2>2 DEF UseTool, Converse
    <3>2. PICK r, m : r = rounds /\ m = transcript[a] OBVIOUS
    <3>3. PICK l : l = m \o <<Calls(r + 1), Result(r + 1, w)>> OBVIOUS
    <3>4. r \in Nat /\ Intact(m, r) /\ Settled(m) BY <1>1, <3>2 DEF AllSettled
    <3>5. Settled(l) BY <3>3, <3>4, RoundSettled
    <3>6. transcript' = [transcript EXCEPT ![a] = l] BY <3>1, <3>2, <3>3
    <3> QED BY <1>2, <3>5, <3>6
  <2>3. CASE Reply(a)
    <3>1. transcript' = [transcript EXCEPT ![a] = transcript[a] \o <<Answer>>]
          BY <2>3 DEF Reply, Converse
    <3>2. PICK x : x = Answer OBVIOUS
    <3>3. IsMessage(x, rounds) /\ x.role = "assistant" /\ x.calls = {} /\ ~x.summary
          BY <3>2 DEF Answer, Blank, IsMessage, Parts
    <3> QED BY <1>4, <3>1, <3>2, <3>3
  <2>4. CASE Summarize(a)
    <3>1. \/ UNCHANGED transcript
          \/ \E l : transcript' = [transcript EXCEPT ![a] = l] /\ Settled(l)
          BY <2>4, SummarizeKeepsAsk
    <3> QED BY <1>2, <1>3, <3>1
  <2>5. AdoptCooldown(a) \/ CoolOff(a) => UNCHANGED transcript BY DEF AdoptCooldown, CoolOff
  <2>6. Begin(a) => UNCHANGED transcript BY DEF Begin
  <2>7. EndSession(a) \/ CreateSession(a) => UNCHANGED transcript BY DEF EndSession, CreateSession
  <2>8. Archive(a) \/ Boundary(a) => UNCHANGED transcript BY DEF Archive, Boundary
  <2>9. Restart(a) \/ Crash(a) => UNCHANGED transcript BY DEF Restart, Crash
  <2> QED BY <1>3, <1>5, <2>1, <2>2, <2>3, <2>4, <2>5, <2>6, <2>7, <2>8, <2>9 DEF AgentNext
<1>6. ASSUME NEW a \in Agents, NEW b \in Agents, Fork(a, b) PROVE AllSettled'
  <2>1. PICK l : l = transcript[a] OBVIOUS
  <2>2. Settled(l) /\ transcript' = [transcript EXCEPT ![b] = l] BY <1>6, <2>1 DEF Fork, AllSettled
  <2> QED BY <1>2, <2>2
<1>7. ASSUME NEW s \in DOMAIN lock, Lapse(s) \/ Expire(s) PROVE AllSettled'
  <2>1. UNCHANGED transcript BY <1>7 DEF Lapse, Expire, local
  <2> QED BY <1>3, <2>1
<1>8. CASE UNCHANGED vars
  <2>1. UNCHANGED transcript BY <1>8 DEF vars, local
  <2> QED BY <1>3, <2>1
<1> QED BY <1>5, <1>6, <1>7, <1>8 DEF Next

(* Only its own compaction writes the transcript of an agent that compacts.  *)
LEMMA OnlySummarizeWrites ==
    ASSUME NEW a \in Agents, DOMAIN transcript = Agents, pc[a] \in Reasons, [Next]_vars,
           transcript'[a] # transcript[a]
    PROVE  Summarize(a)
<1>1. pc[a] # "idle" /\ pc[a] # "absent" BY DEF Reasons
<1>2. ASSUME NEW b \in Agents, NEW l, transcript' = [transcript EXCEPT ![b] = l] PROVE a = b
      BY <1>2
<1>3. ~UNCHANGED transcript OBVIOUS
<1>4. ASSUME NEW b \in Agents, AgentNext(b), ~Summarize(b) PROVE FALSE
  <2>1. Ask(b) => b = a /\ pc[b] = "idle" BY <1>2 DEF Ask, Converse
  <2>2. UseTool(b) => b = a /\ pc[b] = "idle" BY <1>2 DEF UseTool, Converse
  <2>3. Reply(b) => b = a /\ pc[b] = "idle" BY <1>2 DEF Reply, Converse
  <2>4. AdoptCooldown(b) \/ CoolOff(b) => UNCHANGED transcript BY DEF AdoptCooldown, CoolOff
  <2>5. Begin(b) => UNCHANGED transcript BY DEF Begin
  <2>6. EndSession(b) \/ CreateSession(b) => UNCHANGED transcript BY DEF EndSession, CreateSession
  <2>7. Archive(b) \/ Boundary(b) => UNCHANGED transcript BY DEF Archive, Boundary
  <2>8. Restart(b) \/ Crash(b) => UNCHANGED transcript BY DEF Restart, Crash
  <2> QED BY <1>1, <1>3, <1>4, <2>1, <2>2, <2>3, <2>4, <2>5, <2>6, <2>7, <2>8 DEF AgentNext
<1>5. ASSUME NEW b \in Agents, Summarize(b) PROVE b = a
  <2>1. PICK c, w : \/ NoMiddle(b, c, w)
                    \/ UNCHANGED transcript
                    \/ \E s : Compact(b, s, w)
        BY <1>5, SummarizeCases
  <2>2. NoMiddle(b, c, w) => b = a BY <1>2 DEF NoMiddle
  <2>3. ASSUME NEW s, Compact(b, s, w) PROVE b = a
    <3>1. PICK l : transcript' = [transcript EXCEPT ![b] = l] BY <2>3 DEF Compact
    <3> QED BY <1>2, <3>1
  <2> QED BY <1>3, <2>1, <2>2, <2>3
<1>6. ASSUME NEW b \in Agents, NEW c \in Agents, Fork(b, c) PROVE FALSE
      BY <1>1, <1>2, <1>6 DEF Fork
<1>7. ASSUME NEW s \in DOMAIN lock, Lapse(s) \/ Expire(s) PROVE FALSE
      BY <1>3, <1>7 DEF Lapse, Expire, local
<1>8. UNCHANGED vars => UNCHANGED transcript BY DEF vars, local
<1> QED BY <1>3, <1>4, <1>5, <1>6, <1>7, <1>8 DEF Next

(* LastWords finds the latest message with words of the user's own.          *)
LEMMA LatestWords ==
    ASSUME NEW m, Len(m) \in Nat, DOMAIN m = 1..Len(m), NEW user, user = LastWords(m), user > 0
    PROVE  /\ user \in 1..Len(m) /\ m[user].role = "user"
           /\ ~m[user].summary => Own(m[user]) /\ \A k \in user + 1..Len(m) : ~Own(m[k])
<1> DEFINE S == {k \in DOMAIN m : m[k].role = "user" /\ (m[k].summary => m[k].asks # {})}
<1>1. user = HighestOr(S, 0) BY DEF LastWords
<1>2. S \subseteq 0..Len(m) /\ 0 \in Int /\ Len(m) \in Int OBVIOUS
<1>3. \A k \in S : k \in 1..Len(m) /\ m[k].role = "user" OBVIOUS
<1>4. \A k \in 1..Len(m) : Own(m[k]) => k \in S BY DEF Own
<1> HIDE DEF S
<1>5. HighestOr(S, 0) \in Int /\ HighestOr(S, 0) \in S \cup {0} /\ \A y \in S : y <= HighestOr(S, 0)
      BY <1>2, Extremes
<1>6. user \in S BY <1>1, <1>5
<1>7. ASSUME NEW k \in user + 1..Len(m), Own(m[k]) PROVE FALSE
  <2>1. user \in 1..Len(m) BY <1>3, <1>6
  <2>2. k \in 1..Len(m) /\ k > user BY <2>1
  <2>3. k <= user BY <1>1, <1>4, <1>5, <1>7, <2>2
  <2> QED BY <2>1, <2>2, <2>3
<1> QED BY <1>3, <1>6, <1>7 DEF Own

(* The cooldown has no say in where the middle is. *)
LEMMA WindowOfAgent ==
    ASSUME NEW a, DOMAIN compressor[a] = Fields,
           NEW c \in {compressor[a], [compressor[a] EXCEPT !.cooling = FALSE]}
    PROVE  Window(a, c) = Window(a, compressor[a])
<1>1. c.count = compressor[a].count /\ c.previous = compressor[a].previous BY DEF Fields
<1> QED BY <1>1 DEF Window

-----------------------------------------------------------------------------
(* The theorems *)

(* Every step of an agent, and every lapse and expiry, keeps the invariant.  *)
THEOREM CompressInductive ==
    ASSUME ContextAssumption, CInv, [Next]_vars PROVE CInv'
<1>1. ASSUME NEW a \in Agents, AgentNext(a) PROVE CInv'
  <2>1. CASE Ask(a) \/ UseTool(a) \/ Reply(a)
    <3>1. CASE Ask(a)
      <4>1. PICK n : Converse(a, <<UserAsks(n)>>, FALSE) BY <3>1 DEF Ask
      <4>2. PICK messages : messages = <<UserAsks(n)>> OBVIOUS
      <4> QED BY <4>1, <4>2, ConverseStep
    <3>2. CASE UseTool(a)
      <4>1. PICK messages : Converse(a, messages, TRUE) BY <3>2 DEF UseTool
      <4> QED BY <4>1, ConverseStep
    <3>3. CASE Reply(a)
      <4>1. PICK messages : messages = <<Answer>> OBVIOUS
      <4>2. Converse(a, messages, TRUE) BY <3>3, <4>1 DEF Reply
      <4> QED BY <4>2, ConverseStep
    <3> QED BY <2>1, <3>1, <3>2, <3>3
  <2>2. CASE AdoptCooldown(a) \/ CoolOff(a) BY <2>2, AdoptStep
  <2>3. CASE Begin(a) BY <2>3, BeginStep
  <2>4. CASE Summarize(a) BY <2>4, SummarizeStep
  <2>5. CASE EndSession(a) BY <2>5, EndSessionStep
  <2>6. CASE CreateSession(a) BY <2>6, CreateSessionStep
  <2>7. CASE Archive(a) BY <2>7, ArchiveStep
  <2>8. CASE Boundary(a) BY <2>8, BoundaryStep
  <2>9. CASE Restart(a) BY <2>9, RestartStep
  <2>10. CASE Crash(a) BY <2>10, CrashStep
  <2> QED BY <1>1, <2>1, <2>2, <2>3, <2>4, <2>5, <2>6, <2>7, <2>8, <2>9, <2>10 DEF AgentNext
<1>2. ASSUME NEW a \in Agents, NEW b \in Agents, Fork(a, b) PROVE CInv'
      BY <1>2, ForkStep
<1>3. ASSUME NEW s \in DOMAIN lock, Lapse(s) \/ Expire(s) PROVE CInv'
  <2>1. CASE Lapse(s) BY <2>1, LapseStep
  <2>2. CASE Expire(s) BY <2>2, ExpireStep
  <2> QED BY <1>3, <2>1, <2>2
<1>4. CASE UNCHANGED vars
  <2> USE DEF CInv
  <2>1. Shapes' BY <1>4 DEF Shapes, vars, counters, local, store, history
  <2>2. Compressors' BY <1>4 DEF Compressors, vars, local
  <2>3. RowsAreHeld' /\ LocksAreOfOrigins'
        BY <1>4, LocksFrame DEF vars, counters, local, store, history
  <2>4. \A b \in Agents : <<b, sid'[b]>> \in owed => compressor'[b].cooling
        BY <1>4 DEF vars, local, RecordersCool
  <2>5. RowsTell' /\ RecordersCool' /\ CooldownRespected'
        BY <1>4, <2>4, CooldownFrame DEF vars, local, store, history
  <2> QED BY <2>1, <2>2, <2>3, <2>5
<1> QED BY <1>1, <1>2, <1>3, <1>4 DEF Next

(* The places of the agents, their sessions and locks, and the rows of the   *)
(* store stay within their types (compress_context, _begin to its boundary). *)
THEOREM ContextTypeCorrect == Spec => []TypeOK
<1>1. Init /\ ContextAssumption => CInv BY InitEstablishes
<1>2. ContextAssumption /\ CInv /\ [Next]_vars => CInv' BY CompressInductive
<1>3. ContextAssumption /\ CInv => TypeOK
      BY LenProperties DEF CInv, Shapes, Compressors, TypeOK, Pcs
<1> QED BY <1>1, <1>2, <1>3, ContextAssumption, PTL DEF Spec

(* Two agents that hold the lock of a session, which no failure refused them *)
(* and no lapse took, are one (try_acquire_compression_lock, _release_lock). *)
THEOREM OneCompactor == Spec => []OneCompactorPerSession
<1>1. Init /\ ContextAssumption => CInv BY InitEstablishes
<1>2. ContextAssumption /\ CInv /\ [Next]_vars => CInv' BY CompressInductive
<1>3. CInv => OneCompactorPerSession BY DEF CInv, RowsAreHeld, OneCompactorPerSession
<1> QED BY <1>1, <1>2, <1>3, ContextAssumption, PTL DEF Spec

(* Without a failure the lock serializes the compactions of a session, the   *)
(* rotation into the child and its announcement included.                    *)
THEOREM SoundStoreSerializesCompactions == Spec => []SoundStoreSerializes
<1>1. Init /\ ContextAssumption => CInv BY InitEstablishes
<1>2. ContextAssumption /\ CInv /\ [Next]_vars => CInv' BY CompressInductive
<1>3. CInv => SoundStoreSerializes
      BY DEF CInv, RowsAreHeld, LocksAreOfOrigins, SoundStoreSerializes
<1> QED BY <1>1, <1>2, <1>3, ContextAssumption, PTL DEF Spec

(* No agent asks for a summary while a failure it has recorded for its       *)
(* session has not passed: after a restart and after a binding it reads the  *)
(* row, which is there as long as the failure counts.                        *)
THEOREM CooldownIsRespected == Spec => []CooldownRespected
<1>1. Init /\ ContextAssumption => CInv BY InitEstablishes
<1>2. ContextAssumption /\ CInv /\ [Next]_vars => CInv' BY CompressInductive
<1>3. CInv => CooldownRespected BY DEF CInv
<1> QED BY <1>1, <1>2, <1>3, ContextAssumption, PTL DEF Spec

(* However often a transcript is pruned, summarized, forked and continued,   *)
(* each of its results stands behind its call, each call has its result, and *)
(* whoever was asked has a user turn (_sanitize_tool_pairs, the boundaries   *)
(* that _align_boundary_forward and _align_boundary_backward move off the    *)
(* results, and _ensure_compressed_has_user_turn).                           *)
THEOREM TranscriptsStaySendable == Spec => []Sendable
<1>1. Init => Transcripts BY InitTranscripts
<1>2. Transcripts /\ [Next]_vars => Transcripts' BY TranscriptsInductive
<1>3. Transcripts => (TypeOK => Sendable)
  <2> SUFFICES ASSUME Transcripts, TypeOK PROVE Sendable OBVIOUS
  <2>1. ASSUME NEW a \in Agents
        PROVE  LET l == transcript[a]
               IN  /\ \A k \in DOMAIN l : l[k].role = "tool" => CallsAt(l, k) # {}
                   /\ \A j \in DOMAIN l : \A c \in l[j].calls : \E k \in j + 1..Len(l) : l[k].of = c
                   /\ asked[a] # {} => \E k \in DOMAIN l : l[k].role = "user"
    <3>1. PICK n, m : n = rounds /\ m = transcript[a] OBVIOUS
    <3>2. Intact(m, n) BY <3>1 DEF Transcripts
    <3>3. Len(m) \in Nat /\ DOMAIN m = 1..Len(m) BY <3>2, ListedShape DEF Intact
    <3>4. ASSUME NEW k \in DOMAIN m, m[k].role = "tool" PROVE CallsAt(m, k) # {}
      <4>1. PICK j \in 1..Len(m) : m[k].of \in m[j].calls BY <3>2, <3>3, <3>4 DEF Intact, Paired
      <4>2. j < k BY <3>2, <3>3, <3>4, <4>1 DEF Intact, Ordered
      <4>3. j \in 1..k - 1 BY <3>3, <4>2
      <4> QED BY <4>1, <4>3 DEF CallsAt
    <3>5. ASSUME NEW j \in DOMAIN m, NEW c \in m[j].calls PROVE \E k \in j + 1..Len(m) : m[k].of = c
      <4>1. PICK k \in 1..Len(m) : m[k].role = "tool" /\ m[k].of = c BY <3>2, <3>3, <3>5 DEF Intact, Paired
      <4>2. j < k BY <3>2, <3>3, <3>5, <4>1 DEF Intact, Ordered
      <4>3. k \in j + 1..Len(m) BY <3>3, <4>2
      <4> QED BY <4>1, <4>3
    <3>6. asked[a] # {} => \E k \in DOMAIN m : m[k].role = "user" BY <3>1, <3>3 DEF Transcripts, HasUser
    <3> QED BY <3>1, <3>4, <3>5, <3>6
  <2> QED BY <2>1, Zenon DEF Sendable
<1>4. Spec => []TypeOK BY ContextTypeCorrect
<1> QED BY <1>1, <1>2, <1>3, <1>4, PTL DEF Spec

(* The user's latest message outlives every compaction, in the head, the     *)
(* tail or the summary, however often a transcript has been cut before       *)
(* (_ensure_last_user_message_in_tail), unless a summary has been merged     *)
(* into it and it is in the middle, or the head protects exactly one         *)
(* message.  Then the first summary lands right behind the user's message and *)
(* the next compaction takes it for the reply (_find_turn_pair_end).          *)
THEOREM LatestAskIsKept == ASSUME ProtectFirst # 1 PROVE Spec => LatestAskKept
<1> DEFINE Outlives ==
       \A a \in Agents :
           LET m == transcript[a]
               user == LastWords(m)
           IN  pc[a] \in Reasons /\ transcript'[a] # m /\ user > 0
                   => \/ m[user].asks \subseteq Carried(transcript'[a])
                      \/ m[user].summary /\ InTheMiddle(Window(a, compressor[a]), user)
<1>1. Init /\ ContextAssumption => Transcripts /\ AllSettled /\ CInv
      BY InitTranscripts, InitSettled, InitEstablishes
<1>2. ContextAssumption /\ Transcripts /\ AllSettled /\ CInv /\ [Next]_vars
          => (Transcripts /\ AllSettled /\ CInv)'
      BY TranscriptsInductive, SettledInductive, CompressInductive
<1>3. Transcripts /\ AllSettled /\ CInv /\ [Next]_vars => [Outlives]_vars
  <2> SUFFICES ASSUME Transcripts, AllSettled, CInv, [Next]_vars PROVE Outlives OBVIOUS
  <2> SUFFICES ASSUME NEW a \in Agents, pc[a] \in Reasons, transcript'[a] # transcript[a],
                      LastWords(transcript[a]) > 0,
                      ~ /\ transcript[a][LastWords(transcript[a])].summary
                        /\ InTheMiddle(Window(a, compressor[a]), LastWords(transcript[a]))
               PROVE  transcript[a][LastWords(transcript[a])].asks \subseteq Carried(transcript'[a])
      OBVIOUS
  <2>1. PICK m, user : m = transcript[a] /\ user = LastWords(m) OBVIOUS
  <2>2. DOMAIN transcript = Agents /\ Intact(m, rounds) BY <2>1 DEF Transcripts
  <2>3. Len(m) \in Nat /\ DOMAIN m = 1..Len(m) BY <2>2, ListedShape DEF Intact
  <2>4. Summarize(a) BY <2>2, OnlySummarizeWrites
  <2>5. PICK l, c : /\ transcript' = [transcript EXCEPT ![a] = l] /\ KeepsAsk(m, l)
                    /\ c \in {compressor[a], [compressor[a] EXCEPT !.cooling = FALSE]}
                    /\ KeepsOutside(m, l, Window(a, c))
        BY <2>1, <2>4, SummarizeKeepsAsk
  <2>6. transcript'[a] = l BY <2>2, <2>5
  <2>7. Window(a, c) = Window(a, compressor[a])
    <3>1. DOMAIN compressor[a] = Fields BY DEF CInv, Compressors
    <3> QED BY <2>5, <3>1, WindowOfAgent
  <2>8. /\ user \in 1..Len(m) /\ m[user].role = "user"
        /\ ~m[user].summary => Own(m[user]) /\ \A k \in user + 1..Len(m) : ~Own(m[k])
        BY <2>1, <2>3, LatestWords
  <2>9. CASE ~m[user].summary
    <3>1. m[user].asks \subseteq Carried(l) BY <2>5, <2>8, <2>9 DEF KeepsAsk
    <3> QED BY <2>1, <2>6, <3>1
  <2>10. CASE ~InTheMiddle(Window(a, compressor[a]), user)
    <3>1. m[user].asks \subseteq Carried(l) BY <2>5, <2>7, <2>8, <2>10 DEF KeepsOutside
    <3> QED BY <2>1, <2>6, <3>1
  <2> QED BY <2>1, <2>9, <2>10
<1> QED BY <1>1, <1>2, <1>3, ContextAssumption, PTL DEF Spec, LatestAskKept

-----------------------------------------------------------------------------
(***************************************************************************)
(* When a compaction is due.  The trigger of Decisions is asked on and on: *)
(* of any sequence of usages, models, resets and compactions, its          *)
(* threshold stays within the window, what it hands over fits the          *)
(* summarizer, and one compaction does not start the next.                 *)
(***************************************************************************)
Share == [num : Nat, den : Nat \ {0}]

Meter == [window : Nat, share : Share, reserved : Nat, threshold : Nat, last : Int, real : Nat,
          shrunk : Nat, fits : Nat, awaiting : BOOLEAN, summarizer : Nat, checkedAt : Nat,
          verdict : {"none", "compact", "deferred"}]

\* The windows of now and later, as long as they were only corrected downwards.
Fits(m) ==
    /\ m.summarizer >= Floor64
    /\ m.window <= m.checkedAt /\ m.reserved < m.window => m.threshold <= m.summarizer
    /\ \A window \in Windows :
          window <= m.checkedAt /\ m.reserved < window =>
              Threshold(window, m.share, m.reserved) <= m.summarizer

InRange(m) == m.threshold \in 1 .. Usable(m.window, m.reserved) - 1
Checked(m) ==
    /\ m.summarizer = 0 => m.threshold = Threshold(m.window, m.share, m.reserved)
    /\ m.summarizer # 0 => Fits(m)
Once(m) == m.awaiting => m.last = Parked /\ m.verdict # "compact"

MeterOK(m) ==
    /\ m \in Meter /\ m.window \in Windows /\ m.reserved \in Reserves
    /\ InRange(m) /\ Checked(m) /\ Once(m)

\* What is left of a window.
LEMMA UsableRange ==
  ASSUME TriggerAssumption, NEW window \in Windows, NEW reserved \in Reserves
  PROVE  /\ Usable(window, reserved) \in Nat /\ Usable(window, reserved) > 1
         /\ Usable(window, reserved) <= window
         /\ window \in Nat /\ reserved \in Nat
BY DEF TriggerAssumption, Usable

\* A share p/d of n is a number, all of n for p no less than d, at most p for n
\* no more than d; it grows with n.
LEMMA Shared ==
  ASSUME NEW n \in Nat, NEW p \in Nat, NEW d \in Nat \ {0}
  PROVE  /\ (n * p) \div d \in Nat
         /\ p >= d => (n * p) \div d >= n
         /\ n <= d => (n * p) \div d <= p
<1> DEFINE q == (n * p) \div d
<1>1. n * p \in Nat
  OBVIOUS
<1>2. q \in Int /\ d * q <= n * p /\ n * p < d * (q + 1)
  BY <1>1
<1>3. q \in Nat
  BY <1>1, <1>2
<1>4. ASSUME p >= d PROVE q >= n
  <2>1. d * n <= n * p
    BY <1>4
  <2>2. d * n < d * (q + 1)
    BY <1>1, <1>2, <2>1
  <2> QED BY <1>2, <2>2
<1>5. ASSUME n <= d PROVE q <= p
  <2>1. n * p <= d * p
    BY <1>5
  <2>2. d * q <= d * p
    BY <1>1, <1>2, <2>1
  <2> QED BY <1>2, <2>2
<1> QED BY <1>3, <1>4, <1>5

LEMMA SharedGrows ==
  ASSUME NEW n \in Nat, NEW k \in Nat, n <= k, NEW p \in Nat, NEW d \in Nat \ {0}
  PROVE  (n * p) \div d <= (k * p) \div d
<1> DEFINE q == (n * p) \div d
           r == (k * p) \div d
<1>1. n * p \in Nat /\ k * p \in Nat /\ n * p <= k * p
  OBVIOUS
<1>2. q \in Int /\ d * q <= n * p
  BY <1>1
<1>3. r \in Int /\ k * p < d * (r + 1)
  BY <1>1
<1> HIDE DEF q, r
<1>4. d * q < d * (r + 1)
  BY <1>1, <1>2, <1>3
<1>5. q < r + 1
  BY <1>2, <1>3, <1>4
<1> QED BY <1>2, <1>3, <1>5 DEF q, r

\* A proper fraction of it is less.
LEMMA SharedIsLess ==
  ASSUME NEW n \in Nat, n > 0, NEW p \in Nat, NEW d \in Nat \ {0}, p < d
  PROVE  (n * p) \div d < n
<1> DEFINE q == (n * p) \div d
<1>1. n * p \in Nat /\ n * p < n * d
  OBVIOUS
<1>2. q \in Int /\ d * q <= n * p
  BY <1>1
<1> HIDE DEF q
<1>3. d * q < d * n
  BY <1>1, <1>2
<1>4. q < n
  BY <1>2, <1>3
<1> QED BY <1>4 DEF q

\* The two thresholds for u tokens: the share of them, or nearly all.
Floored(u, share) == Larger((u * share.num) \div share.den, Floor64)
Below(u) == Larger(1, Lesser((u * 85) \div 100, u - 1))

LEMMA ThresholdIs ==
  ASSUME TriggerAssumption, NEW window \in Windows, NEW reserved \in Reserves, NEW share \in Share
  PROVE  /\ Floored(Usable(window, reserved), share) < Usable(window, reserved) =>
              Threshold(window, share, reserved) = Floored(Usable(window, reserved), share)
         /\ ~(Floored(Usable(window, reserved), share) < Usable(window, reserved)) =>
              Threshold(window, share, reserved) = Below(Usable(window, reserved))
BY DEF Threshold, Floored, Below

LEMMA FlooredRange ==
  ASSUME NEW u \in Nat, NEW share \in Share
  PROVE  /\ Floored(u, share) \in Nat /\ Floored(u, share) >= Floor64
         /\ Floored(u, share) \in {(u * share.num) \div share.den, Floor64}
         /\ (u * share.num) \div share.den <= Floored(u, share)
<1>1. share.num \in Nat /\ share.den \in Nat \ {0}
  BY DEF Share
<1>2. PICK q \in Nat : q = (u * share.num) \div share.den
  BY <1>1, Shared
<1> QED BY <1>2 DEF Floored, Larger, Floor64

LEMMA BelowRange ==
  ASSUME NEW u \in Nat, u > 1
  PROVE  Below(u) \in 1 .. u - 1
BY DEF Below, Larger, Lesser

LEMMA BelowGrows ==
  ASSUME NEW u \in Nat, NEW v \in Nat, u > 1, u <= v
  PROVE  Below(u) <= Below(v)
BY DEF Below, Larger, Lesser

LEMMA ThresholdRange ==
  ASSUME TriggerAssumption, NEW window \in Windows, NEW reserved \in Reserves, NEW share \in Share
  PROVE  Threshold(window, share, reserved) \in 1 .. Usable(window, reserved) - 1
<1>1. PICK u \in Nat : u = Usable(window, reserved) /\ u > 1
  BY UsableRange
<1>2. CASE Floored(u, share) < u
  BY <1>1, <1>2, ThresholdIs, FlooredRange DEF Floor64
<1>3. CASE ~(Floored(u, share) < u)
  BY <1>1, <1>3, ThresholdIs, BelowRange
<1> QED BY <1>2, <1>3

\* Lowered to a summarizer's window, it stays there for all smaller windows.
LEMMA LoweredStays ==
  ASSUME TriggerAssumption, NEW window \in Windows, NEW reserved \in Reserves, NEW size \in Nat,
         NEW large \in Nat, window <= large, size >= Floor64
  PROVE  Threshold(window, [num |-> size, den |-> large], reserved) <= size
<1> DEFINE share == [num |-> size, den |-> large]
<1>1. PICK u \in Nat : u = Usable(window, reserved) /\ u > 1 /\ u <= large
  BY UsableRange
<1>2. share \in Share /\ share.num = size /\ share.den = large
  BY <1>1 DEF Share
<1>3. (u * size) \div large <= size
  BY <1>1, Shared
<1>4. Floored(u, share) <= size /\ Floored(u, share) \in Nat
  BY <1>1, <1>2, <1>3, FlooredRange
<1> HIDE DEF share
<1>5. CASE Floored(u, share) < u
  BY <1>1, <1>2, <1>4, <1>5, ThresholdIs DEF share
<1>6. CASE ~(Floored(u, share) < u)
  <2>1. Threshold(window, share, reserved) = Below(u)
    BY <1>1, <1>2, <1>6, ThresholdIs
  <2>2. Below(u) \in 1 .. u - 1
    BY <1>1, BelowRange
  <2> QED BY <1>1, <1>4, <1>6, <2>1, <2>2 DEF share
<1> QED BY <1>5, <1>6

\* As long as the reserve is subtracted, a smaller window has a smaller one.
LEMMA ThresholdGrows ==
  ASSUME TriggerAssumption, NEW window \in Windows, NEW reserved \in Reserves, NEW share \in Share,
         NEW large \in Windows, window <= large, reserved < window
  PROVE  Threshold(window, share, reserved) <= Threshold(large, share, reserved)
<1>1. PICK u \in Nat : u = Usable(window, reserved) /\ u > 1
  BY UsableRange
<1>2. PICK v \in Nat : v = Usable(large, reserved) /\ v > 1
  BY UsableRange
<1>3. u <= v
  BY <1>1, <1>2, UsableRange DEF Usable
<1>4. PICK f \in Nat : f = Floored(u, share)
  BY FlooredRange
<1>5. PICK g \in Nat : g = Floored(v, share)
  BY FlooredRange
<1>6. f <= g
  <2>1. share.num \in Nat /\ share.den \in Nat \ {0}
    BY DEF Share
  <2>2. (u * share.num) \div share.den <= (v * share.num) \div share.den
    BY <1>3, <2>1, SharedGrows
  <2>3. PICK a \in Nat : a = (u * share.num) \div share.den
    BY <2>1, Shared
  <2>4. PICK b \in Nat : b = (v * share.num) \div share.den
    BY <2>1, Shared
  <2> QED BY <1>4, <1>5, <2>2, <2>3, <2>4 DEF Floored, Larger, Floor64
<1>7. f < u => g < v
  <2> SUFFICES ASSUME f < u PROVE g < v
    OBVIOUS
  <2>1. share.num \in Nat /\ share.den \in Nat \ {0}
    BY DEF Share
  <2>2. (u * share.num) \div share.den <= f /\ Floor64 <= f
    BY <1>4, FlooredRange
  <2>3. PICK a \in Nat : a = (u * share.num) \div share.den
    BY <2>1, Shared
  <2>4. share.num < share.den
    BY <2>1, <2>2, <2>3, Shared
  <2>5. (v * share.num) \div share.den < v
    BY <2>1, <2>4, <1>2, SharedIsLess
  <2> QED BY <1>2, <1>3, <1>5, <2>2, <2>5, FlooredRange DEF Floor64
<1>8. CASE f < u
  BY <1>1, <1>2, <1>4, <1>5, <1>6, <1>7, <1>8, ThresholdIs
<1>9. CASE ~(f < u) /\ g < v
  <2>1. Below(u) \in 1 .. u - 1
    BY <1>1, BelowRange
  <2> QED BY <1>1, <1>2, <1>4, <1>5, <1>6, <1>9, <2>1, ThresholdIs
<1>10. CASE ~(f < u) /\ ~(g < v)
  <2>1. Below(u) <= Below(v)
    BY <1>1, <1>3, BelowGrows
  <2> QED BY <1>1, <1>2, <1>4, <1>5, <1>10, <2>1, ThresholdIs
<1> QED BY <1>8, <1>9, <1>10

\* A meter of another state of usage, with the same window and threshold.
LEMMA SameSettings ==
  ASSUME TriggerAssumption, NEW m, MeterOK(m), NEW n \in Meter,
         n.window = m.window, n.share = m.share, n.reserved = m.reserved, n.threshold = m.threshold,
         n.summarizer = m.summarizer, n.checkedAt = m.checkedAt,
         Once(n)
  PROVE  MeterOK(n)
<1>1. n \in Meter /\ n.window \in Windows /\ n.reserved \in Reserves
  BY DEF MeterOK
<1>2. InRange(n)
  BY DEF MeterOK, InRange
<1>3. Checked(n)
  BY DEF MeterOK, Checked, Fits
<1> QED BY <1>1, <1>2, <1>3 DEF MeterOK

LEMMA NewMeterOK ==
  ASSUME TriggerAssumption, NEW window \in Windows, NEW share \in Shares, NEW reserved \in Reserves
  PROVE  MeterOK(NewMeter(window, share, reserved))
<1> DEFINE m == NewMeter(window, share, reserved)
<1>1. share \in Share /\ window \in Nat /\ reserved \in Nat
  BY DEF TriggerAssumption, Share
<1>2. Threshold(window, share, reserved) \in 1 .. Usable(window, reserved) - 1
  BY <1>1, ThresholdRange
<1>3. Usable(window, reserved) \in Nat
  BY UsableRange
<1>4. m \in Meter
  BY <1>1, <1>2, <1>3 DEF NewMeter, Meter
<1> QED BY <1>2, <1>4 DEF MeterOK, InRange, Checked, Once, NewMeter

LEMMA ResetOK ==
  ASSUME TriggerAssumption, NEW m, MeterOK(m)
  PROVE  MeterOK(OnSessionReset(m))
<1>1. OnSessionReset(m) \in Meter
  <2>1. m \in Meter
    BY DEF MeterOK
  <2> DEFINE a == [m EXCEPT !.last = 0]
             b == [a EXCEPT !.real = 0, !.shrunk = 0]
             c == [b EXCEPT !.fits = 0, !.awaiting = FALSE, !.verdict = "none"]
  <2>2. c = OnSessionReset(m)
    BY DEF OnSessionReset
  <2>3. a \in Meter
    BY <2>1 DEF Meter
  <2> HIDE DEF a
  <2>4. b \in Meter
    BY <2>3 DEF Meter
  <2> HIDE DEF b
  <2>5. c \in Meter
    BY <2>4 DEF Meter
  <2> QED BY <2>2, <2>5
<1>2. m \in Meter
  BY DEF MeterOK
<1> QED BY <1>1, <1>2, SameSettings DEF Once, Meter, OnSessionReset

LEMMA UpdateModelOK ==
  ASSUME TriggerAssumption, NEW m, MeterOK(m), NEW window \in Windows
  PROVE  MeterOK(UpdateModel(m, window))
<1> DEFINE r == OnSessionReset(m)
           t == Threshold(window, m.share, m.reserved)
           n == [r EXCEPT !.window = window, !.threshold = t]
<1>1. m \in Meter /\ m.share \in Share /\ m.reserved \in Reserves
  BY DEF MeterOK, Meter
<1>2. t \in 1 .. Usable(window, m.reserved) - 1 /\ Usable(window, m.reserved) \in Nat /\ window \in Nat
  BY <1>1, ThresholdRange, UsableRange
<1>3. MeterOK(r)
  BY ResetOK
<1>4. /\ r.share = m.share /\ r.reserved = m.reserved /\ r.summarizer = m.summarizer /\ r.checkedAt = m.checkedAt
      /\ ~r.awaiting
  BY <1>1 DEF Meter, OnSessionReset
<1> HIDE DEF r, t
<1>5. n \in Meter
  <2>1. r \in Meter
    BY <1>3 DEF MeterOK
  <2>2. t \in Nat
    BY <1>2
  <2> QED BY <1>2, <2>1, <2>2 DEF Meter
<1>6. /\ n.window = window /\ n.threshold = t /\ n.share = m.share /\ n.reserved = m.reserved
      /\ n.summarizer = m.summarizer /\ n.checkedAt = m.checkedAt /\ ~n.awaiting
  BY <1>3, <1>4 DEF MeterOK, Meter
<1> HIDE DEF n
<1>7. ASSUME m.summarizer = 0 PROVE Checked(n)
  BY <1>6, <1>7 DEF Checked, t
<1>8. ASSUME m.summarizer # 0 PROVE Checked(n)
  <2>1. Fits(m)
    BY <1>8 DEF MeterOK, Checked
  <2>2. Fits(n)
    BY <1>6, <2>1 DEF Fits, t
  <2> QED BY <1>6, <1>8, <2>2 DEF Checked
<1>9. n = UpdateModel(m, window)
  BY DEF n, r, t, UpdateModel
<1>10. InRange(n)
  BY <1>2, <1>6 DEF InRange
<1>11. Once(n)
  BY <1>6 DEF Once
<1> QED BY <1>1, <1>5, <1>6, <1>7, <1>8, <1>9, <1>10, <1>11 DEF MeterOK

LEMMA CheckOK ==
  ASSUME TriggerAssumption, NEW m, MeterOK(m), m.summarizer = 0, NEW s \in Summarizers
  PROVE  MeterOK(CheckSummarizer(m, s))
<1> DEFINE n == CheckSummarizer(m, s)
<1>1. m \in Meter /\ m.threshold \in Nat /\ m.share \in Share /\ m.reserved \in Reserves /\ m.window \in Windows
  BY DEF MeterOK, Meter
<1>2. s \in Nat /\ s >= Floor64 /\ s # 0 /\ m.window \in Nat /\ m.reserved \in Nat /\ Usable(m.window, m.reserved) <= m.window
      /\ Usable(m.window, m.reserved) > 1 /\ Usable(m.window, m.reserved) \in Nat
  BY <1>1, UsableRange DEF TriggerAssumption, Floor64
<1>3. CASE s < m.threshold
  <2> DEFINE share == [num |-> s, den |-> m.window]
  <2>1. share \in Share
    BY <1>2 DEF Share
  <2> HIDE DEF share
  <2>2. n = [m EXCEPT !.summarizer = s, !.checkedAt = m.window, !.verdict = "none", !.threshold = s, !.share = share]
    BY <1>1, <1>3 DEF CheckSummarizer, share
  <2>3. n \in Meter
    BY <1>1, <1>2, <2>1, <2>2, ZenonT(60) DEF Meter
  <2>4. /\ n.window = m.window /\ n.reserved = m.reserved /\ n.threshold = s /\ n.share = share /\ n.summarizer = s
        /\ n.checkedAt = m.window /\ n.awaiting = m.awaiting /\ n.last = m.last /\ n.verdict = "none"
    BY <1>1, <2>2 DEF Meter
  <2> HIDE DEF n
  <2>5. \A window \in Windows : window <= m.window => Threshold(window, share, m.reserved) <= s
    BY <1>1, <1>2, LoweredStays DEF share
  <2>6. Fits(n)
    BY <1>2, <2>4, <2>5 DEF Fits
  <2>7. InRange(n)
    <3>1. InRange(m)
      BY DEF MeterOK
    <3> QED BY <1>2, <1>3, <2>4, <3>1 DEF InRange, Floor64
  <2>8. Once(n)
    BY <2>4 DEF MeterOK, Once
  <2>9. Checked(n)
    BY <1>2, <2>4, <2>6 DEF Checked
  <2> QED BY <1>1, <2>3, <2>4, <2>7, <2>8, <2>9 DEF MeterOK, n
<1>4. CASE ~(s < m.threshold)
  <2>2. n = [m EXCEPT !.summarizer = s, !.checkedAt = m.window, !.verdict = "none"]
    BY <1>1, <1>4 DEF CheckSummarizer, Meter
  <2>3. n \in Meter
    BY <1>1, <1>2, <2>2 DEF Meter
  <2>4. /\ n.window = m.window /\ n.reserved = m.reserved /\ n.threshold = m.threshold /\ n.share = m.share
        /\ n.summarizer = s /\ n.checkedAt = m.window /\ n.awaiting = m.awaiting /\ n.last = m.last /\ n.verdict = "none"
    BY <1>1, <2>2 DEF Meter
  <2> HIDE DEF n
  <2>5. m.threshold = Threshold(m.window, m.share, m.reserved)
    BY DEF MeterOK, Checked
  <2>6. ASSUME NEW window \in Windows, window <= m.window, m.reserved < window
        PROVE  Threshold(window, m.share, m.reserved) <= s
    <3>1. Threshold(window, m.share, m.reserved) <= m.threshold
      BY <1>1, <2>5, <2>6, ThresholdGrows
    <3>2. Threshold(window, m.share, m.reserved) \in Nat
      BY <1>1, ThresholdRange, UsableRange
    <3> QED BY <1>1, <1>2, <1>4, <3>1, <3>2
  <2>7. Fits(n)
    BY <1>1, <1>2, <1>4, <2>4, <2>6 DEF Fits
  <2>8. InRange(n)
    BY <2>4 DEF MeterOK, InRange
  <2>9. Once(n)
    BY <2>4 DEF MeterOK, Once
  <2>10. Checked(n)
    BY <1>2, <2>4, <2>7 DEF Checked
  <2> QED BY <1>1, <2>3, <2>4, <2>8, <2>9, <2>10 DEF MeterOK, n
<1> QED BY <1>3, <1>4

LEMMA VerdictOK ==
  ASSUME TriggerAssumption, NEW m, MeterOK(m), NEW v \in {"none", "compact", "deferred"},
         m.awaiting => v # "compact"
  PROVE  /\ MeterOK([m EXCEPT !.verdict = v])
         /\ [m EXCEPT !.verdict = v].verdict = v /\ [m EXCEPT !.verdict = v].last = m.last
<1> DEFINE n == [m EXCEPT !.verdict = v]
<1>1. m \in Meter /\ Once(m)
  BY DEF MeterOK
<1>2. n \in Meter
  BY <1>1 DEF Meter
<1>3. /\ n.window = m.window /\ n.share = m.share /\ n.reserved = m.reserved /\ n.threshold = m.threshold
      /\ n.summarizer = m.summarizer /\ n.checkedAt = m.checkedAt /\ n.awaiting = m.awaiting
      /\ n.last = m.last /\ n.verdict = v
  BY <1>1 DEF Meter
<1> HIDE DEF n
<1>4. Once(n)
  BY <1>1, <1>3 DEF Once
<1>5. MeterOK(n)
  BY <1>2, <1>3, <1>4, SameSettings
<1> QED BY <1>3, <1>5 DEF n

LEMMA JudgeOK ==
  ASSUME TriggerAssumption, NEW m, MeterOK(m), NEW tokens \in Int, m.awaiting => tokens < m.threshold
  PROVE  MeterOK(Judge(m, tokens)) /\ Judge(m, tokens).last = m.last
<1>1. m.threshold \in Nat
  BY DEF MeterOK, Meter
<1>2. PICK v \in {"none", "compact"} : v = IF tokens >= m.threshold THEN "compact" ELSE "none"
  OBVIOUS
<1>3. m.awaiting => v # "compact"
  BY <1>1, <1>2
<1>4. Judge(m, tokens) = [m EXCEPT !.verdict = v]
  BY <1>2 DEF Judge
<1>5. v \in {"none", "compact", "deferred"}
  BY <1>2
<1>6. MeterOK([m EXCEPT !.verdict = v]) /\ [m EXCEPT !.verdict = v].last = m.last
  BY <1>3, <1>5, VerdictOK
<1> QED BY <1>4, <1>6

\* Usage that is put off, or an estimate that is kept, changes no settings.
LEMMA FitsOK ==
  ASSUME TriggerAssumption, NEW m, MeterOK(m), NEW k \in Nat
  PROVE  MeterOK([m EXCEPT !.fits = k]) /\ [m EXCEPT !.fits = k].last = m.last
<1> DEFINE n == [m EXCEPT !.fits = k]
<1>1. m \in Meter /\ Once(m)
  BY DEF MeterOK
<1>2. n \in Meter
  BY <1>1 DEF Meter
<1>3. /\ n.window = m.window /\ n.share = m.share /\ n.reserved = m.reserved /\ n.threshold = m.threshold
      /\ n.summarizer = m.summarizer /\ n.checkedAt = m.checkedAt /\ n.awaiting = m.awaiting
      /\ n.last = m.last /\ n.verdict = m.verdict
  BY <1>1 DEF Meter
<1> HIDE DEF n
<1>4. Once(n)
  BY <1>1, <1>3 DEF Once
<1>5. MeterOK(n)
  BY <1>2, <1>3, <1>4, SameSettings
<1> QED BY <1>3, <1>5 DEF n

LEMMA LastOK ==
  ASSUME TriggerAssumption, NEW m, MeterOK(m), NEW k \in Int, ~m.awaiting
  PROVE  MeterOK([m EXCEPT !.last = k])
<1> DEFINE n == [m EXCEPT !.last = k]
<1>1. m \in Meter
  BY DEF MeterOK
<1>2. n \in Meter
  BY <1>1 DEF Meter
<1>3. /\ n.window = m.window /\ n.share = m.share /\ n.reserved = m.reserved /\ n.threshold = m.threshold
      /\ n.summarizer = m.summarizer /\ n.checkedAt = m.checkedAt /\ n.awaiting = m.awaiting
  BY <1>1 DEF Meter
<1> HIDE DEF n
<1>4. Once(n)
  BY <1>3 DEF Once
<1>5. MeterOK(n)
  BY <1>2, <1>3, <1>4, SameSettings
<1> QED BY <1>5 DEF n

LEMMA BeforeRoundOK ==
  ASSUME TriggerAssumption, NEW m, MeterOK(m), NEW rough \in Nat
  PROVE  /\ MeterOK(BeforeRound(m, rough))
         /\ BeforeRound(m, rough).awaiting = m.awaiting
<1>1. m \in Meter /\ m.threshold \in Nat /\ m.awaiting \in BOOLEAN
  BY DEF MeterOK, Meter
<1>2. CASE Defers(m, rough)
  <2>1. PICK n : n = Deferring(m, rough)
    OBVIOUS
  <2>2. MeterOK(n) /\ n.awaiting = m.awaiting
    <3>1. CASE m.awaiting
      BY <1>1, <2>1, <3>1 DEF Deferring
    <3>2. CASE ~m.awaiting
      <4>1. Baseline(m) \in Nat
        BY <1>1 DEF Baseline, Meter
      <4>2. Larger(Baseline(m), rough) \in Nat
        BY <4>1 DEF Larger
      <4>3. n = [m EXCEPT !.fits = Larger(Baseline(m), rough)]
        BY <1>2, <2>1, <3>2 DEF Deferring
      <4>4. n.awaiting = m.awaiting
        BY <1>1, <4>3 DEF Meter
      <4> QED BY <4>2, <4>3, <4>4, FitsOK
    <3> QED BY <1>1, <3>1, <3>2
  <2>3. BeforeRound(m, rough) = [n EXCEPT !.verdict = "deferred"]
    BY <1>2, <2>1 DEF BeforeRound
  <2>4. [n EXCEPT !.verdict = "deferred"].awaiting = n.awaiting
    BY <2>2 DEF MeterOK, Meter
  <2> QED BY <2>2, <2>3, <2>4, VerdictOK
<1>3. CASE ~Defers(m, rough)
  <2>1. m.awaiting => rough < m.threshold
    BY <1>1, <1>3 DEF Defers
  <2>2. BeforeRound(m, rough) = Judge(m, rough)
    BY <1>3 DEF BeforeRound
  <2>3. Judge(m, rough).awaiting = m.awaiting
    BY <1>1 DEF Judge, Meter
  <2> QED BY <2>1, <2>2, <2>3, JudgeOK
<1> QED BY <1>2, <1>3

LEMMA BeforeTurnOK ==
  ASSUME TriggerAssumption, NEW m, MeterOK(m), NEW rough \in Nat
  PROVE  MeterOK(BeforeTurn(m, rough))
<1>1. PICK n : n = BeforeRound(m, rough)
  OBVIOUS
<1>2. MeterOK(n) /\ n.awaiting = m.awaiting
  BY <1>1, BeforeRoundOK
<1>3. m \in Meter /\ m.last \in Int /\ m.awaiting \in BOOLEAN /\ Once(m)
  BY DEF MeterOK, Meter
<1>4. CASE n.verdict # "deferred" /\ m.last >= 0 /\ rough > m.last
  <2>1. ~m.awaiting
    BY <1>3, <1>4 DEF Once, Parked
  <2>2. BeforeTurn(m, rough) = [n EXCEPT !.last = rough]
    BY <1>1, <1>4 DEF BeforeTurn
  <2> QED BY <1>2, <2>1, <2>2, LastOK
<1>5. CASE ~(n.verdict # "deferred" /\ m.last >= 0 /\ rough > m.last)
  BY <1>1, <1>2, <1>5 DEF BeforeTurn
<1> QED BY <1>4, <1>5

LEMMA AfterRoundOK ==
  ASSUME TriggerAssumption, NEW m, MeterOK(m), NEW rough \in Nat
  PROVE  MeterOK(AfterRound(m, rough))
<1>1. m \in Meter /\ m.last \in Int /\ m.awaiting \in BOOLEAN /\ Once(m) /\ m.threshold \in Nat
  BY DEF MeterOK, Meter
<1>2. m.threshold > 0
  BY <1>1 DEF MeterOK, InRange
<1>3. CASE m.last > 0
  BY <1>1, <1>3, JudgeOK DEF AfterRound, Once, Parked
<1>4. CASE m.last = Parked
  BY <1>1, <1>2, <1>4, JudgeOK DEF AfterRound, Parked
<1>5. CASE ~(m.last > 0) /\ m.last # Parked
  BY <1>1, <1>5, JudgeOK DEF AfterRound, Once
<1> QED BY <1>3, <1>4, <1>5

LEMMA CompactedOK ==
  ASSUME TriggerAssumption, NEW m, MeterOK(m), NEW k \in Nat
  PROVE  MeterOK(Compacted(m, k))
<1> DEFINE a == [m EXCEPT !.shrunk = k, !.last = Parked]
           n == [a EXCEPT !.awaiting = TRUE, !.verdict = "none"]
<1>1. m \in Meter
  BY DEF MeterOK
<1>2. n = Compacted(m, k)
  BY DEF Compacted
<1>3. a \in Meter
  <2>1. [m EXCEPT !.shrunk = k] \in Meter
    BY <1>1 DEF Meter
  <2>2. PICK b \in Meter : b = [m EXCEPT !.shrunk = k]
    BY <2>1
  <2>3. [b EXCEPT !.last = Parked] \in Meter
    <3>1. PICK p \in Int : p = Parked
      BY DEF Parked
    <3>2. [b EXCEPT !.last = p] \in Meter
      BY <2>2 DEF Meter
    <3> QED BY <3>1, <3>2
  <2>4. a = [b EXCEPT !.last = Parked]
    BY <2>2
  <2> QED BY <2>3, <2>4
<1>4. /\ n.window = m.window /\ n.share = m.share /\ n.reserved = m.reserved /\ n.threshold = m.threshold
      /\ n.summarizer = m.summarizer /\ n.checkedAt = m.checkedAt /\ n.last = Parked /\ n.verdict = "none"
  BY <1>1 DEF Meter
<1> HIDE DEF a
<1>5. n \in Meter
  BY <1>3 DEF Meter
<1> HIDE DEF n
<1>6. Once(n)
  BY <1>4 DEF Once
<1> QED BY <1>2, <1>4, <1>5, <1>6, SameSettings

LEMMA ResponseOK ==
  ASSUME TriggerAssumption, NEW m, MeterOK(m), NEW prompt \in Nat
  PROVE  MeterOK(UpdateFromResponse(m, prompt))
<1>1. m \in Meter /\ m.real \in Nat /\ m.fits \in Nat /\ m.shrunk \in Nat
  BY DEF MeterOK, Meter
<1>2. PICK real \in Nat : real = IF prompt > 0 THEN prompt ELSE m.real
  BY <1>1
<1>3. PICK fits \in Nat : fits = CASE prompt >= m.threshold -> 0
                         [] prompt \in 1 .. m.threshold - 1 /\ m.awaiting /\ m.shrunk > 0 -> m.shrunk
                         [] OTHER -> m.fits
  BY <1>1
<1> DEFINE a == [m EXCEPT !.last = prompt, !.real = real]
           n == [a EXCEPT !.awaiting = FALSE, !.fits = fits, !.verdict = "none"]
<1>4. n = UpdateFromResponse(m, prompt)
  BY <1>2, <1>3 DEF UpdateFromResponse
<1>5. a \in Meter
  <2>1. [m EXCEPT !.last = prompt] \in Meter
    BY <1>1 DEF Meter
  <2>2. PICK b \in Meter : b = [m EXCEPT !.last = prompt]
    BY <2>1
  <2>3. [b EXCEPT !.real = real] \in Meter
    BY <2>2 DEF Meter
  <2>4. a = [b EXCEPT !.real = real]
    BY <2>2
  <2> QED BY <2>3, <2>4
<1>6. /\ n.window = m.window /\ n.share = m.share /\ n.reserved = m.reserved /\ n.threshold = m.threshold
      /\ n.summarizer = m.summarizer /\ n.checkedAt = m.checkedAt /\ ~n.awaiting
  BY <1>1 DEF Meter
<1> HIDE DEF a
<1>7. n \in Meter
  BY <1>5 DEF Meter
<1> HIDE DEF n
<1>8. Once(n)
  BY <1>6 DEF Once
<1> QED BY <1>4, <1>6, <1>7, <1>8, SameSettings

\* Whatever happens to a sound meter leaves a sound meter.
LEMMA MovesAreOK ==
  ASSUME TriggerAssumption, NEW m, MeterOK(m), NEW n \in Moves(m, Windows, Summarizers, Sizes)
  PROVE  MeterOK(n)
<1>1. \A k \in {0} \cup Sizes : k \in Nat
  BY DEF TriggerAssumption
<1>2. \/ \E window \in Windows : n = UpdateModel(m, window)
      \/ \E k \in {0} \cup Sizes : n = UpdateFromResponse(m, k)
      \/ \E k \in Sizes : n \in {BeforeRound(m, k), BeforeTurn(m, k), AfterRound(m, k), Compacted(m, k)}
      \/ m.summarizer = 0 /\ \E s \in Summarizers : n = CheckSummarizer(m, s)
      \/ n = OnSessionReset(m)
  BY Zenon DEF Moves
<1> QED BY <1>1, <1>2, UpdateModelOK, ResponseOK, BeforeRoundOK, BeforeTurnOK, AfterRoundOK, CompactedOK, CheckOK, ResetOK

MeterNow == IF answer = <<>> THEN question.input ELSE answer[1]
TriggerInv == question.topic = "trigger" => MeterOK(MeterNow)

\* TriggerInv is an inductive invariant of the decisions.
THEOREM TriggerInductive == DSpec => []TriggerInv
<1>1. DInit => TriggerInv
  <2> SUFFICES ASSUME DInit, question.topic = "trigger" PROVE MeterOK(MeterNow)
    BY DEF TriggerInv
  <2>1. answer = <<>>
    BY DEF DInit
  <2>2. \E window \in Windows, share \in Shares, reserved \in Reserves : question.input = NewMeter(window, share, reserved)
    BY DEF DInit, About
  <2> QED BY <2>1, <2>2, TriggerAssumption, NewMeterOK DEF MeterNow
<1>2. TriggerInv /\ [DNext]_dVars => TriggerInv'
  <2>0. SUFFICES ASSUME TriggerInv, [DNext]_dVars PROVE TriggerInv'
    OBVIOUS
  <2>1. CASE Diagnose \/ ChooseClient \/ Measure
    BY <2>1 DEF TriggerInv, Diagnose, ChooseClient, Measure, Asked
  <2>2. CASE Watch
    <3>1. /\ question.topic = "trigger" /\ question' = question
          /\ \E n \in Moves(MeterNow, Windows, Summarizers, Sizes) : answer' = <<n>>
      BY <2>2 DEF Watch, MeterNow
    <3>2. PICK m : m = MeterNow
      OBVIOUS
    <3>3. MeterOK(m)
      BY <2>0, <3>1, <3>2 DEF TriggerInv
    <3>4. PICK n \in Moves(m, Windows, Summarizers, Sizes) : answer' = <<n>>
      BY <3>1, <3>2
    <3>5. MeterOK(n)
      BY <3>3, <3>4, TriggerAssumption, MovesAreOK
    <3>6. MeterNow' = n
      BY <3>4 DEF MeterNow
    <3> QED BY <3>5, <3>6 DEF TriggerInv
  <2>3. CASE UNCHANGED dVars
    BY <2>0, <2>3 DEF TriggerInv, MeterNow, dVars
  <2> QED BY <2>0, <2>1, <2>2, <2>3 DEF DNext
<1> QED BY <1>1, <1>2, PTL DEF DSpec

\* The threshold can be reached, what is handed over fits, and one compaction
\* does not start the next.
THEOREM TriggerIsSound == DSpec => []TriggerSound
<1>1. TriggerInv => TriggerSound
  <2> SUFFICES ASSUME TriggerInv, question.topic = "trigger", answer # <<>> PROVE
        /\ ThresholdReachable(answer[1]) /\ SummaryFits(answer[1]) /\ OneCompactionAtATime(answer[1])
    BY DEF TriggerSound, Answered
  <2>1. PICK m : m = answer[1]
    OBVIOUS
  <2>2. MeterOK(m)
    BY <2>1 DEF TriggerInv, MeterNow
  <2>3. m.window \in Windows /\ m.reserved \in Reserves /\ InRange(m) /\ Checked(m) /\ Once(m)
    BY <2>2 DEF MeterOK
  <2>4. ThresholdReachable(m)
    BY <2>3, TriggerAssumption, UsableRange DEF InRange, ThresholdReachable
  <2>5. SummaryFits(m)
    BY <2>3 DEF Checked, Fits, SummaryFits
  <2>6. OneCompactionAtATime(m)
    BY <2>3 DEF Once, OneCompactionAtATime
  <2> QED BY <2>1, <2>4, <2>5, <2>6
<1> QED BY <1>1, TriggerInductive, PTL

-----------------------------------------------------------------------------
(* Why a request failed: the first rule that speaks.                       *)

\* The first rule that speaks, of a list that ends at n.
LEMMA FirstSpeaks ==
  ASSUME NEW n \in Nat, NEW rules, DOMAIN rules = 1 .. n
  PROVE  \/ FirstOf(rules) = Silent /\ \A i \in 1 .. n : rules[i] = Silent
         \/ \E i \in 1 .. n : /\ rules[i] # Silent /\ FirstOf(rules) = rules[i]
                              /\ \A j \in 1 .. n : j < i => rules[j] = Silent
<1>1. PICK said : said = {i \in DOMAIN rules : rules[i] # Silent}
  OBVIOUS
<1>2. FirstOf(rules) = IF said = {} THEN Silent ELSE rules[Min(said)]
  BY <1>1 DEF FirstOf
<1>3. CASE said = {}
  BY <1>1, <1>2, <1>3
<1>4. CASE said # {}
  <2>1. Min(said) \in said /\ \A y \in said : Min(said) <= y
    <3>1. \A y \in said : y \in Int /\ y >= 1
      BY <1>1
    <3> QED BY <1>4, <3>1, LeastOf
  <2>2. PICK i : i = Min(said)
    OBVIOUS
  <2>3. i \in 1 .. n /\ rules[i] # Silent /\ FirstOf(rules) = rules[i]
    BY <1>1, <1>2, <1>4, <2>1, <2>2
  <2>4. \A j \in 1 .. n : j < i => rules[j] = Silent
    <3> SUFFICES ASSUME NEW j \in 1 .. n, rules[j] # Silent PROVE i <= j
      BY <2>3
    <3> QED BY <1>1, <2>1, <2>2
  <2> QED BY <2>3, <2>4
<1> QED BY <1>3, <1>4

\* A list none of whose rules speaks is silent.
LEMMA SilentList ==
  ASSUME NEW n \in Nat, NEW rules, DOMAIN rules = 1 .. n, \A i \in 1 .. n : rules[i] = Silent
  PROVE  FirstOf(rules) = Silent
BY FirstSpeaks

\* If a rule speaks, the first that does is no later.
LEMMA SpeaksBy ==
  ASSUME NEW n \in Nat, NEW rules, DOMAIN rules = 1 .. n, NEW i \in 1 .. n, rules[i] # Silent
  PROVE  \E k \in 1 .. i : /\ rules[k] # Silent /\ FirstOf(rules) = rules[k]
                           /\ \A j \in 1 .. n : j < k => rules[j] = Silent
BY FirstSpeaks

\* A rule that speaks after silence alone is the list's verdict.
LEMMA FirstAt ==
  ASSUME NEW n \in Nat, NEW rules, DOMAIN rules = 1 .. n, NEW i \in 1 .. n, rules[i] # Silent,
         \A j \in 1 .. n : j < i => rules[j] = Silent
  PROVE  FirstOf(rules) = rules[i]
<1>1. PICK k \in 1 .. i : rules[k] # Silent /\ FirstOf(rules) = rules[k]
  BY SpeaksBy
<1> QED BY <1>1

\* So does the first of five.
LEMMA FirstRule ==
  ASSUME NEW rules, DOMAIN rules = 1 .. 5, rules[1] # Silent
  PROVE  FirstOf(rules) = rules[1]
<1>1. 5 \in Nat /\ 1 \in 1 .. 5 /\ \A j \in 1 .. 5 : j < 1 => rules[j] = Silent
  OBVIOUS
<1> QED BY <1>1, FirstAt

\* Of eleven rules, one of the first four speaks if the fourth does.
LEMMA FourthOfEleven ==
  ASSUME NEW rules, DOMAIN rules = 1 .. 11, rules[4] # Silent
  PROVE  \E k \in 1 .. 4 : rules[k] # Silent /\ FirstOf(rules) = rules[k]
<1>1. 11 \in Nat /\ 4 \in 1 .. 11
  OBVIOUS
<1>2. PICK k \in 1 .. 4 : /\ rules[k] # Silent /\ FirstOf(rules) = rules[k]
                         /\ \A j \in 1 .. 11 : j < k => rules[j] = Silent
  BY <1>1, SpeaksBy
<1> QED BY <1>2

\* If a rule speaks, the verdict is of one that is no later.
LEMMA SpeaksEarly ==
  ASSUME NEW n \in Nat, NEW rules, DOMAIN rules = 1 .. n, NEW i \in 1 .. n, rules[i] # Silent
  PROVE  \E k \in 1 .. i : rules[k] # Silent /\ FirstOf(rules) = rules[k]
<1>1. PICK k \in 1 .. i : /\ rules[k] # Silent /\ FirstOf(rules) = rules[k]
                         /\ \A j \in 1 .. n : j < k => rules[j] = Silent
  BY SpeaksBy
<1> QED BY <1>1

\* A verdict that makes the key and the conversation pay for their own only.
Honest(v, e, session) ==
    /\ "rotate" \in v.hints => BlamesTheKey(e)
    /\ "compress" \in v.hints => NamesTheSize(e) \/ session.long

\* Silence blames nobody.
LEMMA SilentIsHonest == \A e, session : Honest(Silent, e, session)
BY DEF Honest, Silent, Verdict

\* A list of honest rules is honest.
LEMMA HonestLists ==
  ASSUME NEW e, NEW session, NEW n \in Nat, NEW rules, DOMAIN rules = 1 .. n,
         \A i \in 1 .. n : Honest(rules[i], e, session)
  PROVE  Honest(FirstOf(rules), e, session)
BY FirstSpeaks, SilentIsHonest

\* None of the special patterns rotates the key, and only at a 429 one compresses.
LEMMA SpecialHonest ==
  ASSUME NEW e, NEW session
  PROVE  LET rules == SpecialRules(StatusOf(e), TextOf(e))
         IN  /\ DOMAIN rules = 1 .. 6
             /\ \A i \in 1 .. 6 : /\ Honest(rules[i], e, session) /\ "rotate" \notin rules[i].hints
                                  /\ "compress" \in rules[i].hints => StatusOf(e) = 429
<1> DEFINE rules == SpecialRules(StatusOf(e), TextOf(e))
<1>1. DOMAIN rules = 1 .. 6
  BY DEF SpecialRules
<1>2. ASSUME NEW i \in 1 .. 6 PROVE "rotate" \notin rules[i].hints
  BY <1>2 DEF SpecialRules, Silent, Verdict, Rule, Fatal, TooBig
<1>3. ASSUME NEW i \in 1 .. 6, "compress" \in rules[i].hints PROVE StatusOf(e) = 429 /\ "tier" \in TextOf(e)
  BY <1>3 DEF SpecialRules, Silent, Verdict, Rule, Fatal, TooBig
<1>4. ASSUME NEW i \in 1 .. 6 PROVE Honest(rules[i], e, session)
  <2> HIDE DEF rules
  <2> QED BY <1>2, <1>3, <1>4 DEF Honest, NamesTheSize
<1> QED BY <1>1, <1>2, <1>3, <1>4

\* The rules for 401 and 403.
LEMMA AccessHonest ==
  ASSUME NEW e, NEW session
  PROVE  LET rules == AccessRules(StatusOf(e), TextOf(e))
         IN  DOMAIN rules = 1 .. 3 /\ \A i \in 1 .. 3 : Honest(rules[i], e, session)
<1> DEFINE rules == AccessRules(StatusOf(e), TextOf(e))
<1>1. DOMAIN rules = 1 .. 3
  BY DEF AccessRules
<1>2. ASSUME NEW i \in 1 .. 3, "rotate" \in rules[i].hints PROVE BlamesTheKey(e)
  BY <1>2 DEF AccessRules, BlamesTheKey, Silent, Verdict, Rule, Fatal, TooBig, Limit, Drained
<1>3. ASSUME NEW i \in 1 .. 3, "compress" \in rules[i].hints PROVE NamesTheSize(e) \/ session.long
  BY <1>3 DEF AccessRules, NamesTheSize, Silent, Verdict, Rule, Fatal, TooBig, Limit, Drained
<1> QED BY <1>1, <1>2, <1>3 DEF Honest

\* The rules for 402.
LEMMA PaymentHonest ==
  ASSUME NEW e, NEW session
  PROVE  LET rules == PaymentRules(StatusOf(e), TextOf(e))
         IN  DOMAIN rules = 1 .. 2 /\ \A i \in 1 .. 2 : Honest(rules[i], e, session)
<1> DEFINE rules == PaymentRules(StatusOf(e), TextOf(e))
<1>1. DOMAIN rules = 1 .. 2
  BY DEF PaymentRules
<1>2. ASSUME NEW i \in 1 .. 2, "rotate" \in rules[i].hints PROVE BlamesTheKey(e)
  BY <1>2 DEF PaymentRules, BlamesTheKey, Silent, Verdict, Rule, Fatal, TooBig, Limit, Drained
<1>3. ASSUME NEW i \in 1 .. 2, "compress" \in rules[i].hints PROVE NamesTheSize(e) \/ session.long
  BY <1>3 DEF PaymentRules, NamesTheSize, Silent, Verdict, Rule, Fatal, TooBig, Limit, Drained
<1> QED BY <1>1, <1>2, <1>3 DEF Honest

\* The rules for 404.
LEMMA MissingHonest ==
  ASSUME NEW e, NEW session
  PROVE  LET rules == MissingRules(StatusOf(e), TextOf(e))
         IN  DOMAIN rules = 1 .. 4 /\ \A i \in 1 .. 4 : Honest(rules[i], e, session)
<1> DEFINE rules == MissingRules(StatusOf(e), TextOf(e))
<1>1. DOMAIN rules = 1 .. 4
  BY DEF MissingRules
<1>2. ASSUME NEW i \in 1 .. 4, "rotate" \in rules[i].hints PROVE BlamesTheKey(e)
  BY <1>2 DEF MissingRules, BlamesTheKey, Silent, Verdict, Rule, Fatal, TooBig, Limit, Drained
<1>3. ASSUME NEW i \in 1 .. 4, "compress" \in rules[i].hints PROVE NamesTheSize(e) \/ session.long
  BY <1>3 DEF MissingRules, NamesTheSize, Silent, Verdict, Rule, Fatal, TooBig, Limit, Drained
<1> QED BY <1>1, <1>2, <1>3 DEF Honest

\* The rules for 413 and 429.
LEMMA LimitHonest ==
  ASSUME NEW e, NEW session
  PROVE  LET rules == LimitRules(StatusOf(e), TextOf(e), Upstream(e))
         IN  DOMAIN rules = 1 .. 4 /\ \A i \in 1 .. 4 : Honest(rules[i], e, session)
<1> DEFINE rules == LimitRules(StatusOf(e), TextOf(e), Upstream(e))
<1>1. DOMAIN rules = 1 .. 4
  BY DEF LimitRules
<1>2. ASSUME NEW i \in 1 .. 4, "rotate" \in rules[i].hints PROVE BlamesTheKey(e)
  BY <1>2 DEF LimitRules, BlamesTheKey, Silent, Verdict, Rule, Fatal, TooBig, Limit, Drained
<1>3. ASSUME NEW i \in 1 .. 4, "compress" \in rules[i].hints PROVE NamesTheSize(e) \/ session.long
  BY <1>3 DEF LimitRules, NamesTheSize, Silent, Verdict, Rule, Fatal, TooBig, Limit, Drained
<1> QED BY <1>1, <1>2, <1>3 DEF Honest

\* The rules for 400.
LEMMA BadRequestHonest ==
  ASSUME NEW e, NEW session
  PROVE  LET rules == BadRequestRules(TextOf(e), CodeOf(e), BodyOf(e), session)
         IN  DOMAIN rules = 1 .. 11 /\ \A i \in 1 .. 11 : Honest(rules[i], e, session)
<1> DEFINE rules == BadRequestRules(TextOf(e), CodeOf(e), BodyOf(e), session)
<1>1. DOMAIN rules = 1 .. 11
  BY DEF BadRequestRules
<1>2. ASSUME NEW i \in 1 .. 11, "rotate" \in rules[i].hints PROVE BlamesTheKey(e)
  BY <1>2 DEF BadRequestRules, BlamesTheKey, Silent, Verdict, Rule, Fatal, TooBig, Limit, Drained
<1>3. ASSUME NEW i \in 1 .. 11, "compress" \in rules[i].hints PROVE NamesTheSize(e) \/ session.long
  BY <1>3 DEF BadRequestRules, NamesTheSize, Silent, Verdict, Rule, Fatal, TooBig, Limit, Drained
<1> QED BY <1>1, <1>2, <1>3 DEF Honest

\* The rules for the other statuses.
LEMMA ServerHonest ==
  ASSUME NEW e, NEW session
  PROVE  LET rules == ServerRules(StatusOf(e), TextOf(e), CodeOf(e))
         IN  DOMAIN rules = 1 .. 5 /\ \A i \in 1 .. 5 : Honest(rules[i], e, session)
<1> DEFINE rules == ServerRules(StatusOf(e), TextOf(e), CodeOf(e))
<1>1. DOMAIN rules = 1 .. 5
  BY DEF ServerRules
<1>2. ASSUME NEW i \in 1 .. 5, "rotate" \in rules[i].hints PROVE BlamesTheKey(e)
  BY <1>2 DEF ServerRules, BlamesTheKey, Silent, Verdict, Rule, Fatal, TooBig, Limit, Drained
<1>3. ASSUME NEW i \in 1 .. 5, "compress" \in rules[i].hints PROVE NamesTheSize(e) \/ session.long
  BY <1>3 DEF ServerRules, NamesTheSize, Silent, Verdict, Rule, Fatal, TooBig, Limit, Drained
<1> QED BY <1>1, <1>2, <1>3 DEF Honest

\* The rules for a code.
LEMMA CodeHonest ==
  ASSUME NEW e, NEW session
  PROVE  LET rules == CodeRules(CodeOf(e))
         IN  DOMAIN rules = 1 .. 5 /\ \A i \in 1 .. 5 : Honest(rules[i], e, session)
<1> DEFINE rules == CodeRules(CodeOf(e))
<1>1. DOMAIN rules = 1 .. 5
  BY DEF CodeRules
<1>2. ASSUME NEW i \in 1 .. 5, "rotate" \in rules[i].hints PROVE BlamesTheKey(e)
  BY <1>2 DEF CodeRules, BlamesTheKey, Silent, Verdict, Rule, Fatal, TooBig, Limit, Drained
<1>3. ASSUME NEW i \in 1 .. 5, "compress" \in rules[i].hints PROVE NamesTheSize(e) \/ session.long
  BY <1>3 DEF CodeRules, NamesTheSize, Silent, Verdict, Rule, Fatal, TooBig, Limit, Drained
<1> QED BY <1>1, <1>2, <1>3 DEF Honest

\* The rules for a text.
LEMMA MessageHonest ==
  ASSUME NEW e, NEW session
  PROVE  LET rules == MessageRules(TextOf(e))
         IN  DOMAIN rules = 1 .. 13 /\ \A i \in 1 .. 13 : Honest(rules[i], e, session)
<1> DEFINE rules == MessageRules(TextOf(e))
<1>1. DOMAIN rules = 1 .. 13
  BY DEF MessageRules
<1>2. ASSUME NEW i \in 1 .. 13, "rotate" \in rules[i].hints PROVE BlamesTheKey(e)
  BY <1>2 DEF MessageRules, BlamesTheKey, Silent, Verdict, Rule, Fatal, TooBig, Limit, Drained
<1>3. ASSUME NEW i \in 1 .. 13, "compress" \in rules[i].hints PROVE NamesTheSize(e) \/ session.long
  BY <1>3 DEF MessageRules, NamesTheSize, Silent, Verdict, Rule, Fatal, TooBig, Limit, Drained
<1> QED BY <1>1, <1>2, <1>3 DEF Honest

\* The rules for a connection.
LEMMA TransportHonest ==
  ASSUME NEW e, NEW session
  PROVE  LET rules == TransportRules(StatusOf(e), TextOf(e), e.type, session)
         IN  DOMAIN rules = 1 .. 6 /\ \A i \in 1 .. 6 : Honest(rules[i], e, session)
<1> DEFINE rules == TransportRules(StatusOf(e), TextOf(e), e.type, session)
<1>1. DOMAIN rules = 1 .. 6
  BY DEF TransportRules
<1>2. ASSUME NEW i \in 1 .. 6, "rotate" \in rules[i].hints PROVE BlamesTheKey(e)
  BY <1>2 DEF TransportRules, BlamesTheKey, Silent, Verdict, Rule, Fatal, TooBig, Limit, Drained
<1>3. ASSUME NEW i \in 1 .. 6, "compress" \in rules[i].hints PROVE NamesTheSize(e) \/ session.long
  BY <1>3 DEF TransportRules, NamesTheSize, Silent, Verdict, Rule, Fatal, TooBig, Limit, Drained
<1> QED BY <1>1, <1>2, <1>3 DEF Honest

\* The lists of one status, in the order they are asked.
ByStatusLists(e, session) ==
    LET status == StatusOf(e)
        text == TextOf(e)
        code == CodeOf(e)
    IN  <<FirstOf(AccessRules(status, text)), FirstOf(PaymentRules(status, text)),
          FirstOf(MissingRules(status, text)), FirstOf(LimitRules(status, text, Upstream(e))),
          IF status = 400 THEN FirstOf(BadRequestRules(text, code, BodyOf(e), session)) ELSE Silent,
          FirstOf(ServerRules(status, text, code))>>

\* A verdict by the status is honest.
LEMMA ByStatusHonest ==
  ASSUME NEW e, NEW session
  PROVE  Honest(ByStatus(e, session), e, session)
<1> DEFINE lists == ByStatusLists(e, session)
<1>1. DOMAIN lists = 1 .. 6
  BY DEF ByStatusLists
<1> DEFINE H(v) == Honest(v, e, session)
           status == StatusOf(e)
           text == TextOf(e)
           code == CodeOf(e)
<1>2. /\ H(FirstOf(AccessRules(status, text))) /\ H(FirstOf(PaymentRules(status, text)))
      /\ H(FirstOf(MissingRules(status, text))) /\ H(FirstOf(LimitRules(status, text, Upstream(e))))
      /\ H(FirstOf(BadRequestRules(text, code, BodyOf(e), session))) /\ H(FirstOf(ServerRules(status, text, code)))
  BY HonestLists, AccessHonest, PaymentHonest, MissingHonest, LimitHonest, BadRequestHonest, ServerHonest
<1>3. ASSUME NEW i \in 1 .. 6 PROVE H(lists[i])
  BY <1>2, <1>3, SilentIsHonest DEF ByStatusLists
<1>4. H(FirstOf(lists))
  <2> HIDE DEF lists
  <2> QED BY <1>1, <1>3, HonestLists
<1> QED BY <1>4 DEF ByStatus, ByStatusLists

\* A list none of whose rules is for the status is silent.
LEMMA OtherStatus ==
  ASSUME NEW e
  PROVE  LET status == StatusOf(e)
             text == TextOf(e)
         IN  /\ status \notin {401, 403} => FirstOf(AccessRules(status, text)) = Silent
             /\ status # 402 => FirstOf(PaymentRules(status, text)) = Silent
             /\ status # 404 => FirstOf(MissingRules(status, text)) = Silent
             /\ status \notin {413, 429} => FirstOf(LimitRules(status, text, Upstream(e))) = Silent
<1> DEFINE status == StatusOf(e)
           text == TextOf(e)
<1>1. status \notin {401, 403} => \A i \in 1 .. 3 : AccessRules(status, text)[i] = Silent
  BY DEF AccessRules, Rule
<1>2. status # 402 => \A i \in 1 .. 2 : PaymentRules(status, text)[i] = Silent
  BY DEF PaymentRules, Rule
<1>3. status # 404 => \A i \in 1 .. 4 : MissingRules(status, text)[i] = Silent
  BY DEF MissingRules, Rule
<1>4. status \notin {413, 429} => \A i \in 1 .. 4 : LimitRules(status, text, Upstream(e))[i] = Silent
  BY DEF LimitRules, Rule
<1>5. /\ DOMAIN AccessRules(status, text) = 1 .. 3 /\ DOMAIN PaymentRules(status, text) = 1 .. 2
      /\ DOMAIN MissingRules(status, text) = 1 .. 4 /\ DOMAIN LimitRules(status, text, Upstream(e)) = 1 .. 4
  BY AccessHonest, PaymentHonest, MissingHonest, LimitHonest
<1>6. status \notin {401, 403} => FirstOf(AccessRules(status, text)) = Silent
  BY <1>1, <1>5, SilentList
<1>7. status # 402 => FirstOf(PaymentRules(status, text)) = Silent
  BY <1>2, <1>5, SilentList
<1>8. status # 404 => FirstOf(MissingRules(status, text)) = Silent
  BY <1>3, <1>5, SilentList
<1>9. status \notin {413, 429} => FirstOf(LimitRules(status, text, Upstream(e))) = Silent
  BY <1>4, <1>5, SilentList
<1> QED BY <1>6, <1>7, <1>8, <1>9

\* A limit that is a server's or an upstream's is told before the key's own.
LEMMA EarlyLimit ==
  ASSUME NEW limits, DOMAIN limits = 1 .. 4, limits[1] = Silent, NEW i \in {2, 3}, limits[i] # Silent
  PROVE  FirstOf(limits) # Silent /\ FirstOf(limits) \in {limits[2], limits[3]}
<1>1. i \in 1 .. 4 /\ 4 \in Nat
  OBVIOUS
<1>2. PICK k \in 1 .. i : /\ limits[k] # Silent /\ FirstOf(limits) = limits[k]
                         /\ \A j \in 1 .. 4 : j < k => limits[j] = Silent
  BY <1>1, SpeaksBy
<1> QED BY <1>2

\* Of six lists, one is asked when those before it are silent.
LEMMA LastOfSix ==
  ASSUME NEW lists, DOMAIN lists = 1 .. 6, NEW k \in 1 .. 6, lists[k] # Silent, \A j \in 1 .. 6 : j < k => lists[j] = Silent
  PROVE  FirstOf(lists) = lists[k]
<1>1. 6 \in Nat
  OBVIOUS
<1> QED BY <1>1, FirstAt

\* An overloaded server's limit, or an upstream's, leaves the key alone.
LEMMA NotTheKey ==
  ASSUME NEW e, NEW session, StatusOf(e) = 429, "overloaded" \in TextOf(e) \/ Upstream(e)
  PROVE  LET v == ByStatus(e, session) IN "rotate" \notin v.hints /\ v # Silent
<1>1. PICK limits : limits = LimitRules(StatusOf(e), TextOf(e), Upstream(e))
  OBVIOUS
<1>2. PICK lists : lists = ByStatusLists(e, session)
  OBVIOUS
<1>3. /\ limits[1] = Silent
      /\ limits[2] # Silent \/ limits[3] # Silent
      /\ "rotate" \notin limits[2].hints /\ "rotate" \notin limits[3].hints
  BY <1>1 DEF LimitRules, Rule, Silent, Verdict
<1>4. FirstOf(limits) # Silent /\ "rotate" \notin FirstOf(limits).hints
  <2>1. PICK i \in {2, 3} : limits[i] # Silent
    BY <1>3
  <2>2. DOMAIN limits = 1 .. 4
    BY <1>1, LimitHonest
  <2> QED BY <1>3, <2>1, <2>2, EarlyLimit
<1>5. lists[1] = Silent /\ lists[2] = Silent /\ lists[3] = Silent /\ lists[4] = FirstOf(limits) /\ DOMAIN lists = 1 .. 6
  BY <1>1, <1>2, OtherStatus DEF ByStatusLists
<1>6. FirstOf(lists) = FirstOf(limits)
  <2>1. 4 \in 1 .. 6 /\ lists[4] # Silent /\ \A j \in 1 .. 6 : j < 4 => lists[j] = Silent
    BY <1>4, <1>5
  <2> QED BY <1>5, <2>1, LastOfSix
<1> QED BY <1>2, <1>4, <1>6 DEF ByStatus, ByStatusLists

\* A server that fails leaves the key alone, and a parameter it rejects the
\* conversation.
LEMMA ServersFailure ==
  ASSUME NEW e, NEW session, StatusOf(e) \in 500 .. 599
  PROVE  LET v == ByStatus(e, session)
         IN  /\ v # Silent /\ "rotate" \notin v.hints
             /\ StatusOf(e) \in {500, 502} /\ "validation" \in TextOf(e) => "compress" \notin v.hints
<1>1. PICK server : server = ServerRules(StatusOf(e), TextOf(e), CodeOf(e))
  OBVIOUS
<1>2. PICK lists : lists = ByStatusLists(e, session)
  OBVIOUS
<1>3. DOMAIN server = 1 .. 5 /\ 5 \in Nat /\ 5 \in 1 .. 5 /\ 1 \in 1 .. 5
  BY <1>1, ServerHonest
<1>4. server[5] # Silent /\ \A i \in 1 .. 5 : "rotate" \notin server[i].hints
  BY <1>1 DEF ServerRules, Rule, Silent, Verdict, Fatal, TooBig
<1>5. FirstOf(server) # Silent /\ "rotate" \notin FirstOf(server).hints
  <2>1. PICK i \in 1 .. 5 : server[i] # Silent /\ FirstOf(server) = server[i]
    BY <1>3, <1>4, SpeaksEarly
  <2> QED BY <1>4, <2>1
<1>6. StatusOf(e) \in {500, 502} /\ "validation" \in TextOf(e) => "compress" \notin FirstOf(server).hints
  <2> SUFFICES ASSUME StatusOf(e) \in {500, 502}, "validation" \in TextOf(e) PROVE "compress" \notin FirstOf(server).hints
    OBVIOUS
  <2>1. server[1] = Verdict("format_error", Fatal) /\ server[1] # Silent
    BY <1>1 DEF ServerRules, Rule, Silent, Verdict
  <2>2. FirstOf(server) = server[1]
    BY <1>3, <2>1, FirstRule
  <2> QED BY <2>1, <2>2 DEF Verdict, Fatal
<1>7. /\ lists[1] = Silent /\ lists[2] = Silent /\ lists[3] = Silent /\ lists[4] = Silent /\ lists[5] = Silent
      /\ lists[6] = FirstOf(server) /\ DOMAIN lists = 1 .. 6
  <2>1. StatusOf(e) \notin {400, 401, 402, 403, 404, 413, 429}
    OBVIOUS
  <2> QED BY <1>1, <1>2, <2>1, OtherStatus DEF ByStatusLists
<1>8. FirstOf(lists) = FirstOf(server)
  <2>1. 6 \in 1 .. 6 /\ lists[6] # Silent /\ \A j \in 1 .. 6 : j < 6 => lists[j] = Silent
    BY <1>5, <1>7
  <2> QED BY <1>7, <2>1, LastOfSix
<1> QED BY <1>2, <1>5, <1>6, <1>8 DEF ByStatus, ByStatusLists

\* A 400 is told by its own rules.
LEMMA BadRequestTells ==
  ASSUME NEW e, NEW session, StatusOf(e) = 400,
         FirstOf(BadRequestRules(TextOf(e), CodeOf(e), BodyOf(e), session)) # Silent
  PROVE  ByStatus(e, session) = FirstOf(BadRequestRules(TextOf(e), CodeOf(e), BodyOf(e), session))
<1>1. PICK lists : lists = ByStatusLists(e, session)
  OBVIOUS
<1>2. /\ DOMAIN lists = 1 .. 6 /\ lists[1] = Silent /\ lists[2] = Silent /\ lists[3] = Silent /\ lists[4] = Silent
      /\ lists[5] = FirstOf(BadRequestRules(TextOf(e), CodeOf(e), BodyOf(e), session))
  BY <1>1, OtherStatus DEF ByStatusLists
<1>3. 5 \in 1 .. 6 /\ lists[5] # Silent /\ \A j \in 1 .. 6 : j < 5 => lists[j] = Silent
  BY <1>2
<1>4. FirstOf(lists) = lists[5]
  BY <1>2, <1>3, LastOfSix
<1> QED BY <1>1, <1>2, <1>4 DEF ByStatus, ByStatusLists

\* A parameter that a 400 rejects leaves the conversation alone.
LEMMA RejectedParameter ==
  ASSUME NEW e, NEW session, StatusOf(e) = 400, "validation" \in TextOf(e)
  PROVE  LET v == ByStatus(e, session) IN v # Silent /\ "compress" \notin v.hints
<1>1. PICK bad : bad = BadRequestRules(TextOf(e), CodeOf(e), BodyOf(e), session)
  OBVIOUS
<1>2. DOMAIN bad = 1 .. 11 /\ 11 \in Nat /\ 4 \in 1 .. 11
  BY <1>1, BadRequestHonest
<1>3. bad[4] # Silent /\ \A i \in 1 .. 4 : "compress" \notin bad[i].hints
  BY <1>1 DEF BadRequestRules, Rule, Silent, Verdict, Fatal
<1>4. PICK i \in 1 .. 4 : bad[i] # Silent /\ FirstOf(bad) = bad[i]
  BY <1>2, <1>3, FourthOfEleven
<1>5. FirstOf(bad) # Silent /\ "compress" \notin FirstOf(bad).hints
  BY <1>3, <1>4
<1>6. ByStatus(e, session) = FirstOf(bad)
  BY <1>1, <1>5, BadRequestTells
<1> QED BY <1>5, <1>6

\* An overloaded server that gives no status leaves the key alone.
LEMMA OverloadInWords ==
  ASSUME NEW e, "overloaded" \in TextOf(e), "usage" \notin TextOf(e)
  PROVE  LET v == FirstOf(MessageRules(TextOf(e))) IN v # Silent /\ "rotate" \notin v.hints
<1>1. PICK rules : rules = MessageRules(TextOf(e))
  OBVIOUS
<1>2. DOMAIN rules = 1 .. 13 /\ 13 \in Nat /\ 6 \in 1 .. 13
  BY <1>1, MessageHonest
<1>3. rules[6] # Silent /\ \A i \in 1 .. 6 : "rotate" \notin rules[i].hints
  BY <1>1 DEF MessageRules, Rule, Silent, Verdict, TooBig
<1>4. PICK i \in 1 .. 6 : rules[i] # Silent /\ FirstOf(rules) = rules[i]
  BY <1>2, <1>3, SpeaksEarly
<1> QED BY <1>1, <1>3, <1>4

\* The lists of an error, in the order they are asked.
ClassifyLists(e, session) ==
    LET status == StatusOf(e)
        text == TextOf(e)
    IN  <<FirstOf(SpecialRules(status, text)), IF status # 0 THEN ByStatus(e, session) ELSE Silent,
          FirstOf(CodeRules(CodeOf(e))), FirstOf(MessageRules(text)),
          FirstOf(TransportRules(status, text, e.type, session))>>

\* Of five lists, the first or the only other that may speak by then decides.
LEMMA FirstOrThis ==
  ASSUME NEW lists, DOMAIN lists = 1 .. 5, NEW i \in 1 .. 5, lists[i] # Silent,
         \A j \in 1 .. 5 : 1 < j /\ j < i => lists[j] = Silent
  PROVE  FirstOf(lists) \in {lists[1], lists[i]}
<1>1. 5 \in Nat
  OBVIOUS
<1>2. PICK k \in 1 .. i : lists[k] # Silent /\ FirstOf(lists) = lists[k]
  BY <1>1, SpeaksBy
<1>3. k = 1 \/ k = i
  BY <1>2
<1> QED BY <1>2, <1>3

\* The key and the conversation pay for their own only.
LEMMA BlameSound ==
  ASSUME NEW e, NEW session
  PROVE  LET v == Classify(e, session) IN KeyIsSpared(e, v) /\ HistoryIsSpared(e, session, v)
<1>1. PICK lists : lists = ClassifyLists(e, session)
  OBVIOUS
<1>2. Classify(e, session) = FirstOf(lists)
  BY <1>1 DEF Classify, ClassifyLists
<1>3. DOMAIN lists = 1 .. 5
  BY <1>1 DEF ClassifyLists
<1>4. PICK special : special = SpecialRules(StatusOf(e), TextOf(e))
  OBVIOUS
<1>5. lists[1] = FirstOf(special) /\ DOMAIN special = 1 .. 6
  BY <1>1, <1>4, SpecialHonest DEF ClassifyLists
<1>6. /\ Honest(lists[1], e, session) /\ "rotate" \notin lists[1].hints
      /\ "compress" \in lists[1].hints => StatusOf(e) = 429
  <2>1. \A i \in 1 .. 6 : /\ Honest(special[i], e, session) /\ "rotate" \notin special[i].hints
                          /\ "compress" \in special[i].hints => StatusOf(e) = 429
    BY <1>4, SpecialHonest
  <2>2. "rotate" \notin Silent.hints /\ "compress" \notin Silent.hints
    BY DEF Silent, Verdict
  <2>3. 6 \in Nat
    OBVIOUS
  <2>4. FirstOf(special) = Silent \/ \E i \in 1 .. 6 : FirstOf(special) = special[i]
    BY <1>5, <2>3, FirstSpeaks
  <2> QED BY <1>5, <2>1, <2>2, <2>4, SilentIsHonest
<1>7. Honest(FirstOf(lists), e, session)
  <2>1. Honest(lists[2], e, session)
    BY <1>1, SilentIsHonest, ByStatusHonest DEF ClassifyLists
  <2>2. Honest(lists[3], e, session) /\ Honest(lists[4], e, session) /\ Honest(lists[5], e, session)
    BY <1>1, HonestLists, CodeHonest, MessageHonest, TransportHonest DEF ClassifyLists
  <2>3. \A i \in 1 .. 5 : Honest(lists[i], e, session)
    BY <1>6, <2>1, <2>2
  <2> QED BY <1>3, <2>3, HonestLists
<1>8. ASSUME StatusOf(e) # 0, ByStatus(e, session) # Silent PROVE FirstOf(lists) \in {lists[1], ByStatus(e, session)}
  <2>1. lists[2] = ByStatus(e, session)
    BY <1>1, <1>8 DEF ClassifyLists
  <2>2. 2 \in 1 .. 5 /\ \A j \in 1 .. 5 : 1 < j /\ j < 2 => lists[j] = Silent
    OBVIOUS
  <2> QED BY <1>3, <1>8, <2>1, <2>2, FirstOrThis
<1>9. ASSUME ServersOwn(e) PROVE "rotate" \notin FirstOf(lists).hints
  <2>1. CASE StatusOf(e) \in 500 .. 599
    <3>1. ByStatus(e, session) # Silent /\ "rotate" \notin ByStatus(e, session).hints /\ StatusOf(e) # 0
      BY <2>1, ServersFailure
    <3> QED BY <1>6, <1>8, <3>1
  <2>2. CASE StatusOf(e) = 429 /\ ("overloaded" \in TextOf(e) \/ Upstream(e))
    <3>1. ByStatus(e, session) # Silent /\ "rotate" \notin ByStatus(e, session).hints /\ StatusOf(e) # 0
      BY <2>2, NotTheKey
    <3> QED BY <1>6, <1>8, <3>1
  <2>3. CASE StatusOf(e) = 0 /\ CodeOf(e) = "none" /\ "overloaded" \in TextOf(e) /\ "usage" \notin TextOf(e)
    <3>1. FirstOf(CodeRules(CodeOf(e))) = Silent
      <4>1. \A i \in 1 .. 5 : CodeRules(CodeOf(e))[i] = Silent
        BY <2>3 DEF CodeRules, Rule
      <4>2. DOMAIN CodeRules(CodeOf(e)) = 1 .. 5 /\ 5 \in Nat
        BY CodeHonest
      <4> QED BY <4>1, <4>2, SilentList
    <3>2. lists[2] = Silent /\ lists[3] = Silent /\ lists[4] = FirstOf(MessageRules(TextOf(e)))
      BY <1>1, <2>3, <3>1 DEF ClassifyLists
    <3>3. lists[4] # Silent /\ "rotate" \notin lists[4].hints
      BY <2>3, <3>2, OverloadInWords
    <3>4. 4 \in 1 .. 5 /\ \A j \in 1 .. 5 : 1 < j /\ j < 4 => lists[j] = Silent
      BY <3>2
    <3> QED BY <1>3, <1>6, <3>3, <3>4, FirstOrThis
  <2> QED BY <1>9, <2>1, <2>2, <2>3 DEF ServersOwn
<1>10. ASSUME StatusOf(e) \in {400, 500, 502}, "validation" \in TextOf(e) PROVE "compress" \notin FirstOf(lists).hints
  <2>1. ByStatus(e, session) # Silent /\ "compress" \notin ByStatus(e, session).hints
    <3>1. CASE StatusOf(e) = 400
      BY <1>10, <3>1, RejectedParameter
    <3>2. CASE StatusOf(e) \in {500, 502}
      BY <1>10, <3>2, ServersFailure
    <3> QED BY <1>10, <3>1, <3>2
  <2>2. StatusOf(e) # 0 /\ StatusOf(e) # 429
    BY <1>10
  <2> QED BY <1>6, <1>8, <2>1, <2>2
<1> QED BY <1>2, <1>7, <1>9, <1>10 DEF KeyIsSpared, HistoryIsSpared, Honest

\* A session's length only tells a bare 400 from a bad request.
LEMMA BadRequestTies ==
  ASSUME NEW e, NEW short, NEW long, ~short.long
  PROVE  LET s == FirstOf(BadRequestRules(TextOf(e), CodeOf(e), BodyOf(e), short))
             l == FirstOf(BadRequestRules(TextOf(e), CodeOf(e), BodyOf(e), long))
         IN  /\ s # Silent /\ l # Silent
             /\ s # l => /\ l.reason = "context_overflow" /\ s.reason = "format_error"
                         /\ BodyOf(e).generic /\ TextOf(e) \cap SoughtInBadRequest = {}
<1> DEFINE text == TextOf(e)
<1>1. PICK S : S = BadRequestRules(text, CodeOf(e), BodyOf(e), short)
  OBVIOUS
<1>2. PICK L : L = BadRequestRules(text, CodeOf(e), BodyOf(e), long)
  OBVIOUS
<1>3. DOMAIN S = 1 .. 11 /\ DOMAIN L = 1 .. 11
  BY <1>1, <1>2, BadRequestHonest
<1>4. ASSUME NEW i \in 1 .. 11, i # 10 PROVE S[i] = L[i]
  BY <1>1, <1>2, <1>4 DEF BadRequestRules, Rule
<1>5. S[10] = Silent /\ L[10] \in {Silent, Verdict("context_overflow", TooBig)} /\ (L[10] # Silent => BodyOf(e).generic)
      /\ S[11] = Verdict("format_error", Fatal) /\ S[11] # Silent
  BY <1>1, <1>2 DEF BadRequestRules, Rule, Verdict, Silent
<1>6. PICK k \in 1 .. 11 : L[k] # Silent /\ FirstOf(L) = L[k] /\ \A j \in 1 .. 11 : j < k => L[j] = Silent
  <2>1. 11 \in 1 .. 11 /\ 11 \in Nat /\ L[11] # Silent
    BY <1>4, <1>5
  <2> QED BY <1>3, <2>1, SpeaksBy
<1>7. FirstOf(S) # Silent
  <2>1. PICK i \in 1 .. 11 : S[i] # Silent /\ FirstOf(S) = S[i] /\ \A j \in 1 .. 11 : j < i => S[j] = Silent
    <3>1. 11 \in 1 .. 11 /\ 11 \in Nat
      OBVIOUS
    <3> QED BY <1>3, <1>5, <3>1, SpeaksBy, ZenonT(60)
  <2> QED BY <2>1
<1>8. CASE k # 10
  <2>1. \A j \in 1 .. 11 : j <= k => S[j] = L[j]
    BY <1>4, <1>5, <1>6, <1>8
  <2>2. FirstOf(L) = FirstOf(S)
    <3>1. 11 \in Nat /\ k \in 1 .. 11 /\ S[k] # Silent /\ \A j \in 1 .. 11 : j < k => S[j] = Silent
      BY <1>6, <2>1
    <3>2. FirstOf(S) = S[k]
      BY <1>3, <3>1, FirstAt
    <3> QED BY <1>6, <2>1, <3>1, <3>2
  <2> QED BY <1>1, <1>2, <1>7, <2>2
<1>9. CASE k = 10
  <2>1. FirstOf(S) = S[11]
    <3>1. \A j \in 1 .. 11 : j < 11 => S[j] = Silent
      BY <1>4, <1>5, <1>6, <1>9
    <3>2. 11 \in 1 .. 11 /\ 11 \in Nat
      OBVIOUS
    <3> QED BY <1>3, <1>5, <3>1, <3>2, FirstAt
  <2>2. L[1] = Silent /\ L[2] = Silent /\ L[3] = Silent /\ L[4] = Silent /\ L[5] = Silent
        /\ L[6] = Silent /\ L[7] = Silent /\ L[8] = Silent /\ L[9] = Silent
    BY <1>6, <1>9
  <2>3. text \cap SoughtInBadRequest = {}
    <3>1. /\ "multimodal" \notin text /\ "image" \notin text /\ "encrypted" \notin text
          /\ "validation" \notin text /\ "overflow" \notin text
      BY <1>2, <2>2 DEF BadRequestRules, Rule, Verdict, Silent
    <3>2. "policy" \notin text /\ "not_found" \notin text /\ "rate" \notin text /\ "billing" \notin text
      BY <1>2, <2>2 DEF BadRequestRules, Rule, Verdict, Silent
    <3> QED BY <3>1, <3>2 DEF SoughtInBadRequest
  <2>4. FirstOf(L).reason = "context_overflow" /\ FirstOf(S).reason = "format_error"
    BY <1>5, <1>6, <1>9, <2>1 DEF Verdict
  <2>5. BodyOf(e).generic
    BY <1>5, <1>6, <1>9
  <2> QED BY <1>1, <1>2, <1>6, <1>7, <2>3, <2>4, <2>5
<1> QED BY <1>8, <1>9

\* Of all the statuses, only a 400 is told by the session's length.
LEMMA ByStatusTies ==
  ASSUME NEW e, NEW short, NEW long, ~short.long
  PROVE  LET s == ByStatus(e, short)
             l == ByStatus(e, long)
         IN  s # l => /\ s # Silent /\ l # Silent /\ StatusOf(e) = 400
                      /\ l.reason = "context_overflow" /\ s.reason = "format_error"
                      /\ BodyOf(e).generic /\ TextOf(e) \cap SoughtInBadRequest = {}
<1> DEFINE status == StatusOf(e)
           text == TextOf(e)
           code == CodeOf(e)
<1>1. CASE status # 400
  BY <1>1 DEF ByStatus
<1>2. CASE status = 400
  <2> QED BY <1>2, BadRequestTells, BadRequestTies
<1> QED BY <1>1, <1>2

\* Without a status, only a dropped connection is.
LEMMA TransportTies ==
  ASSUME NEW e, NEW short, NEW long, ~short.long, short.thinks = long.thinks
  PROVE  LET status == StatusOf(e)
             text == TextOf(e)
             s == FirstOf(TransportRules(status, text, e.type, short))
             l == FirstOf(TransportRules(status, text, e.type, long))
         IN  /\ s # Silent /\ l # Silent
             /\ s # l => /\ l.reason = "context_overflow" /\ s.reason = "timeout"
                        /\ status = 0 /\ ~long.thinks /\ "disconnect" \in text
                        /\ "certificate" \notin text /\ "ssl" \notin text
<1> DEFINE status == StatusOf(e)
           text == TextOf(e)
<1>1. PICK S : S = TransportRules(status, text, e.type, short)
  OBVIOUS
<1>2. PICK L : L = TransportRules(status, text, e.type, long)
  OBVIOUS
<1>3. DOMAIN S = 1 .. 6 /\ DOMAIN L = 1 .. 6
  BY <1>1, <1>2, TransportHonest
<1>4. ASSUME NEW i \in 1 .. 6, i # 3 PROVE S[i] = L[i]
  BY <1>1, <1>2, <1>4 DEF TransportRules, Rule
<1>5. S[3] = Silent /\ L[3] \in {Silent, Verdict("context_overflow", TooBig)}
      /\ (L[3] # Silent => S[4] = Verdict("timeout", {"retry"}) /\ status = 0 /\ ~long.thinks /\ "disconnect" \in text)
  BY <1>1, <1>2 DEF TransportRules, Rule, Verdict, Silent
<1>6. S[6] # Silent /\ L[6] # Silent /\ Verdict("timeout", {"retry"}) # Silent
  BY <1>1, <1>2 DEF TransportRules, Rule, Verdict, Silent
<1>7. PICK k \in 1 .. 6 : L[k] # Silent /\ FirstOf(L) = L[k] /\ \A j \in 1 .. 6 : j < k => L[j] = Silent
  <2>1. 6 \in 1 .. 6 /\ 6 \in Nat /\ L[6] # Silent
    BY <1>6
  <2> QED BY <1>3, <2>1, SpeaksBy
<1>8. CASE k # 3
  <2>1. \A j \in 1 .. 6 : j <= k => S[j] = L[j]
    BY <1>4, <1>5, <1>7, <1>8
  <2>2. 6 \in Nat /\ k \in 1 .. 6 /\ S[k] # Silent /\ \A j \in 1 .. 6 : j < k => S[j] = Silent
    BY <1>7, <2>1
  <2>3. FirstOf(S) = S[k]
    BY <1>3, <2>2, FirstAt
  <2> QED BY <1>1, <1>2, <1>7, <2>1, <2>2, <2>3
<1>9. CASE k = 3
  <2>1. 6 \in Nat /\ 4 \in 1 .. 6 /\ S[4] # Silent /\ \A j \in 1 .. 6 : j < 4 => S[j] = Silent
    BY <1>4, <1>5, <1>6, <1>7, <1>9
  <2>2. FirstOf(S) = S[4]
    BY <1>3, <2>1, FirstAt
  <2>3. "certificate" \notin text /\ "ssl" \notin text
    <3>1. L[1] = Silent /\ L[2] = Silent
      BY <1>7, <1>9
    <3> QED BY <1>2, <3>1 DEF TransportRules, Rule, Verdict, Silent
  <2> QED BY <1>1, <1>2, <1>5, <1>7, <1>9, <2>1, <2>2, <2>3 DEF Verdict
<1> QED BY <1>8, <1>9

\* Nothing was found in a text that no rule for texts speaks of.
LEMMA SilentMessage ==
  ASSUME NEW text, FirstOf(MessageRules(text)) = Silent
  PROVE  text \cap SoughtInMessage \subseteq {"certificate", "ssl"}
<1>1. PICK rules : rules = MessageRules(text)
  OBVIOUS
<1>2. DOMAIN rules = 1 .. 13 /\ 13 \in Nat
  BY <1>1 DEF MessageRules
<1>3. ASSUME NEW i \in 1 .. 13 PROVE rules[i] = Silent
  BY <1>1, <1>2, FirstSpeaks
<1>4. /\ rules[1] = Silent /\ rules[2] = Silent /\ rules[3] = Silent /\ rules[5] = Silent /\ rules[6] = Silent
      /\ rules[7] = Silent /\ rules[8] = Silent /\ rules[9] = Silent /\ rules[10] = Silent
      /\ rules[11] = Silent /\ rules[12] = Silent /\ rules[13] = Silent
  BY <1>3
<1>5. /\ "payload" \notin text /\ "multimodal" \notin text /\ "image" \notin text /\ "usage" \notin text
      /\ "overloaded" \notin text /\ "billing" \notin text
  BY <1>1, <1>4 DEF MessageRules, Rule, Verdict, Silent
<1>6. /\ "rate" \notin text /\ "overflow" \notin text /\ "auth" \notin text /\ "policy" \notin text
      /\ "not_found" \notin text /\ "timeout" \notin text
  BY <1>1, <1>4 DEF MessageRules, Rule, Verdict, Silent
<1> QED BY <1>5, <1>6 DEF SoughtInMessage

\* A session's length only breaks ties.
LEMMA TiesSound ==
  ASSUME NEW e, NEW thinks
  PROVE  SizeOnlyBreaksTies(e, thinks)
<1> DEFINE short == [long |-> FALSE, thinks |-> thinks]
           long == [long |-> TRUE, thinks |-> thinks]
<1>1. PICK S : S = ClassifyLists(e, short)
  OBVIOUS
<1>2. PICK L : L = ClassifyLists(e, long)
  OBVIOUS
<1>3. DOMAIN S = 1 .. 5 /\ DOMAIN L = 1 .. 5 /\ S[1] = L[1] /\ S[3] = L[3] /\ S[4] = L[4]
  BY <1>1, <1>2 DEF ClassifyLists
<1>4. S[2] # L[2] => /\ S[2] # Silent /\ L[2] # Silent /\ StatusOf(e) = 400
                     /\ L[2].reason = "context_overflow" /\ S[2].reason = "format_error"
                     /\ BodyOf(e).generic /\ TextOf(e) \cap SoughtInBadRequest = {}
  <2>1. ~short.long
    OBVIOUS
  <2> HIDE DEF short, long
  <2> QED BY <1>1, <1>2, <2>1, ByStatusTies DEF ClassifyLists
<1>5. /\ S[5] # Silent /\ L[5] # Silent
      /\ S[5] # L[5] => /\ L[5].reason = "context_overflow" /\ S[5].reason = "timeout"
                        /\ StatusOf(e) = 0 /\ ~thinks /\ "disconnect" \in TextOf(e)
                        /\ "certificate" \notin TextOf(e) /\ "ssl" \notin TextOf(e)
  <2>1. ~short.long /\ short.thinks = long.thinks /\ long.thinks = thinks
    OBVIOUS
  <2> HIDE DEF short, long
  <2> QED BY <1>1, <1>2, <2>1, TransportTies DEF ClassifyLists
<1>6. PICK k \in 1 .. 5 : S[k] # Silent /\ FirstOf(S) = S[k] /\ \A j \in 1 .. 5 : j < k => S[j] = Silent
  <2>1. 5 \in 1 .. 5 /\ 5 \in Nat
    OBVIOUS
  <2> QED BY <1>3, <1>5, <2>1, SpeaksBy
<1>7. FirstOf(L) = L[k]
  <2>1. 5 \in Nat /\ L[k] # Silent /\ \A j \in 1 .. 5 : j < k => L[j] = Silent
    BY <1>3, <1>4, <1>5, <1>6
  <2> QED BY <1>3, <2>1, FirstAt
<1>8. Classify(e, short) = FirstOf(S) /\ Classify(e, long) = FirstOf(L)
  BY <1>1, <1>2 DEF Classify, ClassifyLists
<1>9. CASE k = 5
  <2>1. S[4] = Silent /\ S[4] = FirstOf(MessageRules(TextOf(e)))
    BY <1>1, <1>6, <1>9 DEF ClassifyLists
  <2>2. TextOf(e) \cap SoughtInMessage \subseteq {"certificate", "ssl"}
    BY <2>1, SilentMessage
  <2>3. S[5] # L[5] => TextOf(e) \cap SoughtInMessage = {}
    BY <1>5, <2>2
  <2> QED BY <1>5, <1>6, <1>7, <1>8, <1>9, <2>3 DEF SizeOnlyBreaksTies
<1>10. CASE k # 5
  BY <1>3, <1>4, <1>6, <1>7, <1>8, <1>10 DEF SizeOnlyBreaksTies
<1> QED BY <1>9, <1>10

DiagnosisInv ==
    question.topic = "error" =>
        /\ \E e \in Errors, session \in Sessions : question.input = [error |-> e, session |-> session]
        /\ answer \in {<<>>, <<Classify(question.input.error, question.input.session)>>}

\* An error's diagnosis is the classifier's, once (classify_api_error, agent/error_classifier.py 515-850).
THEOREM DiagnosisInductive == DSpec => []DiagnosisInv
<1>1. DInit => DiagnosisInv
  BY DEF DInit, DiagnosisInv, About
<1>2. DiagnosisInv /\ [DNext]_dVars => DiagnosisInv'
  <2> SUFFICES ASSUME DiagnosisInv, [DNext]_dVars PROVE DiagnosisInv'
    OBVIOUS
  <2>1. CASE Measure \/ ChooseClient \/ Watch
    BY <2>1 DEF DiagnosisInv, Measure, ChooseClient, Watch, Asked
  <2>2. CASE Diagnose
    BY <2>2 DEF DiagnosisInv, Diagnose, Asked
  <2>3. CASE UNCHANGED dVars
    BY <2>3 DEF DiagnosisInv, dVars
  <2> QED BY <2>1, <2>2, <2>3 DEF DNext
<1> QED BY <1>1, <1>2, PTL DEF DSpec

\* No error, in any session, is blamed on the wrong cause: under the ordered rules
\* of classify_api_error (agent/error_classifier.py 515-850) a key is rotated only
\* for what something in the error blames on it and never for a server's own
\* failure, the conversation is compacted only for its size and never for a rejected
\* parameter, and the session's length decides only where nothing was found.
THEOREM DiagnosisIsSound == DSpec => []DiagnosisSound
<1>1. DiagnosisInv => DiagnosisSound
  <2> SUFFICES ASSUME DiagnosisInv, question.topic = "error", answer # <<>> PROVE DiagnosisSound
    BY DEF DiagnosisSound, Answered
  <2>1. answer[1] = Classify(question.input.error, question.input.session)
    BY DEF DiagnosisInv
  <2> QED BY <2>1, TiesSound, BlameSound DEF DiagnosisSound
<1> QED BY <1>1, DiagnosisInductive, PTL

-----------------------------------------------------------------------------
(* How large a window is: the first rung that knows.                       *)

\* A window that is not 0 is one of those the server has.
LEMMA Offers ==
  ASSUME NEW server
  PROVE  /\ Advertised(server) # 0 => Advertised(server) \in Offered(server)
         /\ Shown(server) # 0 => Shown(server) \in Offered(server)
         /\ Probed(server) # 0 => Probed(server) \in Offered(server)
BY DEF Offered

\* What an answer does to the disk: nothing more than to drop an entry, or it
\* is kept, as what the server or the provider said.
Answers(rung, a, w) ==
    \/ rung.disk = Left(a, w)
    \/ rung.disk = rung.window /\ rung.window \in {w.codex} \cup Offered(w.server)

\* What the rungs of an unknown endpoint answer, and leave on disk.
LEMMA EndpointAnswers ==
  ASSUME NEW a, NEW w, NEW i \in 1 .. 5, EndpointRungs(a, w)[i].window # 0
  PROVE  LET rung == EndpointRungs(a, w)[i]
         IN  /\ \/ rung.disk = Left(a, w)
                \/ rung.disk = rung.window /\ rung.window \in Offered(w.server)
             /\ rung.window \in Offered(w.server) \/ Curated(a, w)
<1>1. PICK left, live, shown, probed :
        left = Left(a, w) /\ live = Advertised(w.server) /\ shown = Shown(w.server) /\ probed = Probed(w.server)
  OBVIOUS
<1>2. /\ live # 0 => live \in Offered(w.server)
      /\ shown # 0 => shown \in Offered(w.server)
      /\ probed # 0 => probed \in Offered(w.server)
  BY <1>1, Offers
<1>3. CASE i = 1
  BY <1>1, <1>3 DEF EndpointRungs, Found
<1>4. CASE i = 2
  BY <1>1, <1>2, <1>4 DEF EndpointRungs, Found
<1>5. CASE i = 3
  BY <1>1, <1>2, <1>5 DEF EndpointRungs, Found
<1>6. CASE i = 4
  BY <1>1, <1>2, <1>6 DEF EndpointRungs, Found
<1>7. CASE i = 5
  BY <1>1, <1>2, <1>7 DEF EndpointRungs, Found, Kept
<1> QED BY <1>3, <1>4, <1>5, <1>6, <1>7

\* What the rungs of a known provider answer, and leave on disk.
LEMMA ProviderAnswers ==
  ASSUME NEW a, NEW w, NEW i \in 1 .. 10, ProviderRungs(a, w)[i].window # 0
  PROVE  Answers(ProviderRungs(a, w)[i], a, w)
<1>1. PICK left, live, shown :
        left = Left(a, w) /\ live = Advertised(w.server) /\ shown = Shown(w.server)
  OBVIOUS
<1>2. /\ live # 0 => live \in Offered(w.server)
      /\ shown # 0 => shown \in Offered(w.server)
  BY <1>1, Offers
<1>3. CASE i \in {1, 2, 4, 6, 8, 9, 10}
  BY <1>1, <1>3 DEF ProviderRungs, Found, Answers
<1>4. CASE i = 3
  BY <1>1, <1>2, <1>4 DEF ProviderRungs, Found, Answers
<1>5. CASE i = 5
  BY <1>1, <1>2, <1>5 DEF ProviderRungs, Found, Answers
<1>6. CASE i = 7
  BY <1>1, <1>2, <1>6 DEF ProviderRungs, Found, Answers
<1> QED BY <1>3, <1>4, <1>5, <1>6

\* The rungs that know an answer, of either ladder, have a first one.
LEMMA FirstKnown ==
  ASSUME NEW a, NEW w
  PROVE  /\ LET known == Known(EndpointRungs(a, w))
            IN  known # {} => Min(known) \in 1 .. 5 /\ EndpointRungs(a, w)[Min(known)].window # 0
         /\ LET known == Known(ProviderRungs(a, w))
            IN  known # {} => /\ Min(known) \in 1 .. 10 /\ ProviderRungs(a, w)[Min(known)].window # 0
                              /\ \A i \in known : Min(known) <= i
<1>1. PICK e : e = Known(EndpointRungs(a, w))
  OBVIOUS
<1>2. PICK p : p = Known(ProviderRungs(a, w))
  OBVIOUS
<1>3. e = {i \in 1 .. 5 : EndpointRungs(a, w)[i].window # 0}
  <2>1. DOMAIN EndpointRungs(a, w) = 1 .. 5
    BY DEF EndpointRungs
  <2> QED BY <1>1, <2>1 DEF Known
<1>4. p = {i \in 1 .. 10 : ProviderRungs(a, w)[i].window # 0}
  <2>1. DOMAIN ProviderRungs(a, w) = 1 .. 10
    BY DEF ProviderRungs
  <2> QED BY <1>2, <2>1 DEF Known
<1>5. e # {} => Min(e) \in e
  <2>1. \A y \in e : y \in Int /\ y >= 0
    BY <1>3
  <2> QED BY <2>1, LeastOf
<1>6. p # {} => Min(p) \in p /\ \A i \in p : Min(p) <= i
  <2>1. \A y \in p : y \in Int /\ y >= 0
    BY <1>4
  <2> QED BY <2>1, LeastOf
<1> QED BY <1>1, <1>2, <1>3, <1>4, <1>5, <1>6

\* What the ladder answers, and leaves on disk.
LEMMA ClimbAnswers ==
  ASSUME NEW a, NEW w
  PROVE  LET found == Climb(a, w)
         IN  /\ Answers(found, a, w)
             /\ Local(a.at) /\ found.disk # Left(a, w) => found.window \in Offered(w.server)
             /\ Local(a.at) /\ Offered(w.server) # {} /\ ~Curated(a, w) => found.window \in Offered(w.server)
<1> DEFINE e == EndpointRungs(a, w)
           p == ProviderRungs(a, w)
           found == Climb(a, w)
<1>1. CASE Known(e) # {}
  <2>1. found = e[Min(Known(e))]
    BY <1>1 DEF Climb
  <2> QED BY <1>1, <2>1, FirstKnown, EndpointAnswers DEF Answers, Local
<1>2. Local(a.at) => Unknown(a.at)
  BY DEF Local, Unknown, Inferred
<1>3. CASE Known(e) = {} /\ ~Unknown(a.at) /\ Known(p) # {}
  <2>1. found = p[Min(Known(p))]
    BY <1>3 DEF Climb
  <2> QED BY <1>2, <1>3, <2>1, FirstKnown, ProviderAnswers
<1>4. CASE Known(e) = {} /\ (Unknown(a.at) \/ Known(p) = {})
  <2>1. found.disk = Left(a, w)
    BY <1>4 DEF Climb, Found
  <2>2. Local(a.at) => Offered(w.server) = {}
    <3> SUFFICES ASSUME Local(a.at) PROVE Advertised(w.server) = 0 /\ Shown(w.server) = 0 /\ Probed(w.server) = 0
      BY DEF Offered
    <3>1. \A i \in 1 .. 5 : e[i].window = 0
      <4>1. DOMAIN e = 1 .. 5
        BY DEF EndpointRungs
      <4> QED BY <1>4, <4>1 DEF Known
    <3>2. e[3].window = Advertised(w.server) /\ e[4].window = Shown(w.server) /\ e[5].window = Probed(w.server)
      BY <1>2 DEF EndpointRungs, Found
    <3> QED BY <3>1, <3>2
  <2> QED BY <2>1, <2>2 DEF Answers
<1> QED BY <1>1, <1>3, <1>4

\* The portal's own answer, at its own address.
LEMMA PortalAnswers ==
  ASSUME NEW a, NEW w, a.at = "nous", a.provider \in {"none", "nous", "custom"}, Advertised(w.server) # 0
  PROVE  Climb(a, w) = Found(Advertised(w.server), Advertised(w.server))
<1> DEFINE e == EndpointRungs(a, w)
           p == ProviderRungs(a, w)
           live == Advertised(w.server)
<1>1. ~Unknown(a.at) /\ ~Local(a.at) /\ EffectiveProvider(a) = "nous"
  BY DEF Unknown, Local, Inferred, EffectiveProvider
<1>2. Known(e) = {}
  <2>1. DOMAIN e = 1 .. 5
    BY DEF EndpointRungs
  <2>2. ASSUME NEW i \in 1 .. 5 PROVE e[i].window = 0
    BY <1>1, <2>2 DEF EndpointRungs, Curated, Found
  <2> QED BY <2>1, <2>2 DEF Known
<1>3. p[1].window = 0 /\ p[2].window = 0 /\ p[3] = Found(live, live) /\ DOMAIN p = 1 .. 10
  BY <1>1 DEF ProviderRungs, Found
<1>4. 3 \in Known(p) /\ 1 \notin Known(p) /\ 2 \notin Known(p)
  BY <1>3 DEF Known, Found
<1>5. Min(Known(p)) = 3
  <2>1. Min(Known(p)) \in Known(p) /\ Min(Known(p)) \in 1 .. 10 /\ Min(Known(p)) <= 3
    <3>1. PICK known : known = Known(p)
      OBVIOUS
    <3>2. known \subseteq 1 .. 10
      BY <1>3, <3>1 DEF Known
    <3>3. Min(known) \in known /\ \A y \in known : Min(known) <= y
      <4>1. \A y \in known : y \in Int /\ y >= 0
        BY <3>2
      <4> QED BY <1>4, <3>1, <4>1, LeastOf
    <3> QED BY <1>4, <3>1, <3>2, <3>3
  <2> QED BY <1>4, <2>1
<1> QED BY <1>1, <1>2, <1>3, <1>4, <1>5 DEF Climb

\* What a rung knows does not depend on the disk.
LEMMA SameClimb ==
  ASSUME NEW a, NEW w, NEW v, v.server = w.server, v.catalog = w.catalog, v.router = w.router, v.codex = w.codex,
         v.bedrock = w.bedrock, v.table = w.table
  PROVE  Climb(a, v).window = Climb(a, w).window
<1>1. \A i \in 1 .. 5 : EndpointRungs(a, v)[i].window = EndpointRungs(a, w)[i].window
  BY DEF EndpointRungs, Curated, Found
<1>2. \A i \in 1 .. 10 : ProviderRungs(a, v)[i].window = ProviderRungs(a, w)[i].window
  BY DEF ProviderRungs, Found, Routed, Catalogued
<1>3. DOMAIN EndpointRungs(a, v) = 1 .. 5 /\ DOMAIN EndpointRungs(a, w) = 1 .. 5
  BY DEF EndpointRungs
<1>4. DOMAIN ProviderRungs(a, v) = 1 .. 10 /\ DOMAIN ProviderRungs(a, w) = 1 .. 10
  BY DEF ProviderRungs
<1>5. Known(EndpointRungs(a, v)) = Known(EndpointRungs(a, w))
  BY <1>1, <1>3 DEF Known
<1>6. Known(ProviderRungs(a, v)) = Known(ProviderRungs(a, w))
  BY <1>2, <1>4 DEF Known
<1> QED BY <1>1, <1>2, <1>5, <1>6, FirstKnown DEF Climb, Found

\* A lookup prefers the live word, keeps what was said, and says it again.
LEMMA LookupSound ==
  ASSUME NEW a, NEW w,
         w = [disk |-> w.disk, server |-> w.server, catalog |-> w.catalog, router |-> w.router, codex |-> w.codex,
              bedrock |-> w.bedrock, table |-> w.table]
  PROVE  LET found == WindowOf(a, w)
         IN  LiveOverDisk(a, w, found) /\ RemembersTheSaid(a, w, found) /\ SaysItAgain(a, w, found)
<1> DEFINE told == KnownOr(a.config, a.listed)
           found == WindowOf(a, w)
<1>1. told # 0 <=> Configured(a)
  BY DEF KnownOr, Configured
<1>2. Left(a, w) \in {0, w.disk} /\ (Remembers(a, w) /\ Outgrown(a, w.disk) => Left(a, w) = 0 /\ w.disk # 0)
  BY DEF Left, Remembers
<1>3. CASE told # 0
  <2>1. found = Found(told, w.disk)
    BY <1>3 DEF WindowOf
  <2>2. Again(a, w, found).window = told
    BY <1>3 DEF Again, WindowOf, Found
  <2> QED BY <1>1, <1>3, <2>1, <2>2 DEF Found, LiveOverDisk, RemembersTheSaid, SaysItAgain
<1>4. CASE told = 0 /\ ~Trusted(a, w)
  <2>1. found = Climb(a, w)
    BY <1>4 DEF WindowOf
  <2>2. LiveOverDisk(a, w, found)
    <3> HIDE DEF found
    <3>1. Local(a.at) /\ ~Curated(a, w) /\ Offered(w.server) # {} => found.window \in Offered(w.server)
      BY <2>1, ClimbAnswers
    <3>2. a.at = "nous" /\ Advertised(w.server) # 0 /\ a.provider \in {"none", "nous", "custom"} =>
              found = Found(Advertised(w.server), Advertised(w.server))
      BY <2>1, PortalAnswers
    <3> QED BY <1>4, <3>1, <3>2 DEF LiveOverDisk
  <2>3. RemembersTheSaid(a, w, found)
    BY <1>2, <2>1, ClimbAnswers DEF RemembersTheSaid, Answers
  <2>4. SaysItAgain(a, w, found)
    <3>1. PICK v : v = [w EXCEPT !.disk = found.disk]
      OBVIOUS
    <3>2. /\ v.server = w.server /\ v.catalog = w.catalog /\ v.router = w.router /\ v.codex = w.codex
          /\ v.bedrock = w.bedrock /\ v.table = w.table /\ v.disk = found.disk
      BY <3>1
    <3>3. Again(a, w, found) = WindowOf(a, v)
      BY <3>1 DEF Again
    <3>4. CASE ~Trusted(a, v)
      <4>1. WindowOf(a, v) = Climb(a, v)
        BY <1>4, <3>4 DEF WindowOf
      <4> QED BY <2>1, <3>2, <3>3, <4>1, SameClimb DEF SaysItAgain
    <3>5. CASE Trusted(a, v)
      <4>1. found.disk # Left(a, w)
        BY <1>4, <3>2, <3>5 DEF Trusted, Remembers, Left
      <4>2. found.disk = found.window
        BY <2>1, <4>1, ClimbAnswers DEF Answers
      <4>3. CASE ~Local(a.at)
        <5>1. WindowOf(a, v) = Found(found.disk, found.disk)
          BY <1>4, <3>2, <3>5, <4>3 DEF WindowOf
        <5> QED BY <3>3, <4>2, <5>1 DEF Found, SaysItAgain
      <4>4. CASE Local(a.at)
        <5>1. WindowOf(a, v) = Reconciled(found.disk, w.server)
          BY <1>4, <3>2, <3>5, <4>4 DEF WindowOf
        <5>2. found.window \in Offered(w.server)
          BY <2>1, <4>1, <4>4, ClimbAnswers
        <5>3. ~TwoMinds(w.server) => Probed(w.server) \in {0, found.disk}
          BY <4>2, <5>2, Offers DEF TwoMinds
        <5> QED BY <3>3, <4>2, <5>1, <5>3 DEF Reconciled, Found, SaysItAgain
      <4> QED BY <4>3, <4>4
    <3> QED BY <3>4, <3>5
  <2> QED BY <2>2, <2>3, <2>4
<1>5. CASE told = 0 /\ Trusted(a, w)
  <2>1. Remembers(a, w) /\ ~Outgrown(a, w.disk) /\ a.at # "nous"
    BY <1>5 DEF Trusted, Inferred
  <2>2. CASE found = Found(w.disk, w.disk) /\ (Local(a.at) => Probed(w.server) \in {0, w.disk})
    <3>1. Again(a, w, found) = found
      <4>1. [w EXCEPT !.disk = found.disk] = w
        BY <2>2 DEF Found
      <4> QED BY <4>1 DEF Again
    <3> QED BY <1>5, <2>1, <2>2, <3>1 DEF Found, LiveOverDisk, RemembersTheSaid, SaysItAgain
  <2>3. CASE Local(a.at) /\ Probed(w.server) \notin {0, w.disk}
    <3>1. PICK live : live = Probed(w.server)
      OBVIOUS
    <3>2. found = Found(live, Kept(live, 0)) /\ live # 0 /\ live \in Offered(w.server)
      BY <1>5, <2>3, <3>1, Offers DEF WindowOf, Reconciled
    <3>3. Kept(live, 0) \in {0, live}
      BY DEF Kept
    <3>4. LiveOverDisk(a, w, found) /\ RemembersTheSaid(a, w, found)
      BY <1>5, <2>1, <2>3, <3>1, <3>2, <3>3 DEF Found, LiveOverDisk, RemembersTheSaid
    <3>5. SaysItAgain(a, w, found)
      <4>1. PICK v : v = [w EXCEPT !.disk = found.disk]
        OBVIOUS
      <4>2. v.server = w.server /\ v.bedrock = w.bedrock /\ v.disk \in {0, live}
        BY <3>2, <3>3, <4>1 DEF Found
      <4>3. Again(a, w, found) = WindowOf(a, v)
        BY <4>1 DEF Again
      <4>4. CASE ~Trusted(a, v)
        <5>1. WindowOf(a, v) = Climb(a, v)
          BY <1>5, <4>4 DEF WindowOf
        <5>2. ~Curated(a, w) => Climb(a, v).window \in Offered(w.server)
          BY <2>3, <3>2, <4>2, ClimbAnswers DEF Curated
        <5> QED BY <2>3, <3>2, <4>3, <5>1, <5>2 DEF Found, SaysItAgain, TwoMinds
      <4>5. CASE Trusted(a, v)
        <5>1. v.disk = live
          BY <4>2, <4>5 DEF Trusted, Remembers
        <5>2. WindowOf(a, v) = Reconciled(live, w.server)
          BY <1>5, <2>3, <4>2, <4>5, <5>1 DEF WindowOf
        <5> QED BY <3>1, <3>2, <4>3, <5>2 DEF Reconciled, Found, SaysItAgain
      <4> QED BY <4>4, <4>5
    <3> QED BY <3>4, <3>5
  <2>4. found = IF Local(a.at) THEN Reconciled(w.disk, w.server) ELSE Found(w.disk, w.disk)
    BY <1>5 DEF WindowOf
  <2> QED BY <2>2, <2>3, <2>4 DEF Reconciled
<1> QED BY <1>3, <1>4, <1>5

WindowInv ==
    question.topic = "window" =>
        /\ \E a \in Models, w \in Sources : question.input = [a |-> a, w |-> w]
        /\ answer \in {<<>>, <<Lookup(question.input.a, question.input.w)>>}

\* A window is what the lookup finds, once (get_model_context_length,
\* agent/model_metadata.py 1976-2293).
THEOREM WindowInductive == DSpec => []WindowInv
<1>1. DInit => WindowInv
  BY DEF DInit, WindowInv, About
<1>2. WindowInv /\ [DNext]_dVars => WindowInv'
  <2> SUFFICES ASSUME WindowInv, [DNext]_dVars PROVE WindowInv'
    OBVIOUS
  <2>1. CASE Diagnose \/ ChooseClient \/ Watch
    BY <2>1 DEF WindowInv, Diagnose, ChooseClient, Watch, Asked
  <2>2. CASE Measure
    BY <2>2 DEF WindowInv, Measure, Asked
  <2>3. CASE UNCHANGED dVars
    BY <2>3 DEF WindowInv, dVars
  <2> QED BY <2>1, <2>2, <2>3 DEF DNext
<1> QED BY <1>1, <1>2, PTL DEF DSpec

\* Whatever is on disk and whoever answers, a lookup of a window
\* (get_model_context_length, agent/model_metadata.py 1976-2293) takes the live
\* word where there is one, keeps on disk only what was said, and finds the same
\* again.
THEOREM WindowIsFit == DSpec => []WindowFits
<1>1. WindowInv => WindowFits
  <2> SUFFICES ASSUME WindowInv, question.topic = "window", answer # <<>> PROVE WindowFits
    BY DEF WindowFits, Answered
  <2>1. PICK a \in Models, w \in Sources : question.input = [a |-> a, w |-> w]
    BY DEF WindowInv
  <2>2. PICK found, acting : found = Lookup(a, w) /\ acting = Acting(a)
    OBVIOUS
  <2>3. answer[1] = found
    BY <2>1, <2>2 DEF WindowInv
  <2>4. found = WindowOf(acting, w)
    BY <2>2 DEF Lookup
  <2>5. LiveOverDisk(acting, w, found) /\ RemembersTheSaid(acting, w, found) /\ SaysItAgain(acting, w, found)
    BY <2>4, WindowAssumption, LookupSound
  <2> QED BY <2>1, <2>2, <2>3, <2>5 DEF WindowFits
<1> QED BY <1>1, WindowInductive, PTL

-----------------------------------------------------------------------------
(* Which client a side task gets.                                          *)

\* The least index of a short list.
LEMMA LeastIndex ==
  ASSUME NEW S \in SUBSET (1 .. 5), S # {}
  PROVE  Min(S) \in S
<1>1. PICK T : T = S
  OBVIOUS
<1>2. 0 \in Int /\ T # {} /\ \A y \in T : y \in Int /\ y >= 0
  BY <1>1
<1>3. Min(T) \in T
  BY <1>2, LeastOf
<1> QED BY <1>1, <1>3

\* A client as it is made, and as it is made to speak a protocol.
IsClient(c) ==
    /\ c = [provider |-> c.provider, at |-> c.at, key |-> c.key, wire |-> c.wire, model |-> c.model]
    /\ IsPlace(c.at)

\* A client just made speaks OpenAI's protocol.
LEMMA Made ==
  ASSUME NEW p, NEW at, IsPlace(at), NEW key
  PROVE  LET c == Client(p, at, key)
         IN  IsClient(c) /\ c.provider = p /\ c.at = at /\ c.key = key /\ c.wire = "openai" /\ c.model = "none"
BY DEF Client, IsClient

\* What is made to speak another protocol stays where it is, with its key.
LEMMA Spoken ==
  ASSUME NEW c, IsClient(c), NEW wire
  PROVE  LET d == Speaking(c, wire)
         IN  /\ IsClient(d) /\ d.provider = c.provider /\ d.at = c.at /\ d.key = c.key
             /\ c # Nobody => d.wire = wire
             /\ c = Nobody => d = Nobody
BY DEF Speaking, IsClient

\* The other surface of an endpoint is at the same host.
LEMMA Surface ==
  ASSUME NEW at, IsPlace(at)
  PROVE  /\ IsPlace(ToOpenAI(at)) /\ ToOpenAI(at).host = at.host
         /\ SpeaksAnthropic(ToOpenAI(at)) => SpeaksAnthropic(at)
BY DEF ToOpenAI, IsPlace, SpeaksAnthropic

\* The wrapper changes the URL and the protocol together, or nothing.
LEMMA Wrapped ==
  ASSUME NEW c, IsClient(c), NEW at, IsPlace(at), NEW mode, NEW w
  PROVE  LET d == MaybeAnthropic(c, at, mode, w)
         IN  /\ IsClient(d) /\ d.provider = c.provider /\ d.key = c.key
             /\ d = c \/ (d.at = at /\ d.wire = "anthropic")
             /\ mode = "none" /\ ~SpeaksAnthropic(at) => d = c
BY DEF MaybeAnthropic, IsClient

\* A client at an endpoint that speaks Anthropic's protocol is wrapped.
LEMMA WrappedSpeaks ==
  ASSUME NEW c, IsClient(c), c.wire = "openai", NEW at, SpeaksAnthropic(at), NEW w, w.sdk
  PROVE  MaybeAnthropic(c, at, "none", w).wire = "anthropic"
BY DEF MaybeAnthropic, IsClient

\* The end of the branches changes neither provider nor key.
LEMMA WrappedIfNeeded ==
  ASSUME NEW c, IsClient(c), NEW at, IsPlace(at), NEW mode, NEW w
  PROVE  LET d == WrapIfNeeded(c, at, mode, w)
         IN  /\ IsClient(d) /\ d.provider = c.provider /\ d.key = c.key
             /\ d.at \in {c.at, at}
             /\ mode = "none" => d = MaybeAnthropic(c, at, mode, w)
<1>1. CASE c.wire = "openai" /\ mode = "codex_responses"
  BY <1>1, Spoken DEF WrapIfNeeded
<1>2. CASE ~(c.wire = "openai" /\ mode = "codex_responses")
  <2> DEFINE d == MaybeAnthropic(c, at, mode, w)
  <2>1. WrapIfNeeded(c, at, mode, w) = d
    BY <1>2 DEF WrapIfNeeded
  <2>2. IsClient(d) /\ d.provider = c.provider /\ d.key = c.key /\ d.at \in {c.at, at}
    BY Wrapped
  <2> QED BY <2>1, <2>2
<1> QED BY <1>1, <1>2

\* A provider's home is at its own host.
LEMMA Homes ==
  ASSUME NEW p
  PROVE  /\ IsPlace(HomeOf(p)) /\ HomeOf(p).host = p
         /\ SpeaksAnthropic(HomeOf(p)) <=> p \in {"kimi", "minimax", "anthropic"}
BY DEF HomeOf, Endpoint, IsPlace, SpeaksAnthropic

\* Pools and logins hold no key of the main model.
LEMMA Keys ==
  ASSUME NEW p, NEW w
  PROVE  /\ PoolKey(p, w).from # "main" /\ LoginKey(p, w).from # "main"
         /\ NoKey.from # "main" /\ NotRequired.from # "main"
BY DEF PoolKey, LoginKey, NoKey, NotRequired, Key

\* A key of the main model's goes to the host it is for, or astray.
StaysHome(c, Astray) == c.key.from = "main" => c.key.for = c.at.host \/ c.at.host \in Astray

\* A client, and what is asked of it.
Sound(c, mode, w, Astray) == IsClient(c) /\ StaysHome(c, Astray) /\ SpeaksItsProtocol(c, mode, w)

\* A key that may be sent to a host.
For(key, host, Astray) == key.from = "main" => key.for = host \/ host \in Astray

\* Nobody gets no key.
LEMMA NobodyIsSound ==
  ASSUME NEW Astray, NEW mode, NEW w
  PROVE  Sound(Nobody, mode, w, Astray)
BY DEF Sound, Nobody, Nowhere, NoKey, Key, Endpoint, Client, IsClient, IsPlace, StaysHome,
       SpeaksItsProtocol, SpeaksAnthropic

\* One of two keys that may be sent to a host may be sent there.
LEMMA Either ==
  ASSUME NEW Astray, NEW key, NEW other, NEW host, For(key, host, Astray), For(other, host, Astray)
  PROVE  For(KeyOr(key, other), host, Astray)
BY DEF KeyOr

\* Keys that are not the main model's may be sent anywhere, as far as that goes.
LEMMA OwnKeys ==
  ASSUME NEW Astray, NEW p, NEW w, NEW host
  PROVE  For(PoolKey(p, w), host, Astray) /\ For(LoginKey(p, w), host, Astray) /\ For(NoKey, host, Astray) /\ For(NotRequired, host, Astray)
BY Keys DEF For

\* A client of a provider at an endpoint, that was not wrapped.
LEMMA With ==
  ASSUME NEW Astray, NEW p, NEW at, IsPlace(at), NEW key, For(key, at.host, Astray)
  PROVE  LET c == ClientWith(p, at, key)
         IN  /\ IsClient(c) /\ (c = Nobody \/ (c.provider = p /\ c.at = at))
             /\ StaysHome(c, Astray) /\ c.wire = "openai"
<1>1. CASE key = NoKey
  <2>1. IsClient(Nobody) /\ StaysHome(Nobody, Astray) /\ Nobody.wire = "openai"
    BY DEF Nobody, Nowhere, NoKey, Key, Endpoint, Client, IsClient, IsPlace, StaysHome
  <2>2. ClientWith(p, at, key) = Nobody
    BY <1>1 DEF ClientWith
  <2> QED BY <2>1, <2>2
<1>2. CASE key # NoKey
  BY <1>2, Made DEF ClientWith, StaysHome, For
<1> QED BY <1>1, <1>2

\* OpenRouter's client.
LEMMA OpenRouterSound ==
  ASSUME NEW Astray, NEW explicit, For(explicit, "openrouter", Astray), NEW mode, NEW w
  PROVE  LET c == TryOpenRouter(explicit, w) IN Sound(c, mode, w, Astray) /\ (c = Nobody \/ c.provider = "openrouter")
<1> DEFINE at == HomeOf("openrouter")
           key == KeyOr(explicit, KeyOr(PoolKey("openrouter", w), LoginKey("openrouter", w)))
           c == ClientWith("openrouter", at, key)
<1>1. IsPlace(at) /\ at.host = "openrouter" /\ ~SpeaksAnthropic(at)
  BY Homes
<1>2. For(key, at.host, Astray)
  BY <1>1, Either, OwnKeys
<1>3. IsClient(c) /\ (c = Nobody \/ (c.provider = "openrouter" /\ c.at = at)) /\ StaysHome(c, Astray)
  BY <1>1, <1>2, With
<1>4. SpeaksItsProtocol(c, mode, w)
  BY <1>1, <1>3, NobodyIsSound DEF SpeaksItsProtocol, Sound
<1> QED BY <1>3, <1>4 DEF Sound, TryOpenRouter

\* The portal's client.
LEMMA NousSound ==
  ASSUME NEW Astray, NEW mode, NEW w
  PROVE  LET c == TryNous(w) IN Sound(c, mode, w, Astray) /\ (c = Nobody \/ c.provider = "nous")
<1> DEFINE at == HomeOf("nous")
           key == KeyOr(PoolKey("nous", w), LoginKey("nous", w))
           c == ClientWith("nous", at, key)
<1>1. IsPlace(at) /\ at.host = "nous" /\ ~SpeaksAnthropic(at)
  BY Homes
<1>2. For(key, at.host, Astray)
  BY <1>1, Either, OwnKeys
<1>3. IsClient(c) /\ (c = Nobody \/ (c.provider = "nous" /\ c.at = at)) /\ StaysHome(c, Astray)
  BY <1>1, <1>2, With
<1>4. SpeaksItsProtocol(c, mode, w)
  BY <1>1, <1>3, NobodyIsSound DEF SpeaksItsProtocol, Sound
<1> QED BY <1>3, <1>4, NobodyIsSound DEF Sound, TryNous

\* The clients of the two subscriptions.
LEMMA CodexSound ==
  ASSUME NEW Astray, NEW p \in {"codex", "xai"}, NEW model, NEW mode, NEW w
  PROVE  LET c == BuildCodex(p, model, w) IN Sound(c, mode, w, Astray) /\ (c = Nobody \/ c.provider = p)
<1> DEFINE at == HomeOf(p)
           key == KeyOr(PoolKey(p, w), LoginKey(p, w))
           c == ClientWith(p, at, key)
           d == Speaking(c, "responses")
<1>1. IsPlace(at) /\ at.host = p /\ ~SpeaksAnthropic(at)
  BY Homes
<1>2. For(key, at.host, Astray)
  BY <1>1, Either, OwnKeys
<1>3. IsClient(c) /\ (c = Nobody \/ (c.provider = p /\ c.at = at)) /\ StaysHome(c, Astray)
  BY <1>1, <1>2, With
<1>4. IsClient(d) /\ d.provider = c.provider /\ d.at = c.at /\ d.key = c.key /\ (c = Nobody => d = Nobody)
  BY <1>3, Spoken DEF Speaking
<1>5. SpeaksItsProtocol(d, mode, w) /\ StaysHome(d, Astray)
  BY <1>1, <1>3, <1>4, NobodyIsSound DEF SpeaksItsProtocol, Sound, StaysHome
<1> QED BY <1>3, <1>4, <1>5, NobodyIsSound DEF Sound, BuildCodex

\* Anthropic's native client, at whatever URL of its host.
LEMMA AnthropicAt ==
  ASSUME NEW Astray, NEW at, IsPlace(at),
         NEW key, For(key, at.host, Astray), NEW mode, NEW w
  PROVE  LET c == Speaking(ClientWith("anthropic", at, key), "anthropic")
         IN  Sound(c, mode, w, Astray) /\ (c = Nobody \/ c.provider = "anthropic")
<1> DEFINE c == ClientWith("anthropic", at, key)
           d == Speaking(c, "anthropic")
<1>1. IsClient(c) /\ (c = Nobody \/ (c.provider = "anthropic" /\ c.at = at)) /\ StaysHome(c, Astray)
  BY With
<1>2. /\ IsClient(d) /\ d.provider = c.provider /\ d.at = c.at /\ d.key = c.key
      /\ c = Nobody => d = Nobody
      /\ c # Nobody => d.wire = "anthropic"
  BY <1>1, Spoken DEF Speaking
<1>3. SpeaksItsProtocol(d, mode, w) /\ StaysHome(d, Astray)
  BY <1>1, <1>2, NobodyIsSound DEF SpeaksItsProtocol, Sound, StaysHome
<1> QED BY <1>1, <1>2, <1>3 DEF Sound

\* Anthropic's client.
LEMMA AnthropicSound ==
  ASSUME NEW Astray, ClientAssumption, NEW explicit, For(explicit, "anthropic", Astray), NEW mode, NEW w \in Surroundings
  PROVE  LET c == TryAnthropic(explicit, w) IN Sound(c, mode, w, Astray) /\ (c = Nobody \/ c.provider = "anthropic")
<1>1. PICK at : at = IF w.cfg.provider = "anthropic" /\ w.cfg.at.form = "native" THEN w.cfg.at ELSE HomeOf("anthropic")
  OBVIOUS
<1>2. PICK key : key = KeyOr(explicit, IF w.pool["anthropic"] \in {"ready", "keyless"} THEN PoolKey("anthropic", w)
                                       ELSE LoginKey("anthropic", w))
  OBVIOUS
<1>3. TryAnthropic(explicit, w) = Speaking(ClientWith("anthropic", at, key), "anthropic")
  BY <1>1, <1>2 DEF TryAnthropic
<1>4. IsPlace(at) /\ at.host = "anthropic"
  BY <1>1, Homes DEF ClientAssumption
<1>5. For(key, at.host, Astray)
  BY <1>2, <1>4, Either, OwnKeys
<1> QED BY <1>3, <1>4, <1>5, AnthropicAt

\* Azure's client.
LEMMA AzureSound ==
  ASSUME NEW Astray, NEW explicit, NEW at, IsPlace(at), NEW mode, NEW w,
         For(explicit, IF at = Nowhere THEN "azure" ELSE at.host, Astray)
  PROVE  LET c == TryAzure(explicit, at, mode, w) IN Sound(c, mode, w, Astray) /\ (c = Nobody \/ c.provider = "azure")
<1> DEFINE there == IF at = Nowhere THEN HomeOf("azure") ELSE at
           key == KeyOr(explicit, LoginKey("azure", w))
           c == ClientWith("azure", there, key)
           d == TryAzure(explicit, at, mode, w)
<1>1. IsPlace(there) /\ there.host = IF at = Nowhere THEN "azure" ELSE at.host
  BY Homes
<1>2. For(key, there.host, Astray)
  BY <1>1, Either, OwnKeys
<1>3. IsClient(c) /\ (c = Nobody \/ (c.provider = "azure" /\ c.at = there)) /\ StaysHome(c, Astray)
  BY <1>1, <1>2, With
<1>4. IsClient(d) /\ d.provider = c.provider /\ d.key = c.key /\ d.at = c.at
  <2>1. IsPlace(c.at)
    BY <1>3 DEF IsClient
  <2>2. d \in {c, Speaking(c, "responses"), MaybeAnthropic(c, c.at, mode, w)}
    BY DEF TryAzure
  <2>3. LET e == Speaking(c, "responses") IN IsClient(e) /\ e.provider = c.provider /\ e.key = c.key /\ e.at = c.at
    BY <1>3, Spoken
  <2>4. LET e == MaybeAnthropic(c, c.at, mode, w)
        IN  IsClient(e) /\ e.provider = c.provider /\ e.key = c.key /\ e.at = c.at
    <3> DEFINE e == MaybeAnthropic(c, c.at, mode, w)
    <3>1. IsClient(e) /\ e.provider = c.provider /\ e.key = c.key /\ (e = c \/ e.at = c.at)
      BY <1>3, <2>1, Wrapped
    <3> QED BY <3>1
  <2> QED BY <1>3, <2>2, <2>3, <2>4
<1> QED 
  <2>1. d = Nobody \/ d.provider = "azure"
    <3>1. c = Nobody => d = Nobody
      BY DEF TryAzure, Speaking
    <3> QED BY <1>3, <1>4, <3>1
  <2>2. SpeaksItsProtocol(d, mode, w)
    BY <2>1, NobodyIsSound DEF SpeaksItsProtocol, Unasked, Sound
  <2>3. StaysHome(d, Astray)
    BY <1>3, <1>4 DEF StaysHome
  <2> QED BY <1>4, <2>1, <2>2, <2>3 DEF Sound

\* A client that was made at an endpoint and wrapped by it: the common end of
\* the branches.
LEMMA WrapSound ==
  ASSUME NEW Astray, NEW c, IsClient(c), c.wire = "openai", StaysHome(c, Astray), NEW told, IsPlace(told), NEW mode, NEW w,
         told.host = c.at.host,
         SpeaksAnthropic(c.at) => (SpeaksAnthropic(told) \/ ~AtItsOwn(c))
  PROVE  LET d == WrapIfNeeded(c, told, mode, w) IN Sound(d, mode, w, Astray) /\ d.provider = c.provider
<1> DEFINE d == WrapIfNeeded(c, told, mode, w)
<1>1. IsClient(d) /\ d.provider = c.provider /\ d.key = c.key /\ d.at \in {c.at, told}
      /\ (mode = "none" => d = MaybeAnthropic(c, told, mode, w))
  BY WrappedIfNeeded
<1>2. StaysHome(d, Astray)
  BY <1>1 DEF StaysHome
<1>3. ASSUME mode = "none", AtItsOwn(d), SpeaksAnthropic(d.at), w.sdk PROVE d.wire = "anthropic"
  <2>1. CASE SpeaksAnthropic(told)
    BY <1>1, <1>3, <2>1, WrappedSpeaks
  <2>2. CASE ~SpeaksAnthropic(told)
    <3>1. d = c
      BY <1>1, <1>3, <2>2, Wrapped
    <3> QED BY <1>3, <2>2, <3>1
  <2> QED BY <2>1, <2>2
<1>4. SpeaksItsProtocol(d, mode, w)
  BY <1>3 DEF SpeaksItsProtocol, Unasked
<1> QED BY <1>1, <1>2, <1>4 DEF Sound

\* The same, of a client that was just made.
LEMMA WrapMade ==
  ASSUME NEW Astray, NEW p, NEW at, IsPlace(at), NEW key, For(key, at.host, Astray),
         NEW told, IsPlace(told), told.host = at.host, SpeaksAnthropic(at) => SpeaksAnthropic(told), NEW mode, NEW w
  PROVE  LET d == WrapIfNeeded(Client(p, at, key), told, mode, w) IN Sound(d, mode, w, Astray) /\ d.provider = p
<1>1. PICK c : c = Client(p, at, key)
  OBVIOUS
<1>2. IsClient(c) /\ c.provider = p /\ c.at = at /\ c.key = key /\ c.wire = "openai"
  BY <1>1, Made
<1>3. StaysHome(c, Astray)
  BY <1>2 DEF StaysHome, For
<1>4. told.host = c.at.host /\ (SpeaksAnthropic(c.at) => SpeaksAnthropic(told))
  BY <1>2
<1>5. LET d == WrapIfNeeded(c, told, mode, w) IN Sound(d, mode, w, Astray) /\ d.provider = c.provider
  BY <1>2, <1>3, <1>4, WrapSound
<1> QED BY <1>1, <1>2, <1>5

\* The registry, by position.
LEMMA Providers ==
  /\ \A i \in 1 .. 5 : ApiKeyProviders[i] \in {"kimi", "anthropic", "minimax", "deepseek", "gemini"}
  /\ DOMAIN ApiKeyProviders = 1 .. 5
BY DEF ApiKeyProviders

\* The registry, by name.
LEMMA Registered ==
  ASSUME NEW p
  PROVE  Contains(ApiKeyProviders, p) <=> p \in {"kimi", "anthropic", "minimax", "deepseek", "gemini"}
BY DEF Contains, ApiKeyProviders

\* The first provider with a key is one that is not hidden.
LEMMA FirstApiKeySound ==
  ASSUME NEW Astray, ClientAssumption, NEW mode, NEW w \in Surroundings
  PROVE  LET c == FirstApiKey(w)
         IN  Sound(c, mode, w, Astray) /\ (c = Nobody \/ (c.provider \notin w.hidden /\ c.provider # "custom"))
<1> DEFINE KeyOf(p) == IF PoolPresent(p, w) THEN PoolKey(p, w) ELSE LoginKey(p, w)
           Usable1(p) == /\ p \notin w.hidden
                         /\ IF p = "anthropic" THEN w.cfg.provider = p ELSE KeyOf(p) # NoKey /\ HasOwnModel(p)
           usable == {i \in DOMAIN ApiKeyProviders : Usable1(ApiKeyProviders[i])}
           p == ApiKeyProviders[Min(usable)]
           gemini == Speaking(Client(p, HomeOf(p), KeyOf(p)), "gemini")
           made == Client(p, ToOpenAI(HomeOf(p)), KeyOf(p))
           wrapped == MaybeAnthropic(made, HomeOf(p), "none", w)
           d == FirstApiKey(w)
<1>1. d = IF usable = {} THEN Nobody
          ELSE CASE p = "anthropic" -> TryAnthropic(NoKey, w)
                 [] p = "gemini"    -> gemini
                 [] OTHER           -> wrapped
  BY DEF FirstApiKey
<1>2. CASE usable = {}
  <2>1. d = Nobody
    BY <1>1, <1>2
  <2> QED BY <2>1, NobodyIsSound
<1>3. CASE usable # {}
  <2>1. p \in {"kimi", "anthropic", "minimax", "deepseek", "gemini"} /\ p \notin w.hidden
    <3>1. usable \in SUBSET (1 .. 5)
      BY Providers
    <3>2. Min(usable) \in usable
      BY <1>3, <3>1, LeastIndex
    <3> QED BY <3>1, <3>2, Providers
  <2> HIDE DEF usable, p
  <2>2. CASE p = "anthropic"
    <3>1. d = TryAnthropic(NoKey, w)
      BY <1>1, <1>3, <2>2
    <3>2. For(NoKey, "anthropic", Astray)
      BY OwnKeys
    <3> QED BY <2>1, <2>2, <3>1, <3>2, AnthropicSound
  <2>3. For(KeyOf(p), p, Astray)
    BY OwnKeys
  <2>4. CASE p = "gemini"
    <3>1. d = gemini
      BY <1>1, <1>3, <2>4
    <3>2. LET e == Client(p, HomeOf(p), KeyOf(p))
          IN  IsClient(e) /\ e.provider = p /\ e.at = HomeOf(p) /\ e.key = KeyOf(p)
      BY Homes, Made
    <3>3. IsClient(gemini) /\ gemini.provider = p /\ gemini.at = HomeOf(p) /\ gemini.key = KeyOf(p)
      BY <3>2, Spoken
    <3>4. StaysHome(gemini, Astray)
      BY <2>3, <3>3, Homes DEF For, StaysHome
    <3>5. SpeaksItsProtocol(gemini, mode, w)
      BY <2>4, <3>3, Homes DEF SpeaksItsProtocol
    <3> QED BY <2>1, <2>4, <3>1, <3>3, <3>4, <3>5 DEF Sound
  <2>5. CASE p \notin {"anthropic", "gemini"}
    <3>1. d = wrapped
      BY <1>1, <1>3, <2>5
    <3>2. /\ IsClient(made) /\ made.provider = p /\ made.at = ToOpenAI(HomeOf(p)) /\ made.key = KeyOf(p)
          /\ made.wire = "openai"
      BY Homes, Surface, Made
    <3>3. StaysHome(made, Astray)
      BY <2>3, <3>2, Homes, Surface DEF For, StaysHome
    <3>4. WrapIfNeeded(made, HomeOf(p), "none", w) = wrapped
      BY DEF WrapIfNeeded
    <3>5. Sound(wrapped, "none", w, Astray) /\ wrapped.provider = p
      BY <3>2, <3>3, <3>4, Homes, Surface, WrapSound
    <3>6. Sound(wrapped, mode, w, Astray)
      BY <3>5 DEF Sound, SpeaksItsProtocol, Unasked
    <3> QED BY <2>1, <3>1, <3>5, <3>6
  <2> QED BY <2>1, <2>2, <2>4, <2>5
<1> QED BY <1>2, <1>3

\* The custom endpoint's client.
LEMMA CustomSound ==
  ASSUME NEW Astray, ClientAssumption, NEW mode, NEW w \in Surroundings
  PROVE  LET c == TryCustom(w) IN Sound(c, mode, w, Astray) /\ (c = Nobody \/ c.provider = "custom")
<1> DEFINE key == KeyOr(w.custom.key, NotRequired)
           c == Client("custom", w.custom.at, key)
           d == TryCustom(w)
<1>1. IsPlace(w.custom.at) /\ (w.custom.at.host # "none" => For(key, w.custom.at.host, Astray))
  <2>1. IsPlace(w.custom.at) /\ OfItsHost(w.custom)
    BY DEF ClientAssumption
  <2>2. w.custom.at.host # "none" => For(w.custom.key, w.custom.at.host, Astray)
    BY <2>1 DEF OfItsHost, For, Nowhere, Endpoint
  <2> QED BY <2>1, <2>2, Either, OwnKeys
<1>2. IsClient(c) /\ c.provider = "custom" /\ c.at = w.custom.at /\ c.key = key /\ c.wire = "openai"
  BY <1>1, Made
<1>3. CASE w.custom.at.host \in {"none", "openrouter", "codex"}
  <2>1. d = Nobody
    BY <1>3 DEF TryCustom
  <2> QED BY <2>1, NobodyIsSound
<1>4. CASE w.custom.at.host \notin {"none", "openrouter", "codex"} /\ w.custom.mode = "codex_responses"
  <2>1. d = Speaking(c, "responses")
    BY <1>4 DEF TryCustom
  <2>2. IsClient(d) /\ d.provider = "custom" /\ d.at = c.at /\ d.key = key
    BY <1>2, <2>1, Spoken
  <2>3. SpeaksItsProtocol(d, mode, w)
    BY <1>4, <2>2 DEF SpeaksItsProtocol, Unasked
  <2>4. StaysHome(d, Astray)
    BY <1>1, <1>2, <1>4, <2>2 DEF StaysHome, For
  <2> QED BY <2>2, <2>3, <2>4 DEF Sound
<1>5. CASE w.custom.at.host \notin {"none", "openrouter", "codex"} /\ w.custom.mode # "codex_responses"
  <2>1. d = WrapIfNeeded(c, w.custom.at, w.custom.mode, w)
    BY <1>5 DEF TryCustom, WrapIfNeeded
  <2>2. StaysHome(c, Astray)
    BY <1>1, <1>2, <1>5 DEF StaysHome, For
  <2>3. Sound(d, w.custom.mode, w, Astray) /\ d.provider = "custom"
    BY <1>1, <1>2, <2>1, <2>2, WrapSound
  <2>4. Sound(d, mode, w, Astray)
    BY <2>3 DEF Sound, SpeaksItsProtocol, Unasked
  <2> QED BY <2>3, <2>4
<1> QED BY <1>3, <1>4, <1>5

\* The client of a named provider.
LEMMA HouseSound ==
  ASSUME NEW Astray, ClientAssumption, NEW r, NEW w \in Surroundings
  PROVE  LET c == ResolveHouse(r, w) IN Sound(c, r.mode, w, Astray) /\ (c = Nobody \/ c.provider = "house")
<1> DEFINE mode == IF r.mode # "none" THEN r.mode ELSE w.house.mode
           key == KeyOr(w.house.key, NotRequired)
           c(at) == Client("house", at, key)
           d == ResolveHouse(r, w)
<1>1. IsPlace(w.house.at) /\ (w.house.at # Nowhere => For(key, w.house.at.host, Astray))
  <2>1. IsPlace(w.house.at) /\ OfItsHost(w.house)
    BY DEF ClientAssumption
  <2>2. w.house.at # Nowhere => For(w.house.key, w.house.at.host, Astray)
    BY <2>1 DEF OfItsHost, For
  <2> QED BY <2>1, <2>2, Either, OwnKeys
<1>2. PICK at : /\ IsPlace(at) /\ at.host = w.house.at.host /\ (SpeaksAnthropic(at) => SpeaksAnthropic(w.house.at))
                /\ at = IF mode = "anthropic_messages" /\ w.sdk THEN w.house.at ELSE ToOpenAI(w.house.at)
  <2>1. CASE mode = "anthropic_messages" /\ w.sdk
    BY <1>1, <2>1
  <2>2. CASE ~(mode = "anthropic_messages" /\ w.sdk)
    BY <1>1, <2>2, Surface
  <2> QED BY <2>1, <2>2
<1>3. IsClient(c(at)) /\ c(at).provider = "house" /\ c(at).at = at /\ c(at).key = key /\ c(at).wire = "openai"
  BY <1>2, Made
<1>4. w.house.at # Nowhere => StaysHome(c(at), Astray)
  BY <1>1, <1>2, <1>3 DEF StaysHome, For
<1>5. CASE w.house.at = Nowhere
  <2>1. d = Nobody
    BY <1>5 DEF ResolveHouse, HouseClient
  <2> QED BY <2>1, NobodyIsSound
<1>6. CASE w.house.at # Nowhere /\ mode \in {"anthropic_messages", "codex_responses"}
  <2>1. PICK wire : d = Speaking(c(at), wire) \/ d = c(at)
    BY <1>2, <1>6 DEF ResolveHouse, HouseClient
  <2>2. IsClient(d) /\ d.provider = "house" /\ d.at = at /\ d.key = key
    BY <1>3, <2>1, Spoken
  <2>3. StaysHome(d, Astray)
    BY <1>3, <1>4, <1>6, <2>2 DEF StaysHome
  <2>4. SpeaksItsProtocol(d, r.mode, w)
    BY <1>6, <2>2 DEF SpeaksItsProtocol, Unasked
  <2> QED BY <2>2, <2>3, <2>4 DEF Sound
<1>7. CASE w.house.at # Nowhere /\ mode \notin {"anthropic_messages", "codex_responses"}
  <2>1. d = WrapIfNeeded(c(at), w.house.at, r.mode, w)
    BY <1>2, <1>7 DEF ResolveHouse, HouseClient
  <2>2. For(key, at.host, Astray)
    BY <1>1, <1>2, <1>7
  <2> HIDE DEF key
  <2> QED BY <1>1, <1>2, <2>1, <2>2, WrapMade
<1> QED BY <1>5, <1>6, <1>7

\* The clients of the clouds.
LEMMA CloudSound ==
  ASSUME NEW Astray, NEW p \in {"acp", "vertex", "bedrock"}, NEW mode, NEW w
  PROVE  LET c == ResolveCloud(p, w) IN Sound(c, mode, w, Astray) /\ (c = Nobody \/ c.provider = p)
<1> DEFINE c == ClientWith(p, HomeOf(p), LoginKey(p, w))
           d == ResolveCloud(p, w)
<1>1. IsPlace(HomeOf(p)) /\ HomeOf(p).host = p /\ ~SpeaksAnthropic(HomeOf(p))
  BY Homes
<1>2. For(LoginKey(p, w), HomeOf(p).host, Astray)
  BY OwnKeys
<1>3. IsClient(c) /\ (c = Nobody \/ (c.provider = p /\ c.at = HomeOf(p))) /\ StaysHome(c, Astray)
  BY <1>1, <1>2, With
<1>4. PICK wire : d = Speaking(c, wire)
  BY DEF ResolveCloud
<1>5. IsClient(d) /\ d.provider = c.provider /\ d.at = c.at /\ d.key = c.key /\ (c = Nobody => d = Nobody)
  BY <1>3, <1>4, Spoken
<1>6. SpeaksItsProtocol(d, mode, w) /\ StaysHome(d, Astray)
  BY <1>1, <1>3, <1>5, NobodyIsSound DEF SpeaksItsProtocol, Sound, StaysHome
<1> QED BY <1>3, <1>5, <1>6 DEF Sound

\* A request: its key may be sent to its endpoint, and to the provider's own
\* where the client is made for that; a key of the main model comes without a
\* protocol.
Fitting(r, p, Astray) ==
    /\ IsPlace(r.at) /\ For(r.key, IF r.at # Nowhere THEN r.at.host ELSE p, Astray)
    /\ MadeForItsHost(p) => For(r.key, p, Astray)
    /\ r.mode = "none" \/ r.key.from # "main"

\* The client of a registered provider.
LEMMA ApiKeySound ==
  ASSUME NEW Astray, NEW r, NEW p, p = r.provider, p \in {"kimi", "minimax", "deepseek", "gemini"}, Fitting(r, p, Astray), NEW w
  PROVE  LET c == ResolveApiKey(r, w) IN Sound(c, r.mode, w, Astray) /\ (c = Nobody \/ c.provider = p)
<1> DEFINE key == KeyOr(r.key, LoginKey(p, w))
           there == IF r.at # Nowhere THEN r.at ELSE HomeOf(p)
           at == ToOpenAI(there)
           c == Client(p, at, key)
           d == ResolveApiKey(r, w)
<1>1. IsPlace(there) /\ IsPlace(at) /\ at.host = (IF r.at # Nowhere THEN r.at.host ELSE p)
  <2>1. IsPlace(there) /\ there.host = (IF r.at # Nowhere THEN r.at.host ELSE p)
    BY Homes DEF Fitting
  <2> HIDE DEF there
  <2> QED BY <2>1, Surface
<1>2. For(key, at.host, Astray) /\ (MadeForItsHost(p) => For(key, p, Astray)) /\ (r.mode = "none" \/ key.from # "main")
  <2>1. For(r.key, at.host, Astray) /\ (MadeForItsHost(p) => For(r.key, p, Astray)) /\ (r.mode = "none" \/ r.key.from # "main")
    BY <1>1 DEF Fitting
  <2>2. LoginKey(p, w).from # "main"
    BY Keys
  <2> QED BY <2>1, <2>2 DEF KeyOr, For
<1> HIDE DEF key, at
<1>3. IsClient(c) /\ c.provider = p /\ c.at = at /\ c.key = key /\ c.wire = "openai"
  BY <1>1, Made
<1>4. StaysHome(c, Astray)
  BY <1>2, <1>3 DEF StaysHome, For
<1>5. CASE key = NoKey
  <2>1. d = Nobody
    BY <1>5 DEF ResolveApiKey, key
  <2> QED BY <2>1, NobodyIsSound
<1>6. CASE key # NoKey /\ p = "gemini"
  <2>1. d = Speaking(c, "gemini")
    BY <1>6 DEF ResolveApiKey, key, at
  <2>2. IsClient(d) /\ d.provider = p /\ d.at = at /\ d.key = key
    BY <1>3, <2>1, Spoken
  <2>3. StaysHome(d, Astray)
    BY <1>3, <1>4, <2>2 DEF StaysHome
  <2>4. ASSUME AtItsOwn(d), SpeaksAnthropic(d.at) PROVE FALSE
    <3>1. Contains(ApiKeyProviders, p)
      BY <1>6, Registered
    <3>2. d.at \in {HomeOf(p), ToOpenAI(HomeOf(p))}
      BY <2>2, <2>4, <3>1 DEF AtItsOwn
    <3> QED BY <1>6, <2>4, <3>2, Homes, Surface
  <2>5. SpeaksItsProtocol(d, r.mode, w)
    BY <2>4 DEF SpeaksItsProtocol
  <2> QED BY <2>2, <2>3, <2>5 DEF Sound
<1>7. CASE key # NoKey /\ p # "gemini"
  <2>1. d = WrapIfNeeded(c, HomeOf(p), r.mode, w)
    BY <1>7 DEF ResolveApiKey, key, at
  <2>2. IsClient(d) /\ d.provider = p /\ d.key = key /\ d.at \in {at, HomeOf(p)}
        /\ (r.mode = "none" => d = MaybeAnthropic(c, HomeOf(p), r.mode, w))
    BY <1>3, <2>1, Homes, WrappedIfNeeded
  <2>3. StaysHome(d, Astray)
    <3>1. CASE MadeForItsHost(p)
      BY <1>2, <2>2, <3>1, Homes DEF StaysHome, For
    <3>2. CASE ~MadeForItsHost(p) /\ r.mode = "none"
      <4>1. d = c
        BY <1>3, <2>2, <3>2, Homes, Wrapped DEF MadeForItsHost
      <4> QED BY <1>4, <4>1
    <3>3. CASE r.mode # "none"
      BY <1>2, <2>2, <3>3 DEF StaysHome
    <3> QED BY <3>1, <3>2, <3>3
  <2>4. ASSUME r.mode = "none", AtItsOwn(d), SpeaksAnthropic(d.at), w.sdk PROVE d.wire = "anthropic"
    <3>1. Contains(ApiKeyProviders, p)
      BY Registered
    <3>2. d.at \in {HomeOf(p), ToOpenAI(HomeOf(p))}
      BY <2>2, <2>4, <3>1 DEF AtItsOwn
    <3>3. SpeaksAnthropic(HomeOf(p))
      BY <2>4, <3>2, Homes, Surface
    <3> QED BY <1>3, <2>2, <2>4, <3>3, Homes, WrappedSpeaks
  <2>5. SpeaksItsProtocol(d, r.mode, w)
    BY <2>4 DEF SpeaksItsProtocol, Unasked
  <2> QED BY <2>2, <2>3, <2>5 DEF Sound
<1> QED BY <1>5, <1>6, <1>7

\* The key of the main model belongs to the host it is given to, unless it was
\* recorded apart from the endpoint.
LEMMA MainKeyOfMainHost ==
  ASSUME NEW Astray, ClientAssumption, NEW w \in Surroundings, NEW at,
         Halved(w.run) => MainAt(w).host \in Astray
  PROVE  For(MainKeyIfSameHost(at, w), at.host, Astray)
<1>1. For(NoKey, at.host, Astray)
  BY OwnKeys
<1>2. ASSUME MainAt(w).host # "none" PROVE For(MainKey(w), MainAt(w).host, Astray)
  <2>1. CASE Halved(w.run)
    BY <2>1 DEF For
  <2>2. CASE w.run.at # Nowhere /\ w.run.key # NoKey
    <3>1. MainKey(w) = w.run.key /\ MainAt(w) = w.run.at
      BY <2>2 DEF MainKey, MainAt
    <3> QED BY <2>2, <3>1 DEF ClientAssumption, OfItsHost, For
  <2>3. CASE w.run.at = Nowhere /\ w.run.key = NoKey
    <3>1. MainKey(w) = w.cfg.key /\ MainAt(w) = w.cfg.at
      BY <2>3 DEF MainKey, MainAt
    <3>2. w.cfg.at # Nowhere
      BY <1>2, <3>1 DEF Nowhere, Endpoint
    <3> QED BY <3>1, <3>2 DEF ClientAssumption, OfItsHost, For
  <2> QED BY <2>1, <2>2, <2>3 DEF Halved
<1> QED BY <1>1, <1>2 DEF MainKeyIfSameHost

\* The client of an endpoint that was asked for.
LEMMA ResolveCustomSound ==
  ASSUME NEW Astray, ClientAssumption, NEW w \in Surroundings,
         Halved(w.run) => MainAt(w).host \in Astray, NEW r, Fitting(r, "custom", Astray),
         IsPlace(r.main.at), OfItsHost(r.main)
  PROVE  LET c == ResolveCustom(r, w)
         IN  /\ Sound(c, r.mode, w, Astray)
             /\ c = Nobody \/ c.provider = "custom" \/ LabelOf(c.provider) \notin w.hidden
<1> DEFINE at == ToOpenAI(r.at)
           key == KeyOr(r.key, KeyOr(LoginKey("openai", w), KeyOr(MainKeyIfSameHost(at, w), NotRequired)))
           d == ResolveCustom(r, w)
<1>1. CASE r.at # Nowhere
  <2>1. IsPlace(at) /\ at.host = r.at.host
    BY Surface DEF Fitting
  <2>2. For(key, at.host, Astray)
    <3>1. For(r.key, at.host, Astray)
      BY <1>1, <2>1 DEF Fitting
    <3>2. For(LoginKey("openai", w), at.host, Astray) /\ For(NotRequired, at.host, Astray)
      BY OwnKeys
    <3>3. For(MainKeyIfSameHost(at, w), at.host, Astray)
      BY MainKeyOfMainHost
    <3> HIDE DEF at
    <3>4. For(KeyOr(MainKeyIfSameHost(at, w), NotRequired), at.host, Astray)
      BY <3>2, <3>3, Either
    <3> QED BY <3>1, <3>2, <3>4, Either
  <2>3. d = WrapIfNeeded(Client("custom", at, key), at, r.mode, w)
    BY <1>1 DEF ResolveCustom
  <2> HIDE DEF at, key
  <2> QED BY <2>1, <2>2, <2>3, WrapMade
<1>2. CASE r.at = Nowhere /\ r.main.at # Nowhere /\ r.main.key # NoKey
  <2>1. d = WrapIfNeeded(Client("custom", r.main.at, r.main.key), r.main.at, r.mode, w)
    BY <1>2 DEF ResolveCustom
  <2>2. For(r.main.key, r.main.at.host, Astray)
    BY <1>2 DEF For, OfItsHost
  <2> QED BY <2>1, <2>2, WrapMade
<1>3. CASE r.at = Nowhere /\ ~(r.main.at # Nowhere /\ r.main.key # NoKey)
  <2>1. PICK c : c = IF TryCustom(w) # Nobody THEN TryCustom(w) ELSE FirstApiKey(w)
    OBVIOUS
  <2>2. Sound(c, r.mode, w, Astray) /\ (c = Nobody \/ c.provider = "custom" \/ LabelOf(c.provider) \notin w.hidden)
    BY <2>1, CustomSound, FirstApiKeySound DEF LabelOf
  <2>3. d = IF c = Nobody THEN c ELSE WrapIfNeeded(c, c.at, r.mode, w)
    BY <1>3, <2>1 DEF ResolveCustom
  <2>4. CASE c = Nobody
    BY <2>2, <2>3, <2>4
  <2>5. CASE c # Nobody /\ c.wire = "openai"
    <3>1. IsPlace(c.at) /\ IsClient(c) /\ StaysHome(c, Astray)
      BY <2>2 DEF Sound, IsClient
    <3> QED BY <2>2, <2>3, <2>5, <3>1, WrapSound
  <2>6. CASE c # Nobody /\ c.wire # "openai"
    <3>1. d = c
      BY <2>3, <2>6 DEF WrapIfNeeded, MaybeAnthropic
    <3> QED BY <2>2, <3>1
  <2> QED BY <2>4, <2>5, <2>6
<1> QED BY <1>1, <1>2, <1>3

\* What a request is resolved to: a sound client of the provider it names, or
\* of one that is not hidden.
LEMMA ResolveSound ==
  ASSUME NEW Astray, ClientAssumption, NEW w \in Surroundings,
         Halved(w.run) => MainAt(w).host \in Astray, NEW r,
         r = [provider |-> r.provider, model |-> r.model, at |-> r.at, key |-> r.key, mode |-> r.mode, main |-> r.main],
         Fitting(r, Normalize(r.provider, w), Astray), IsPlace(r.main.at), OfItsHost(r.main)
  PROVE  LET c == Resolve(r, w)
         IN  /\ Sound(c, r.mode, w, Astray)
             /\ c = Nobody \/ c.provider = Normalize(r.provider, w) \/ LabelOf(c.provider) \notin w.hidden
<1> DEFINE p == Normalize(r.provider, w)
           named == [r EXCEPT !.provider = p]
           d == Resolve(r, w)
<1>1. /\ named.provider = p /\ named.at = r.at /\ named.key = r.key /\ named.mode = r.mode /\ named.main = r.main
  OBVIOUS
<1>2. Fitting(named, p, Astray)
  BY <1>1 DEF Fitting
<1> HIDE DEF p, named
<1>3. CASE p = "openrouter"
  <2>1. d = TryOpenRouter(r.key, w)
    BY <1>3, Registered DEF Resolve, p
  <2>2. For(r.key, "openrouter", Astray)
    BY <1>1, <1>2, <1>3 DEF Fitting, MadeForItsHost
  <2> QED BY <1>3, <2>1, <2>2, OpenRouterSound DEF p
<1>4. CASE p = "nous"
  <2>1. d = TryNous(w)
    BY <1>4, Registered DEF Resolve, p
  <2> QED BY <1>4, <2>1, NousSound DEF p
<1>5. CASE p \in {"codex", "xai"}
  <2>1. d = BuildCodex(p, r.model, w)
    BY <1>5, Registered DEF Resolve, p
  <2>2. LET c == BuildCodex(p, r.model, w) IN Sound(c, r.mode, w, Astray) /\ (c = Nobody \/ c.provider = p)
    BY <1>5, CodexSound
  <2> QED BY <2>1, <2>2 DEF p
<1>6. CASE p = "custom"
  <2>1. d = ResolveCustom(named, w)
    BY <1>6, Registered DEF Resolve, p, named
  <2> QED BY <1>1, <1>2, <1>6, <2>1, ResolveCustomSound DEF p
<1>7. CASE p = "house"
  <2>1. d = ResolveHouse(r, w)
    BY <1>7, Registered DEF Resolve, p
  <2>2. LET c == ResolveHouse(r, w) IN Sound(c, r.mode, w, Astray) /\ (c = Nobody \/ c.provider = p)
    BY <1>7, HouseSound
  <2> QED BY <2>1, <2>2 DEF p
<1>8. CASE p = "azure"
  <2>1. d = TryAzure(r.key, r.at, r.mode, w)
    BY <1>8, Registered DEF Resolve, p
  <2>2. IsPlace(r.at) /\ For(r.key, IF r.at = Nowhere THEN "azure" ELSE r.at.host, Astray)
    BY <1>1, <1>2, <1>8 DEF Fitting
  <2> QED BY <1>8, <2>1, <2>2, AzureSound DEF p
<1>9. CASE p = "anthropic"
  <2>1. d = TryAnthropic(r.key, w)
    BY <1>9, Registered DEF Resolve, p
  <2>2. For(r.key, "anthropic", Astray)
    BY <1>1, <1>2, <1>9, Homes DEF Fitting, MadeForItsHost
  <2> QED BY <1>9, <2>1, <2>2, AnthropicSound DEF p
<1>10. CASE p \in {"kimi", "minimax", "deepseek", "gemini"}
  <2>2. d = ResolveApiKey(named, w)
    BY <1>10, Registered DEF Resolve, p, named
  <2>3. LET c == ResolveApiKey(named, w) IN Sound(c, named.mode, w, Astray) /\ (c = Nobody \/ c.provider = p)
    BY <1>1, <1>2, <1>10, ApiKeySound, ZenonT(60)
  <2> QED BY <1>1, <2>2, <2>3 DEF p
<1>11. CASE p \in {"acp", "vertex", "bedrock"}
  <2>2. d = ResolveCloud(p, w)
    BY <1>11, Registered DEF Resolve, p
  <2>3. LET c == ResolveCloud(p, w) IN Sound(c, r.mode, w, Astray) /\ (c = Nobody \/ c.provider = p)
    BY <1>11, CloudSound
  <2> QED BY <2>2, <2>3 DEF p
<1>12. CASE p \notin {"openrouter", "nous", "codex", "xai", "custom", "house", "azure", "anthropic",
                     "kimi", "minimax", "deepseek", "gemini", "acp", "vertex", "bedrock"}
  <2>2. d = Nobody
    BY <1>12, Registered DEF Resolve, p
  <2> QED BY <2>2, NobodyIsSound DEF p
<1> QED BY <1>3, <1>4, <1>5, <1>6, <1>7, <1>8, <1>9, <1>10, <1>11, <1>12

\* The chain's client is not hidden.
LEMMA FromChainSound ==
  ASSUME NEW Astray, ClientAssumption, NEW mode, NEW w \in Surroundings
  PROVE  LET c == FromChain(w) IN Sound(c, mode, w, Astray) /\ (c = Nobody \/ LabelOf(c.provider) \notin w.hidden)
<1> DEFINE up == {i \in DOMAIN Chain(w) : Chain(w)[i].label \notin w.hidden /\ Chain(w)[i].client # Nobody}
           i == Min(up)
<1>1. FromChain(w) = IF up = {} THEN Nobody ELSE Chain(w)[i].client
  BY DEF FromChain
<1>2. CASE up = {}
  BY <1>1, <1>2, NobodyIsSound
<1>3. CASE up # {}
  <2>1. i \in up /\ i \in 1 .. 4
    <3>1. up \in SUBSET (1 .. 5) /\ up \in SUBSET (1 .. 4)
      BY DEF Chain
    <3> HIDE DEF up
    <3> QED BY <1>3, <3>1, LeastIndex
  <2>2. Chain(w)[i].label \notin w.hidden
    BY <2>1
  <2> HIDE DEF i
  <2>3. CASE i = 1
    <3>1. Chain(w)[i].client = TryOpenRouter(NoKey, w) /\ Chain(w)[i].label = "openrouter"
      BY <2>3 DEF Chain
    <3>2. For(NoKey, "openrouter", Astray)
      BY OwnKeys
    <3> QED BY <1>1, <1>3, <2>2, <3>1, <3>2, OpenRouterSound DEF LabelOf
  <2>4. CASE i = 2
    <3>1. Chain(w)[i].client = TryNous(w) /\ Chain(w)[i].label = "nous"
      BY <2>4 DEF Chain
    <3> QED BY <1>1, <1>3, <2>2, <3>1, NousSound DEF LabelOf
  <2>5. CASE i = 3
    <3>1. Chain(w)[i].client = TryCustom(w) /\ Chain(w)[i].label = "local/custom"
      BY <2>5 DEF Chain
    <3> QED BY <1>1, <1>3, <2>2, <3>1, CustomSound DEF LabelOf
  <2>6. CASE i = 4
    <3>1. Chain(w)[i].client = FirstApiKey(w)
      BY <2>6 DEF Chain
    <3> QED BY <1>1, <1>3, <3>1, FirstApiKeySound, ZenonT(60) DEF LabelOf
  <2> QED BY <2>1, <2>3, <2>4, <2>5, <2>6
<1> QED BY <1>2, <1>3

\* The runtime "auto" asks for: its key is its endpoint's, or strays, or it is
\* the aggregator's and has none.
LEMMA MainIsWhole ==
  ASSUME ClientAssumption, NEW w \in Surroundings, NEW main \in Runtimes, NEW Astray, Astray = Strays(TRUE, main, w)
  PROVE  LET m == Aggregated(MainRuntime(main, w), w)
             r == Request(m.provider, "main", m.at, m.key, "none")
         IN  m.provider # "none" => /\ Fitting(r, Normalize(r.provider, w), Astray)
                                    /\ Normalize(r.provider, w) = m.provider
<1>1. PICK n : n = MainRuntime(main, w)
  OBVIOUS
<1>2. PICK m : m = Aggregated(n, w)
  OBVIOUS
<1>3. PICK r : r = Request(m.provider, "main", m.at, m.key, "none")
  OBVIOUS
<1>4. SUFFICES ASSUME m.provider # "none"
               PROVE  Fitting(r, Normalize(r.provider, w), Astray) /\ Normalize(r.provider, w) = m.provider
  BY <1>1, <1>2, <1>3
<1>5. IsPlace(n.at) /\ n.provider # "main"
  BY <1>1 DEF ClientAssumption, MainRuntime, MainProvider
<1>6. IsPlace(m.at) /\ m.provider # "main"
  BY <1>2, <1>5 DEF Aggregated, ClientAssumption, IsPlace, Nowhere, Endpoint
<1>7. /\ Halved(main) => n.at.host \in Astray
      /\ n.at = Nowhere \/ MadeForItsHost(n.provider) => n.provider \in Astray
  BY <1>1 DEF Strays
<1>8. n.at # Nowhere => For(n.key, n.at.host, Astray)
  <2>1. CASE Halved(main)
    BY <1>7, <2>1 DEF For
  <2>2. CASE main.at # Nowhere /\ main.key # NoKey
    <3>1. n.key = main.key /\ n.at = main.at
      BY <1>1, <2>2 DEF MainRuntime
    <3> QED BY <2>2, <3>1 DEF ClientAssumption, OfItsHost, For
  <2>3. CASE main.at = Nowhere /\ main.key = NoKey
    <3>1. n.key = w.run.key /\ n.at = w.run.at
      BY <1>1, <2>3 DEF MainRuntime
    <3> QED BY <3>1 DEF ClientAssumption, OfItsHost, For
  <2> QED BY <2>1, <2>2, <2>3 DEF Halved
<1>9. /\ m.at # Nowhere => For(m.key, m.at.host, Astray)
      /\ m.at = Nowhere \/ MadeForItsHost(m.provider) => For(m.key, m.provider, Astray)
  <2>1. CASE m = n
    BY <1>7, <1>8, <2>1 DEF For
  <2>2. CASE m # n
    <3>1. m.key = NoKey
      BY <1>2, <2>2 DEF Aggregated
    <3> QED BY <3>1, OwnKeys
  <2> QED BY <2>1, <2>2
<1>10. Normalize(m.provider, w) = m.provider
  BY <1>4, <1>6 DEF Normalize
<1>11. r.provider = m.provider /\ r.at = m.at /\ r.key = m.key /\ r.mode = "none"
  BY <1>3 DEF Request
<1>12. Fitting(r, m.provider, Astray)
  BY <1>6, <1>9, <1>11 DEF Fitting
<1> QED BY <1>10, <1>11, <1>12

\* The model's name changes nothing else.
LEMMA Renamed ==
  ASSUME NEW c, NEW Astray, NEW mode, NEW w, Sound(c, mode, w, Astray), NEW model
  PROVE  LET d == [c EXCEPT !.model = model] IN Sound(d, mode, w, Astray) /\ d.provider = c.provider
<1> DEFINE d == [c EXCEPT !.model = model]
<1>1. d = [provider |-> c.provider, at |-> c.at, key |-> c.key, wire |-> c.wire, model |-> model] /\ IsPlace(c.at)
  BY DEF Sound, IsClient
<1> HIDE DEF d
<1>2. IsClient(d) /\ d.provider = c.provider /\ d.at = c.at /\ d.key = c.key /\ d.wire = c.wire
  BY <1>1 DEF IsClient
<1>3. AtItsOwn(d) <=> AtItsOwn(c)
  BY <1>2 DEF AtItsOwn
<1>4. Unasked(d, mode, w) <=> Unasked(c, mode, w)
  BY <1>2 DEF Unasked
<1>5. SpeaksItsProtocol(d, mode, w)
  BY <1>2, <1>3, <1>4 DEF Sound, SpeaksItsProtocol
<1> QED BY <1>2, <1>5 DEF Sound, StaysHome, d

\* The client that was chosen automatically.
LEMMA ResolveAutoSound ==
  ASSUME ClientAssumption, NEW w \in Surroundings, NEW main \in Runtimes,
         NEW Astray, Astray = Strays(TRUE, main, w), NEW model
  PROVE  LET c == ResolveAuto(main, model, w) IN Sound(c, "none", w, Astray) /\ ChoosesTheVisible(c, w)
<1> DEFINE Good(c) == Sound(c, "none", w, Astray) /\ (c = Nobody \/ LabelOf(c.provider) \notin w.hidden)
<1>1. PICK m : m = Aggregated(MainRuntime(main, w), w)
  OBVIOUS
<1>2. PICK r : r = Request(m.provider, "main", m.at, m.key, "none")
  OBVIOUS
<1>3. PICK first : first = Resolve(r, w)
  OBVIOUS
<1>4. PICK c : c = IF m.provider \notin {"none", "auto"} /\ LabelOf(m.provider) \notin w.hidden /\ first # Nobody
                   THEN first ELSE FromChain(w)
  OBVIOUS
<1>5. Good(c)
  <2>1. m.provider # "none" => /\ Fitting(r, Normalize(r.provider, w), Astray)
                               /\ Normalize(r.provider, w) = m.provider
    BY <1>1, <1>2, MainIsWhole
  <2>2. r = [provider |-> r.provider, model |-> r.model, at |-> r.at, key |-> r.key, mode |-> r.mode, main |-> r.main]
        /\ r.mode = "none" /\ IsPlace(r.main.at) /\ OfItsHost(r.main)
    BY <1>2 DEF Request, NoRuntime, IsPlace, OfItsHost, NoKey, Key, Nowhere, Endpoint
  <2>3. ASSUME m.provider # "none"
        PROVE  /\ Sound(first, "none", w, Astray)
               /\ first = Nobody \/ first.provider = Normalize(r.provider, w) \/ LabelOf(first.provider) \notin w.hidden
    <3>1. Halved(w.run) => MainAt(w).host \in Astray
      BY DEF Strays
    <3>2. LET d == Resolve(r, w)
          IN  /\ Sound(d, r.mode, w, Astray)
              /\ d = Nobody \/ d.provider = Normalize(r.provider, w) \/ LabelOf(d.provider) \notin w.hidden
      BY <2>1, <2>2, <2>3, <3>1, ResolveSound
    <3> QED BY <1>3, <2>2, <3>2
  <2>4. Good(FromChain(w))
    BY FromChainSound
  <2> QED BY <1>4, <2>1, <2>3, <2>4
<1>6. PICK named : named = IF model = "none" /\ MainProvider(w) # "none" THEN "main" ELSE model
  OBVIOUS
<1>7. ResolveAuto(main, model, w) = IF c = Nobody \/ named = "none" THEN c ELSE [c EXCEPT !.model = named]
  BY <1>1, <1>2, <1>3, <1>4, <1>6 DEF ResolveAuto
<1>8. CASE c = Nobody \/ named = "none"
  BY <1>5, <1>7, <1>8 DEF ChoosesTheVisible
<1>9. CASE c # Nobody /\ named # "none"
  <2>1. Sound([c EXCEPT !.model = named], "none", w, Astray) /\ [c EXCEPT !.model = named].provider = c.provider
    BY <1>5, Renamed
  <2> QED BY <1>5, <1>7, <1>9, <2>1 DEF ChoosesTheVisible
<1> QED BY <1>8, <1>9

\* What a task and its caller bring: a place, and a key that is not the main model's.
Brought(x) == IsPlace(x.at) /\ x.key.from # "main"

Shaped(x) ==
    \/ x = [provider |-> x.provider, model |-> x.model, at |-> x.at, key |-> x.key]
    \/ x = [provider |-> x.provider, at |-> x.at, key |-> x.key, mode |-> x.mode]

\* An alias brings what it stands for.
LEMMA Aliased ==
  ASSUME NEW x, Brought(x), Shaped(x)
  PROVE  Brought(Alias(x)) /\ Shaped(Alias(x))
BY DEF Alias, Brought, Shaped, IsPlace, Endpoint

\* A caller may adopt the task's endpoint and key.
LEMMA Adopted ==
  ASSUME NEW x, Shaped(x), NEW at, IsPlace(at), NEW key, key.from # "main"
  PROVE  Brought([x EXCEPT !.at = at, !.key = key])
BY DEF Brought, Shaped

\* The request a task makes.
LEMMA TaskRequest ==
  ASSUME ClientAssumption, NEW args \in Arguments, NEW task \in Tasks
  PROVE  LET r == TaskProvider(args, task)
         IN  /\ Brought(r)
             /\ r = [provider |-> r.provider, model |-> r.model, at |-> r.at, key |-> r.key, mode |-> r.mode,
                     main |-> r.main]
<1>1. PICK a0 : a0 = Alias(args)
  OBVIOUS
<1>2. PICK t : t = Alias(task)
  OBVIOUS
<1>3. Brought(a0) /\ Shaped(a0) /\ Brought(t)
  <2>1. Brought(args) /\ Shaped(args) /\ Brought(task) /\ Shaped(task)
    BY DEF ClientAssumption, Brought, Shaped
  <2> QED BY <1>1, <1>2, <2>1, Aliased
<1>4. PICK key : key = IF a0.key # NoKey THEN a0.key ELSE t.key
  OBVIOUS
<1>5. PICK a : a = IF /\ a0.provider \notin {"none", "auto"} /\ a0.at = Nowhere /\ t.at # Nowhere
                      /\ t.provider \in {"none", a0.provider}
                   THEN [a0 EXCEPT !.at = t.at, !.key = key] ELSE a0
  OBVIOUS
<1>6. Brought(a)
  <2>1. Brought([a0 EXCEPT !.at = t.at, !.key = key])
    BY <1>3, <1>4, Adopted DEF Brought
  <2> QED BY <1>3, <1>5, <2>1
<1>7. PICK p, at, key1 : /\ TaskProvider(args, task) = Request(p, args.model, at, key1, t.mode)
                        /\ IsPlace(at) /\ key1.from # "main"
  <2> DEFINE To(p, at, key1) == Request(p, args.model, at, key1, t.mode)
  <2>1. TaskProvider(args, task)
           = IF a.at # Nowhere THEN To(IF HasProfile(a.provider) THEN a.provider ELSE "custom", a.at, a.key)
             ELSE IF a.provider # "none" THEN To(a.provider, a.at, a.key)
             ELSE IF t.at # Nowhere /\ t.key # NoKey THEN To("custom", t.at, t.key)
             ELSE IF t.provider \notin {"none", "auto"} THEN To(t.provider, t.at, t.key)
             ELSE To("auto", Nowhere, NoKey)
    BY <1>1, <1>2, <1>4, <1>5 DEF TaskProvider
  <2>2. IsPlace(Nowhere) /\ NoKey.from # "main"
    BY DEF IsPlace, Nowhere, Endpoint, NoKey, Key
  <2>3. IsPlace(a.at) /\ a.key.from # "main" /\ IsPlace(t.at) /\ t.key.from # "main"
    BY <1>3, <1>6 DEF Brought
  <2> HIDE DEF To
  <2>4. \E p, at, key1 : TaskProvider(args, task) = To(p, at, key1) /\ IsPlace(at) /\ key1.from # "main"
    BY <2>1, <2>2, <2>3
  <2> QED BY <2>4 DEF To
<1> QED BY <1>7 DEF Request, Brought

\* The client of a task.
LEMMA TaskClientSound ==
  ASSUME ClientAssumption, NEW args \in Arguments, NEW task \in Tasks,
         NEW main \in Runtimes, NEW w \in Surroundings
  PROVE  LET c == TaskClient(args, task, main, w)
             q == TaskProvider(args, task)
             auto == Normalize(q.provider, w) = "auto"
         IN  /\ Sound(c, q.mode, w, Strays(auto, main, w))
             /\ auto => ChoosesTheVisible(c, w)
<1>1. PICK q : q = TaskProvider(args, task)
  OBVIOUS
<1>2. PICK r : r = [q EXCEPT !.main = main]
  OBVIOUS
<1>3. /\ r = [provider |-> r.provider, model |-> r.model, at |-> r.at, key |-> r.key, mode |-> r.mode, main |-> r.main]
      /\ Brought(r) /\ r.main = main /\ r.provider = q.provider /\ r.mode = q.mode
  BY <1>1, <1>2, TaskRequest DEF Brought
<1>4. TaskClient(args, task, main, w)
        = IF Normalize(r.provider, w) = "auto" THEN ResolveAuto(main, r.model, w) ELSE Resolve(r, w)
  BY <1>1, <1>2 DEF TaskClient
<1>5. CASE Normalize(q.provider, w) = "auto"
  <2>1. PICK c : c = ResolveAuto(main, r.model, w)
    OBVIOUS
  <2>2. PICK Astray : Astray = Strays(TRUE, main, w)
    OBVIOUS
  <2>3. Sound(c, "none", w, Astray) /\ ChoosesTheVisible(c, w)
    BY <2>1, <2>2, ResolveAutoSound
  <2>4. Sound(c, q.mode, w, Astray)
    BY <2>3 DEF Sound, SpeaksItsProtocol, Unasked
  <2>5. Sound(c, q.mode, w, Strays(Normalize(q.provider, w) = "auto", main, w))
    <3>1. (Normalize(q.provider, w) = "auto") = TRUE
      BY <1>5
    <3> QED BY <2>2, <2>4, <3>1
  <2> QED BY <1>1, <1>3, <1>4, <1>5, <2>1, <2>3, <2>5
<1>6. CASE Normalize(q.provider, w) # "auto"
  <2>1. PICK Astray : Astray = Strays(Normalize(q.provider, w) = "auto", main, w)
    OBVIOUS
  <2>2. Fitting(r, Normalize(r.provider, w), Astray)
    BY <1>3 DEF Brought, Fitting, For
  <2>3. IsPlace(r.main.at) /\ OfItsHost(r.main) /\ (Halved(w.run) => MainAt(w).host \in Astray)
    BY <1>3, <2>1 DEF ClientAssumption, Strays
  <2>4. Sound(Resolve(r, w), r.mode, w, Astray)
    BY <1>3, <2>2, <2>3, ResolveSound
  <2> QED BY <1>1, <1>3, <1>4, <1>6, <2>1, <2>4
<1> QED BY <1>5, <1>6

ClientInv ==
    question.topic = "client" =>
        /\ \E args \in Arguments, task \in Tasks, main \in Runtimes, w \in Surroundings :
              question.input = [args |-> args, task |-> task, main |-> main, w |-> w]
        /\ LET q == question.input IN answer \in {<<>>, <<TaskClient(q.args, q.task, q.main, q.w)>>}

\* A task's client is the one that is resolved for it, once
\* (get_text_auxiliary_client, agent/auxiliary_client.py 4804-4830).
THEOREM ClientInductive == DSpec => []ClientInv
<1>1. DInit => ClientInv
  BY DEF DInit, ClientInv, About
<1>2. ClientInv /\ [DNext]_dVars => ClientInv'
  <2> SUFFICES ASSUME ClientInv, [DNext]_dVars PROVE ClientInv'
    OBVIOUS
  <2>1. CASE Diagnose \/ Measure \/ Watch
    BY <2>1 DEF ClientInv, Diagnose, Measure, Watch, Asked
  <2>2. CASE ChooseClient
    BY <2>2 DEF ClientInv, ChooseClient, Asked
  <2>3. CASE UNCHANGED dVars
    BY <2>3 DEF ClientInv, dVars
  <2> QED BY <2>1, <2>2, <2>3 DEF DNext
<1> QED BY <1>1, <1>2, PTL DEF DSpec

\* For any arguments, task, main model and surroundings, the client of a side task
\* (resolve_provider_client, agent/auxiliary_client.py 4293-4803) sends the main
\* model's key to no host but the one it is for and those of the main model's own
\* two records, speaks its endpoint's protocol, and is not a hidden provider's.
THEOREM ClientIsFit == DSpec => []ClientFits
<1>1. ClientInv => ClientFits
  <2> SUFFICES ASSUME ClientInv, question.topic = "client", answer # <<>> PROVE ClientFits
    BY DEF ClientFits, Answered
  <2>1. PICK args \in Arguments, task \in Tasks, main \in Runtimes, w \in Surroundings :
          question.input = [args |-> args, task |-> task, main |-> main, w |-> w]
    BY DEF ClientInv
  <2>2. PICK c : c = TaskClient(args, task, main, w)
    OBVIOUS
  <2>3. answer[1] = c
    BY <2>1, <2>2 DEF ClientInv
  <2>4. PICK r : r = TaskProvider(args, task)
    OBVIOUS
  <2> DEFINE auto == Normalize(r.provider, w) = "auto"
  <2>5. Sound(c, r.mode, w, Strays(auto, main, w)) /\ (auto => ChoosesTheVisible(c, w))
    BY <2>2, <2>4, ClientAssumption, TaskClientSound
  <2>6. MainKeyKept(c, auto, main, w) /\ SpeaksItsProtocol(c, r.mode, w)
    BY <2>5 DEF Sound, StaysHome, MainKeyKept
  <2> QED BY <2>1, <2>3, <2>4, <2>5, <2>6 DEF ClientFits
<1> QED BY <1>1, ClientInductive, PTL
=============================================================================

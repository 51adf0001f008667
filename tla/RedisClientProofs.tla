------------------------- MODULE RedisClientProofs --------------------------
(***************************************************************************)
(* That no request dangles, that every command is counted once, and that   *)
(* the connection keeps the promise of CommandQueue, for any number of     *)
(* calls and commands.  RedisInv is the inductive invariant; it is shown   *)
(* for the initial state, for the steps that do not touch the commands     *)
(* (RedisQuiet), and for each step that does.                              *)
(***************************************************************************)
EXTENDS RedisClient, SequenceProofs, FiniteSetTheorems

----------------------------------------------------------------------------
(* The commands of a call, and callbacks.                                  *)

\* The first n commands of a call are different, and FirstSeq lists each once.
LEMMA FirstFacts ==
    ASSUME NEW c \in Calls, NEW n \in 1 .. NumCommands[c]
    PROVE  /\ FirstOf(c, n) \subseteq Block(c) /\ IsFiniteSet(FirstOf(c, n))
           /\ FirstSeq(c, n) \in Seq(Commands) /\ Len(FirstSeq(c, n)) = n
           /\ n \in Nat \ {0} /\ NumCommands[c] \in Nat \ {0}
           /\ \A i \in 1 .. n : FirstSeq(c, n)[i] \in FirstOf(c, n)
           /\ \A k \in FirstOf(c, n) : \E i \in 1 .. n : FirstSeq(c, n)[i] = k
           /\ \A i, j \in 1 .. n : FirstSeq(c, n)[i] = FirstSeq(c, n)[j] => i = j
<1> DEFINE s == FirstSeq(c, n)
<1>1. n \in Nat \ {0} /\ NumCommands[c] \in Nat \ {0}
  BY RedisAssumption
<1>2. FirstOf(c, n) \subseteq Block(c) /\ Block(c) \subseteq Commands
  BY <1>1 DEF FirstOf, Block, Commands
<1>3. /\ s = [ i \in 1 .. n |-> << c, i >> ]
      /\ \A i \in 1 .. n : s[i] = << c, i >> /\ s[i] \in FirstOf(c, n)
  BY DEF FirstSeq, FirstOf
<1>4. \A k \in FirstOf(c, n) : \E i \in 1 .. n : k = << c, i >>
  BY DEF FirstOf
<1>5. s \in Seq(Commands) /\ Len(s) = n
  <2>1. \A i \in 1 .. n : << c, i >> \in Commands
    BY <1>2, <1>3
  <2> QED BY <1>1, <1>3, <2>1
<1>6. IsFiniteSet(FirstOf(c, n))
  <2>1. IsFiniteSet(1 .. n)
    BY <1>1, FS_Interval
  <2>2. s \in Surjection(1 .. n, FirstOf(c, n))
    BY <1>3, <1>4 DEF Surjection
  <2> QED BY <2>1, <2>2, FS_Surjection
<1>7. \A k \in FirstOf(c, n) : \E i \in 1 .. n : s[i] = k
  <2> SUFFICES ASSUME NEW k \in FirstOf(c, n) PROVE \E i \in 1 .. n : s[i] = k
    OBVIOUS
  <2>1. PICK i \in 1 .. n : k = << c, i >>
    BY <1>4
  <2> QED BY <1>3, <2>1
<1>8. ASSUME NEW i \in 1 .. n, NEW j \in 1 .. n, s[i] = s[j] PROVE i = j
  <2>1. << c, i >> = << c, j >>
    BY <1>3, <1>8
  <2> QED BY <2>1
<1> HIDE DEF s
<1> QED BY <1>1, <1>2, <1>3, <1>5, <1>6, <1>7, <1>8 DEF s

\* Calls have different commands, finitely many each.
LEMMA BlockFacts ==
    /\ \A c \in Calls : Block(c) \subseteq Commands /\ IsFiniteSet(Block(c))
    /\ \A c, d \in Calls : \A k : k \in Block(c) /\ k \in Block(d) => c = d
<1>1. \A c \in Calls : Block(c) \subseteq Commands
  BY DEF Commands
<1>2. \A c, d \in Calls : \A k : k \in Block(c) /\ k \in Block(d) => c = d
  BY DEF Block, FirstOf
<1>3. ASSUME NEW c \in Calls PROVE IsFiniteSet(Block(c))
  <2>1. NumCommands[c] \in 1 .. NumCommands[c]
    BY RedisAssumption
  <2> QED BY <2>1, FirstFacts DEF Block
<1> QED BY <1>1, <1>2, <1>3

\* Calling onResult for commands that were not answered counts them once.
LEMMA OnResultCounts ==
    ASSUME RedisTypeOK, CountedOnce,
           NEW S \in SUBSET Commands, \A k \in S : outcome[k] = "none",
           NEW r \in {"reply", "timeout", "error"}, OnResult(S, r)
    PROVE  /\ CountedOnce'
           /\ numDone' \in [ Calls -> Nat ]
           /\ outcome' \in [ Commands -> {"none", "reply", "timeout", "error"} ]
<1>1. outcome' \in [ Commands -> {"none", "reply", "timeout", "error"} ]
  BY DEF OnResult, RedisTypeOK
<1>2. ASSUME NEW c \in Calls
      PROVE  /\ numDone'[c] = Cardinality({ k \in Block(c) : outcome'[k] # "none" })
             /\ numDone'[c] \in Nat
  <2> DEFINE A == { k \in Block(c) : outcome[k] # "none" }
             B == S \cap Block(c)
             C == { k \in Block(c) : outcome'[k] # "none" }
  <2>1. \A k \in Block(c) : outcome'[k] = IF k \in S THEN r ELSE outcome[k]
    BY BlockFacts DEF OnResult
  <2>2. C = A \cup B
    BY <2>1
  <2>3. A \cap B = {}
    OBVIOUS
  <2>4. IsFiniteSet(A) /\ IsFiniteSet(B)
    BY BlockFacts, FS_Subset
  <2>5. /\ Cardinality(A) \in Nat /\ Cardinality(B) \in Nat
        /\ Cardinality(C) = Cardinality(A) + Cardinality(B)
    <3>1. Cardinality(A) \in Nat /\ Cardinality(B) \in Nat
      BY <2>4, FS_CardinalityType
    <3>2. Cardinality(A \cup B) = Cardinality(A) + Cardinality(B) - Cardinality(A \cap B)
      BY <2>4, FS_Union
    <3>3. Cardinality(A \cap B) = 0
      BY <2>3, FS_EmptySet
    <3>4. Cardinality(C) = Cardinality(A \cup B)
      BY <2>2
    <3> HIDE DEF A, B, C
    <3> QED BY <3>1, <3>2, <3>3, <3>4
  <2>6. numDone'[c] = numDone[c] + Cardinality(B) /\ numDone[c] = Cardinality(A)
    BY DEF OnResult, CountedOnce
  <2> HIDE DEF A, B, C
  <2>7. numDone'[c] = Cardinality(C) /\ numDone'[c] \in Nat
    BY <2>5, <2>6
  <2> QED BY <2>7 DEF C
<1>3. numDone' = [ c \in Calls |-> numDone[c] + Cardinality(S \cap Block(c)) ]
  BY DEF OnResult
<1> QED BY <1>1, <1>2, <1>3 DEF CountedOnce

\* When every command of a call is queued or refused, none is answered.
LEMMA NoneAnswered ==
    ASSUME RedisTypeOK, UNCHANGED << outcome, numDone >>, NEW r
    PROVE  OnResult({}, r)
<1>1. \A c \in Calls : numDone[c] + Cardinality({} \cap Block(c)) = numDone[c]
  <2>1. \A c \in Calls : {} \cap Block(c) = {}
    OBVIOUS
  <2> QED BY <2>1, FS_EmptySet DEF RedisTypeOK
<1>2. outcome = [ k \in Commands |-> outcome[k] ] /\ numDone = [ c \in Calls |-> numDone[c] ]
  BY DEF RedisTypeOK
<1> QED BY <1>1, <1>2 DEF OnResult

\* What resultCallback adds to the queue are first answers, in order, and only
\* commands that were waiting change their state.
LEMMA CallbackFacts ==
    ASSUME RedisTypeOK, QueuedOnce, QueuedUnanswered,
           NEW ks \in Seq(Commands), \A a, b \in 1 .. Len(ks) : ks[a] = ks[b] => a = b,
           NEW r \in {"reply", "error"},
           \A a \in 1 .. Len(ks) : state[ks[a]] = "WAITING" =>
               /\ outcome[ks[a]] = "none"
               /\ r = "reply" => \E j \in 1 .. executed : issued[j] = ks[a],
           resultCallback(ks, r), UNCHANGED << executed, issued >>,
           \A k \in Commands : k \in Range(ks) \/ state[k] = "REPLIED" =>
               outcome'[k] = outcome[k]
    PROVE  /\ state' \in [ Commands -> {"WAITING", "REPLIED", "TIMEDOUT"} ]
           /\ replyQueue' \in Seq([ cmd : Commands, result : {"reply", "error"} ])
           /\ QueuedOnce' /\ QueuedUnanswered'
           /\ \A k \in Commands : state'[k] = "WAITING" => state[k] = "WAITING"
           /\ \A k \in Commands : k \notin Range(ks) => state'[k] = state[k]
<1> DEFINE Waiting == { k \in Commands : state[k] = "WAITING" }
           w == Only(ks, Waiting)
           new == [ i \in DOMAIN w |-> [ cmd |-> w[i], result |-> r ] ]
           Replies == [ cmd : Commands, result : {"reply", "error"} ]
<1>1. /\ w \in Seq(Commands)
      /\ \A j \in 1 .. Len(w) : w[j] \in Waiting /\ \E h \in 1 .. Len(ks) : w[j] = ks[h]
      /\ \A j, l \in 1 .. Len(w) : w[j] = w[l] => j = l
  <2>1. w \in Seq(Commands) /\ Filters(w, ks, Waiting)
    BY OnlyFilters, Zenon
  <2> HIDE DEF Waiting, w
  <2> QED BY <2>1 DEF Filters
<1>2. /\ state' = [ k \in Commands |-> IF k \in Range(w) THEN "REPLIED" ELSE state[k] ]
      /\ replyQueue' = replyQueue \o new
  BY DEF resultCallback
<1> HIDE DEF w
<1>3. DOMAIN w = 1 .. Len(w) /\ Len(w) \in Nat
  BY <1>1
<1>4. \A k : k \in Range(w) <=> \E j \in 1 .. Len(w) : w[j] = k
  BY <1>3 DEF Range
<1>5. /\ new \in Seq(Replies) /\ Len(new) = Len(w)
      /\ \A j \in 1 .. Len(w) : new[j].cmd = w[j] /\ new[j].result = r
  BY <1>1, <1>3
<1> HIDE DEF new
<1>6. /\ replyQueue \in Seq(Replies) /\ Len(replyQueue) \in Nat
      /\ DOMAIN replyQueue = 1 .. Len(replyQueue)
      /\ state \in [ Commands -> {"WAITING", "REPLIED", "TIMEDOUT"} ]
  BY DEF RedisTypeOK
<1>7. state' \in [ Commands -> {"WAITING", "REPLIED", "TIMEDOUT"} ]
  BY <1>2, <1>6
<1>8. /\ replyQueue' \in Seq(Replies)
      /\ DOMAIN replyQueue' = 1 .. Len(replyQueue) + Len(w)
      /\ \A i \in 1 .. Len(replyQueue) : replyQueue'[i] = replyQueue[i]
      /\ \A i \in 1 .. Len(w) : replyQueue'[Len(replyQueue) + i] = new[i]
  <2>1. replyQueue' = replyQueue \o new
    BY <1>2
  <2> HIDE DEF Replies
  <2>2. new \in Seq(Replies) /\ replyQueue \in Seq(Replies) /\ Len(new) = Len(w)
    BY <1>5, <1>6
  <2>3. replyQueue' \in Seq(Replies) /\ Joins(replyQueue', replyQueue, new)
    BY <2>1, <2>2, Joined, Zenon
  <2> QED BY <2>2, <2>3 DEF Joins
<1>9. \A i \in DOMAIN replyQueue' :
         \/ i \in 1 .. Len(replyQueue) /\ replyQueue'[i] = replyQueue[i]
         \/ \E j \in 1 .. Len(w) : /\ i = Len(replyQueue) + j
                                   /\ replyQueue'[i].cmd = w[j]
                                   /\ replyQueue'[i].result = r
  <2> SUFFICES ASSUME NEW i \in DOMAIN replyQueue', i \notin 1 .. Len(replyQueue)
               PROVE  \E j \in 1 .. Len(w) : /\ i = Len(replyQueue) + j
                                   /\ replyQueue'[i].cmd = w[j]
                                   /\ replyQueue'[i].result = r
    BY <1>8
  <2>1. i - Len(replyQueue) \in 1 .. Len(w) /\ i = Len(replyQueue) + (i - Len(replyQueue))
    BY <1>3, <1>6, <1>8
  <2>2. replyQueue'[Len(replyQueue) + (i - Len(replyQueue))] = new[i - Len(replyQueue)]
    BY <1>8, <2>1
  <2>3. /\ new[i - Len(replyQueue)].cmd = w[i - Len(replyQueue)]
        /\ new[i - Len(replyQueue)].result = r
    BY <1>5, <2>1
  <2> QED BY <2>1, <2>2, <2>3
<1>10. \A i \in 1 .. Len(replyQueue) : /\ state[replyQueue[i].cmd] = "REPLIED"
                                      /\ replyQueue[i].cmd \in Commands
                                      /\ replyQueue[i].cmd \notin Range(w)
  <2> SUFFICES ASSUME NEW i \in 1 .. Len(replyQueue)
               PROVE  /\ state[replyQueue[i].cmd] = "REPLIED"
                      /\ replyQueue[i].cmd \in Commands
                      /\ replyQueue[i].cmd \notin Range(w)
    OBVIOUS
  <2>1. state[replyQueue[i].cmd] = "REPLIED"
    BY <1>6 DEF QueuedUnanswered
  <2>2. replyQueue[i] \in Replies
    <3> HIDE DEF Replies
    <3> QED BY <1>6
  <2>3. \A k \in Range(w) : state[k] = "WAITING"
    BY <1>1, <1>4
  <2> QED BY <2>1, <2>2, <2>3
<1>11. QueuedOnce'
  <2> SUFFICES ASSUME NEW i \in DOMAIN replyQueue', NEW j \in DOMAIN replyQueue',
                      replyQueue'[i].cmd = replyQueue'[j].cmd
               PROVE  i = j
    BY DEF QueuedOnce
  <2>1. CASE i \in 1 .. Len(replyQueue) /\ j \in 1 .. Len(replyQueue)
    BY <1>6, <1>8, <2>1 DEF QueuedOnce
  <2>2. CASE ~(i \in 1 .. Len(replyQueue) /\ j \in 1 .. Len(replyQueue))
    <3>1. \A h \in DOMAIN replyQueue' : h \in 1 .. Len(replyQueue) =>
             replyQueue'[h].cmd \notin Range(w)
      BY <1>8, <1>10
    <3>2. \A h \in DOMAIN replyQueue' : h \notin 1 .. Len(replyQueue) =>
             replyQueue'[h].cmd \in Range(w)
      BY <1>4, <1>9
    <3>3. i \notin 1 .. Len(replyQueue) /\ j \notin 1 .. Len(replyQueue)
      BY <2>2, <3>1, <3>2
    <3>4. PICK a \in 1 .. Len(w) : i = Len(replyQueue) + a /\ replyQueue'[i].cmd = w[a]
      BY <1>9, <3>3
    <3>5. PICK b \in 1 .. Len(w) : j = Len(replyQueue) + b /\ replyQueue'[j].cmd = w[b]
      BY <1>9, <3>3
    <3>6. w[a] = w[b]
      BY <3>4, <3>5
    <3>7. a = b
      BY <1>1, <3>6
    <3> QED BY <3>4, <3>5, <3>7
  <2> QED BY <2>1, <2>2
<1>12. QueuedUnanswered'
  <2> SUFFICES ASSUME NEW i \in DOMAIN replyQueue'
               PROVE  /\ state'[replyQueue'[i].cmd] = "REPLIED"
                      /\ outcome'[replyQueue'[i].cmd] = "none"
                      /\ replyQueue'[i].result = "reply" =>
                            \E j \in 1 .. executed : issued[j] = replyQueue'[i].cmd
    BY DEF QueuedUnanswered
  <2>1. CASE i \in 1 .. Len(replyQueue)
    <3>1. replyQueue'[i] = replyQueue[i]
      BY <1>8, <2>1
    <3>2. state'[replyQueue[i].cmd] = "REPLIED"
      BY <1>2, <1>10, <2>1
    <3>3. outcome'[replyQueue[i].cmd] = outcome[replyQueue[i].cmd]
      BY <1>10, <2>1
    <3> QED BY <1>6, <2>1, <3>1, <3>2, <3>3 DEF QueuedUnanswered
  <2>2. CASE i \notin 1 .. Len(replyQueue)
    <3>1. PICK j \in 1 .. Len(w) : replyQueue'[i].cmd = w[j] /\ replyQueue'[i].result = r
      BY <1>9, <2>2
    <3>2. w[j] \in Range(w) /\ w[j] \in Commands /\ state[w[j]] = "WAITING"
      BY <1>1, <1>4
    <3>3. PICK h \in 1 .. Len(ks) : w[j] = ks[h]
      BY <1>1
    <3>4. outcome'[w[j]] = outcome[w[j]]
      <4>1. h \in DOMAIN ks
        OBVIOUS
      <4>2. w[j] \in Range(ks)
        BY <3>3, <4>1 DEF Range
      <4> QED BY <3>2, <4>2
    <3> QED BY <1>2, <3>1, <3>2, <3>3, <3>4
  <2> QED BY <2>1, <2>2
<1>13. \A k \in Commands : k \notin Range(ks) => k \notin Range(w)
  BY <1>1, <1>4 DEF Range
<1> QED BY <1>2, <1>7, <1>8, <1>11, <1>12, <1>13

----------------------------------------------------------------------------

(* The inductive invariant.                                                *)

\* The connection starts without commands.
LEMMA RedisInitially == Init => RedisInv
<1> SUFFICES ASSUME Init PROVE RedisInv
  OBVIOUS
<1>1. RedisTypeOK
  BY RedisAssumption DEF Init, RedisTypeOK
<1>2. Range(issued) = {} /\ Outstanding = {}
  BY DEF Init, Range, Outstanding
<1>3. CountedOnce
  <2>1. ASSUME NEW c \in Calls PROVE { k \in Block(c) : outcome[k] # "none" } = {}
    BY BlockFacts DEF Init
  <2> QED BY <2>1, FS_EmptySet DEF Init, CountedOnce
<1>4. OnlyQueuedKnown
  BY <1>2, BlockFacts DEF Init, OnlyQueuedKnown, Untouched
<1> QED BY <1>1, <1>2, <1>3, <1>4
        DEF RedisInv, Init, FreedForGood, IsInjective, QueuedOnce, QueuedUnanswered,
            WaitingUnanswered, NothingDangles

\* Steps that leave alone what callers and hiredis know of the commands.
LEMMA QuietStep ==
    ASSUME RedisInv, RedisTypeOK', FreedForGood',
           UNCHANGED << tables, replyQueue, outcome, numDone, issued, called >>,
           executed <= executed',
           \A c \in Calls : caller'[c] # "queued" => caller[c] # "queued",
           context' # "freed" => context # "freed"
    PROVE  RedisInv'
<1>1. OnlyQueuedKnown' /\ IsInjective(issued')
  BY DEF RedisInv, OnlyQueuedKnown, Untouched, Range, IsInjective, tables
<1>2. QueuedOnce' /\ WaitingUnanswered'
  BY DEF RedisInv, QueuedOnce, WaitingUnanswered, Range, tables
<1>3. QueuedUnanswered'
  <2> SUFFICES ASSUME NEW a \in DOMAIN replyQueue
               PROVE  /\ state[replyQueue[a].cmd] = "REPLIED"
                      /\ outcome[replyQueue[a].cmd] = "none"
                      /\ replyQueue[a].result = "reply" =>
                            \E j \in 1 .. executed' : issued[j] = replyQueue[a].cmd
    BY DEF QueuedUnanswered, tables
  <2>1. \A j \in 1 .. executed : j \in 1 .. executed'
    BY DEF RedisInv, RedisTypeOK
  <2> QED BY <2>1 DEF RedisInv, QueuedUnanswered
<1>4. NothingDangles' /\ CountedOnce'
  BY DEF RedisInv, NothingDangles, Outstanding, CountedOnce, tables
<1> QED BY <1>1, <1>2, <1>3, <1>4 DEF RedisInv

\* These steps change only the loop, the connection or redis.
LEMMA RedisQuiet ==
    ASSUME RedisInv,
           \/ \E c \in Calls : queueThrows(c) \/ queueCrashes(c) \/ TimePasses(c)
           \/ HandleWrite \/ HangUp \/ CallbacksDone \/ LeaveLoop
           \/ close \/ CloseReturns \/ Execute
           \/ \E how \in PeerFaults : PeerFails(how)
    PROVE  RedisInv'
<1> USE DEF RedisInv, RedisTypeOK, FreedForGood
<1>1. ASSUME NEW c \in Calls, queueThrows(c) PROVE RedisInv'
  BY <1>1, QuietStep DEF queueThrows, Call, hiredis, server, tables
<1>2. ASSUME NEW c \in Calls, queueCrashes(c) PROVE RedisInv'
  BY <1>2, QuietStep DEF queueCrashes, Call, hiredis, server, tables
<1>3. ASSUME NEW c \in Calls, TimePasses(c) PROVE RedisInv'
  BY <1>3, QuietStep DEF TimePasses, hiredis, server, tables
<1>4. CASE HandleWrite
  <2>1. context # "freed" /\ FreedForGood'
    BY <1>4 DEF HandleWrite
  <2>2. RedisTypeOK'
    <3>1. written' \in 0 .. Len(issued') /\ executed' \in 0 .. written'
      BY <1>4 DEF HandleWrite, LoopStep, server
    <3>2. disconnected' \in BOOLEAN
      BY <1>4 DEF HandleWrite
    <3> QED BY <1>4, <3>1, <3>2 DEF HandleWrite, LoopStep, server, tables
  <2> HIDE DEF RedisInv, RedisTypeOK, FreedForGood
  <2>3. executed <= executed'
    BY <1>4 DEF HandleWrite, LoopStep, server, RedisInv, RedisTypeOK
  <2> QED BY <1>4, <2>1, <2>2, <2>3, QuietStep DEF HandleWrite, LoopStep, server, tables
<1>5. CASE HangUp
  BY <1>5, QuietStep DEF HangUp, LoopStep, server, tables
<1>6. CASE CallbacksDone
  BY <1>6, QuietStep DEF CallbacksDone, LoopStep, server, tables
<1>7. CASE LeaveLoop
  <2>1. /\ context' # "freed" => context # "freed"
        /\ FreedForGood'
    BY <1>7 DEF LeaveLoop
  <2>2. RedisTypeOK' /\ executed <= executed'
    <3>1. /\ loop' \in {"poll", "callbacks", "disconnect", "ended", "crashed"}
          /\ context' \in {"connecting", "connected", "disconnecting", "freed"}
          /\ disconnected' \in BOOLEAN
      BY <1>7 DEF LeaveLoop
    <3> QED BY <1>7, <3>1 DEF LeaveLoop, LoopStep, server, tables
  <2> HIDE DEF RedisInv, RedisTypeOK, FreedForGood
  <2> QED BY <1>7, <2>1, <2>2, QuietStep DEF LeaveLoop, LoopStep, server, tables
<1>8. CASE close \/ CloseReturns
  BY <1>8, QuietStep DEF close, CloseReturns, hiredis, server, tables
<1>9. CASE Execute
  BY <1>9, QuietStep DEF Execute, hiredis, server, tables
<1>10. ASSUME NEW how \in PeerFaults, PeerFails(how) PROVE RedisInv'
  BY <1>10, QuietStep, RedisAssumption DEF PeerFails, hiredis, server, tables
<1> QED BY <1>1, <1>2, <1>3, <1>4, <1>5, <1>6, <1>7, <1>8, <1>9, <1>10

\* What the proofs about single steps use of the invariant.
LEMMA CommandFacts ==
    ASSUME RedisInv
    PROVE  /\ issued \in Seq(Commands) /\ Len(issued) \in Nat /\ DOMAIN issued = 1 .. Len(issued)
           /\ \A k : k \in Range(issued) <=> \E a \in 1 .. Len(issued) : issued[a] = k
           /\ Range(issued) \subseteq Commands
           /\ \A a, b \in 1 .. Len(issued) : issued[a] = issued[b] => a = b
           /\ timeouts \subseteq requests
           /\ \A c \in Calls : caller[c] # "queued" => \A k \in Block(c) :
                 /\ k \notin requests /\ k \notin Range(issued) /\ k \notin timeouts
                 /\ state[k] = "WAITING" /\ outcome[k] = "none"
<1>1. issued \in Seq(Commands) /\ Len(issued) \in Nat /\ DOMAIN issued = 1 .. Len(issued)
  BY DEF RedisInv, RedisTypeOK
<1>2. \A k : k \in Range(issued) <=> \E a \in 1 .. Len(issued) : issued[a] = k
  BY <1>1 DEF Range
<1>3. \A a \in 1 .. Len(issued) : issued[a] \in Commands
  BY <1>1
<1>4. Range(issued) \subseteq Commands
  BY <1>2, <1>3
<1>5. \A a, b \in 1 .. Len(issued) : issued[a] = issued[b] => a = b
  BY <1>1 DEF RedisInv, IsInjective
<1>6. timeouts \subseteq requests
  BY DEF RedisInv, NothingDangles
<1> QED BY <1>1, <1>2, <1>4, <1>5, <1>6 DEF RedisInv, OnlyQueuedKnown, Untouched

\* What the queue of replies holds.
LEMMA QueueFacts ==
    ASSUME RedisInv
    PROVE  \A a \in DOMAIN replyQueue : /\ state[replyQueue[a].cmd] = "REPLIED"
                                        /\ replyQueue[a].cmd \in Commands
                                        /\ replyQueue[a].result \in {"reply", "error"}
<1> DEFINE Replies == [ cmd : Commands, result : {"reply", "error"} ]
<1>1. replyQueue \in Seq(Replies)
  BY DEF RedisInv, RedisTypeOK
<1>2. \A a \in DOMAIN replyQueue : replyQueue[a] \in Replies
  <2> HIDE DEF Replies
  <2> QED BY <1>1
<1>3. \A a \in DOMAIN replyQueue : state[replyQueue[a].cmd] = "REPLIED"
  BY DEF RedisInv, QueuedUnanswered
<1> QED BY <1>2, <1>3

\* The first commands of a call, or all, come after the old ones, and all are
\* new; those that are too late are answered (queue, queuePartly).
LEMMA QueuedFirst ==
    ASSUME RedisInv, NEW c \in Calls, NEW n \in 1 .. NumCommands[c],
           caller[c] = "idle", caller' = [ caller EXCEPT ![c] = "queued" ],
           issued' = issued \o FirstSeq(c, n),
           requests' = requests \cup FirstOf(c, n),
           timeouts' \in { timeouts, timeouts \cup FirstOf(c, n) },
           OnResult(Block(c) \ FirstOf(c, n), "timeout"),
           expired' \subseteq WithTimeout,
           UNCHANGED << state, replyQueue, loop, disconnected, closing, executed, peer,
                        context, written, called >>
    PROVE  RedisInv'
<1> DEFINE s == FirstSeq(c, n)
           B == FirstOf(c, n)
           late == Block(c) \ FirstOf(c, n)
<1>1. /\ issued' = issued \o s
      /\ requests' = requests \cup B
      /\ timeouts' = timeouts \/ timeouts' = timeouts \cup B
  OBVIOUS
<1>2. /\ s \in Seq(Commands) /\ issued \in Seq(Commands)
      /\ Len(issued) \in Nat /\ Len(s) \in Nat
      /\ \A a \in 1 .. Len(s) : s[a] \in B
      /\ \A k \in B : \E a \in 1 .. Len(s) : s[a] = k
      /\ \A a, b \in 1 .. Len(s) : s[a] = s[b] => a = b
      /\ B \subseteq Block(c) /\ Block(c) \subseteq Commands
  <2>1. /\ s \in Seq(Commands) /\ Len(s) = n /\ n \in Nat
        /\ \A a \in 1 .. n : s[a] \in B
        /\ \A k \in B : \E a \in 1 .. n : s[a] = k
        /\ \A a, b \in 1 .. n : s[a] = s[b] => a = b
        /\ B \subseteq Block(c)
    BY FirstFacts
  <2>2. issued \in Seq(Commands) /\ Len(issued) \in Nat
    BY CommandFacts
  <2> HIDE DEF s, B
  <2> QED BY <2>1, <2>2, BlockFacts
<1>20. late \subseteq Block(c) /\ B \cap late = {} /\ OnResult(late, "timeout")
  OBVIOUS
<1> HIDE DEF s, B, late
<1>3. issued' \in Seq(Commands) /\ Joins(issued', issued, s)
  <2>1. issued' = issued \o s /\ s \in Seq(Commands) /\ issued \in Seq(Commands)
    BY <1>1, <1>2
  <2> QED BY <2>1, Joined, Zenon
<1>4. /\ Len(issued') = Len(issued) + Len(s) /\ DOMAIN issued' = 1 .. Len(issued')
      /\ \A a \in 1 .. Len(issued) : issued'[a] = issued[a]
      /\ \A a \in 1 .. Len(s) : issued'[Len(issued) + a] = s[a]
      /\ \A a \in 1 .. Len(issued') : \/ a \in 1 .. Len(issued)
                                      \/ \E b \in 1 .. Len(s) : a = Len(issued) + b
  BY <1>3 DEF Joins
<1>5. \A k \in Block(c) : /\ k \notin requests /\ k \notin Range(issued) /\ k \notin timeouts
                          /\ state[k] = "WAITING" /\ outcome[k] = "none"
  BY CommandFacts
<1>50. /\ CountedOnce'
       /\ numDone' \in [ Calls -> Nat ]
       /\ outcome' \in [ Commands -> {"none", "reply", "timeout", "error"} ]
       /\ \A k \in Commands : k \notin late => outcome'[k] = outcome[k]
  <2>1. late \in SUBSET Commands /\ \A k \in late : outcome[k] = "none"
    BY <1>2, <1>5, <1>20
  <2>2. \A k \in Commands : k \notin late => outcome'[k] = outcome[k]
    BY <1>20 DEF OnResult
  <2> QED BY <1>20, <2>1, <2>2, OnResultCounts DEF RedisInv
<1>6. \A k : k \in Range(issued') <=> k \in Range(issued) \cup B
  <2>1. ASSUME NEW k, k \in Range(issued') PROVE k \in Range(issued) \cup B
    <3>1. PICK a \in 1 .. Len(issued') : issued'[a] = k
      BY <1>4, <2>1 DEF Range
    <3>2. CASE a \in 1 .. Len(issued)
      BY <1>4, <3>1, <3>2, CommandFacts
    <3>3. ASSUME NEW b \in 1 .. Len(s), a = Len(issued) + b PROVE k \in B
      <4>1. issued'[a] = s[b]
        BY <1>4, <3>3
      <4>2. s[b] \in B
        BY <1>2, <3>3
      <4> QED BY <3>1, <4>1, <4>2
    <3> QED BY <1>4, <3>2, <3>3
  <2>2. ASSUME NEW k \in Range(issued) PROVE k \in Range(issued')
    <3>1. PICK a \in 1 .. Len(issued) : issued[a] = k
      BY CommandFacts
    <3>2. a \in 1 .. Len(issued') /\ issued'[a] = k
      BY <1>2, <1>4, <3>1
    <3> QED BY <1>4, <3>2 DEF Range
  <2>3. ASSUME NEW k \in B PROVE k \in Range(issued')
    <3>1. PICK a \in 1 .. Len(s) : s[a] = k
      BY <1>2
    <3>2. Len(issued) + a \in 1 .. Len(issued')
      BY <1>2, <1>4
    <3>3. issued'[Len(issued) + a] = k
      BY <1>4, <3>1
    <3> QED BY <1>4, <3>2, <3>3 DEF Range
  <2> QED BY <2>1, <2>2, <2>3
<1>7. RedisTypeOK'
  <2>1. written' \in 0 .. Len(issued') /\ called' \in 0 .. Len(issued') /\ executed' \in 0 .. written'
    BY <1>1, <1>2, <1>4 DEF RedisInv, RedisTypeOK
  <2>2. requests' \subseteq Commands /\ timeouts' \subseteq Commands
    BY <1>1, <1>2 DEF RedisInv, RedisTypeOK
  <2> QED BY <1>3, <1>50, <2>1, <2>2 DEF RedisInv, RedisTypeOK
<1>8. IsInjective(issued')
  <2> SUFFICES ASSUME NEW a \in 1 .. Len(issued'), NEW b \in 1 .. Len(issued'),
                      issued'[a] = issued'[b]
               PROVE  a = b
    BY <1>4 DEF IsInjective
  <2>1. /\ \A e \in 1 .. Len(issued) :
              issued'[e] \in Range(issued) /\ issued'[e] = issued[e]
        /\ \A e \in 1 .. Len(issued') : e \notin 1 .. Len(issued) =>
              issued'[e] \in B
    <3>1. \A e \in 1 .. Len(issued) :
              issued'[e] \in Range(issued) /\ issued'[e] = issued[e]
      BY <1>4, CommandFacts
    <3>2. ASSUME NEW e \in 1 .. Len(issued'), e \notin 1 .. Len(issued)
          PROVE  issued'[e] \in B
      <4>1. PICK f \in 1 .. Len(s) : e = Len(issued) + f
        BY <1>4, <3>2
      <4> QED BY <1>2, <1>4, <4>1
    <3> QED BY <3>1, <3>2
  <2>2. CASE a \in 1 .. Len(issued) /\ b \in 1 .. Len(issued)
    BY <2>1, <2>2, CommandFacts
  <2>3. CASE a \notin 1 .. Len(issued) /\ b \notin 1 .. Len(issued)
    <3>1. PICK e \in 1 .. Len(s) : a = Len(issued) + e
      BY <1>4, <2>3
    <3>2. PICK f \in 1 .. Len(s) : b = Len(issued) + f
      BY <1>4, <2>3
    <3>3. s[e] = s[f]
      BY <1>4, <3>1, <3>2
    <3> QED BY <1>2, <3>1, <3>2, <3>3
  <2> QED BY <1>2, <1>5, <2>1, <2>2, <2>3
<1>9. OnlyQueuedKnown'
  <2> SUFFICES ASSUME NEW d \in Calls, caller'[d] # "queued", NEW k \in Block(d)
               PROVE  Untouched(k)'
    BY DEF OnlyQueuedKnown
  <2>1. d # c /\ caller[d] # "queued"
    BY <1>1 DEF RedisInv, RedisTypeOK
  <2>2. k \notin Block(c) /\ k \in Commands
    BY <2>1, BlockFacts
  <2>3. Untouched(k)
    BY <2>1 DEF RedisInv, OnlyQueuedKnown
  <2>4. outcome'[k] = outcome[k]
    BY <1>20, <1>50, <2>2
  <2> QED BY <1>1, <1>2, <1>6, <2>2, <2>3, <2>4 DEF Untouched
<1>10. QueuedOnce' /\ FreedForGood'
  BY DEF RedisInv, QueuedOnce, FreedForGood
<1>11. QueuedUnanswered'
  <2>1. executed \in 0 .. Len(issued)
    BY DEF RedisInv, RedisTypeOK
  <2>2. \A j \in 1 .. executed : issued'[j] = issued[j]
    BY <1>2, <1>4, <2>1
  <2> SUFFICES ASSUME NEW a \in DOMAIN replyQueue
               PROVE  /\ state[replyQueue[a].cmd] = "REPLIED"
                      /\ outcome'[replyQueue[a].cmd] = "none"
                      /\ replyQueue[a].result = "reply" =>
                            \E j \in 1 .. executed : issued'[j] = replyQueue[a].cmd
    BY DEF QueuedUnanswered
  <2>3. outcome'[replyQueue[a].cmd] = outcome[replyQueue[a].cmd]
    BY <1>5, <1>20, <1>50, QueueFacts
  <2> QED BY <2>2, <2>3 DEF RedisInv, QueuedUnanswered
<1>12. WaitingUnanswered'
  <2>1. timeouts \subseteq Commands /\ Range(issued) \subseteq Commands
    BY CommandFacts DEF RedisInv, RedisTypeOK
  <2>2. \A k \in timeouts \cup Range(issued) \cup B :
            k \in Commands /\ outcome'[k] = outcome[k]
    BY <1>2, <1>5, <1>20, <1>50, <2>1
  <2>3. \A k \in timeouts' : state[k] = "WAITING" /\ outcome'[k] = "none"
    BY <1>1, <1>2, <1>5, <2>2 DEF RedisInv, WaitingUnanswered
  <2>4. \A k \in Range(issued') : state[k] = "WAITING" => outcome'[k] = "none"
    BY <1>2, <1>5, <1>6, <2>2 DEF RedisInv, WaitingUnanswered
  <2> QED BY <2>3, <2>4 DEF WaitingUnanswered
<1>13. NothingDangles'
  <2>1. ASSUME context # "freed", NEW a \in called + 1 .. Len(issued')
        PROVE  issued'[a] \in requests'
    <3>1. a \in 1 .. Len(issued')
      BY <1>1, <1>2, <1>4 DEF RedisInv, RedisTypeOK
    <3>2. CASE a \in 1 .. Len(issued)
      <4>1. issued[a] \in Outstanding
        BY <2>1, <3>2 DEF Outstanding, RedisInv, RedisTypeOK
      <4> QED BY <1>1, <1>4, <2>1, <3>2, <4>1 DEF RedisInv, NothingDangles
    <3>3. CASE a \notin 1 .. Len(issued)
      <4>1. PICK b \in 1 .. Len(s) : a = Len(issued) + b
        BY <1>4, <3>1, <3>3
      <4>2. issued'[a] \in B
        BY <1>2, <1>4, <4>1
      <4> QED BY <1>1, <4>2
    <3> QED BY <3>2, <3>3
  <2>2. timeouts' \subseteq requests'
    BY <1>1, CommandFacts
  <2> QED BY <1>1, <2>1, <2>2 DEF NothingDangles, Outstanding
<1> QED BY <1>7, <1>8, <1>9, <1>10, <1>11, <1>12, <1>13, <1>50 DEF RedisInv

\* queue and queuePartly.
LEMMA RedisQueue ==
    ASSUME RedisInv, NEW c \in Calls, queue(c) \/ queuePartly(c)
    PROVE  RedisInv'
<1>1. CASE queue(c)
  <2>1. /\ NumCommands[c] \in 1 .. NumCommands[c]
        /\ Block(c) = FirstOf(c, NumCommands[c])
        /\ Block(c) \ FirstOf(c, NumCommands[c]) = {}
    BY RedisAssumption DEF Block
  <2>2. OnResult(Block(c) \ FirstOf(c, NumCommands[c]), "timeout")
    BY <1>1, <2>1, NoneAnswered DEF queue, RedisInv
  <2> QED BY <1>1, <2>1, <2>2, QueuedFirst
          DEF queue, Call, server, BlockSeq, RedisInv, RedisTypeOK
<1>2. CASE queuePartly(c)
  <2>1. PICK n \in 1 .. NumCommands[c] - 1 :
            /\ requests' = requests \cup FirstOf(c, n)
            /\ timeouts' = timeouts \cup FirstOf(c, n)
            /\ issued' = issued \o FirstSeq(c, n)
            /\ OnResult(Block(c) \ FirstOf(c, n), "timeout")
    BY <1>2 DEF queuePartly
  <2>2. n \in 1 .. NumCommands[c]
    BY RedisAssumption
  <2>3. expired' \subseteq WithTimeout
    BY <1>2 DEF queuePartly, CallOverrun, RedisInv, RedisTypeOK
  <2> QED BY <1>2, <2>1, <2>2, <2>3, QueuedFirst DEF queuePartly, CallOverrun, server
<1> QED BY <1>1, <1>2

\* Commands that are too late are answered and never queued.
LEMMA RedisTooLate ==
    ASSUME RedisInv, NEW c \in Calls, queueTooLate(c)
    PROVE  RedisInv'
<1>1. /\ OnResult(Block(c), "timeout")
      /\ caller' = [ caller EXCEPT ![c] = "queued" ] /\ caller[c] = "idle"
      /\ UNCHANGED << expired, requests, timeouts, state, replyQueue, loop, disconnected,
                      closing, issued, executed, peer, context, written, called >>
  BY DEF queueTooLate, Call, server, tables
<1>2. \A k \in Block(c) : /\ k \notin requests /\ k \notin Range(issued) /\ k \notin timeouts
                          /\ state[k] = "WAITING" /\ outcome[k] = "none"
  BY <1>1, CommandFacts
<1>3. /\ CountedOnce'
      /\ numDone' \in [ Calls -> Nat ]
      /\ outcome' \in [ Commands -> {"none", "reply", "timeout", "error"} ]
  BY <1>1, <1>2, BlockFacts, OnResultCounts DEF RedisInv
<1>4. \A k \in Commands : k \notin Block(c) => outcome'[k] = outcome[k]
  BY <1>1 DEF OnResult
<1>5. RedisTypeOK'
  BY <1>1, <1>3 DEF RedisInv, RedisTypeOK
<1>6. OnlyQueuedKnown'
  <2> SUFFICES ASSUME NEW d \in Calls, caller'[d] # "queued", NEW k \in Block(d)
               PROVE  Untouched(k)'
    BY DEF OnlyQueuedKnown
  <2>1. d # c /\ caller[d] # "queued"
    BY <1>1 DEF RedisInv, RedisTypeOK
  <2>2. k \notin Block(c) /\ k \in Commands
    BY <2>1, BlockFacts
  <2>3. Untouched(k)
    BY <2>1 DEF RedisInv, OnlyQueuedKnown
  <2> QED BY <1>1, <1>4, <2>2, <2>3 DEF Untouched
<1>7. /\ FreedForGood' /\ IsInjective(issued') /\ QueuedOnce' /\ NothingDangles'
  BY <1>1 DEF RedisInv, FreedForGood, IsInjective, QueuedOnce, NothingDangles, Outstanding
<1>8. QueuedUnanswered'
  <2>1. \A a \in DOMAIN replyQueue : /\ state[replyQueue[a].cmd] = "REPLIED"
                                    /\ replyQueue[a].cmd \in Commands
    BY QueueFacts
  <2>2. \A a \in DOMAIN replyQueue : outcome'[replyQueue[a].cmd] = outcome[replyQueue[a].cmd]
    BY <1>2, <1>4, <2>1
  <2> QED BY <1>1, <2>2 DEF RedisInv, QueuedUnanswered
<1>9. WaitingUnanswered'
  <2>1. timeouts \subseteq Commands /\ Range(issued) \subseteq Commands
    BY CommandFacts DEF RedisInv, RedisTypeOK
  <2> QED BY <1>1, <1>2, <1>4, <2>1 DEF RedisInv, WaitingUnanswered
<1> QED BY <1>3, <1>5, <1>6, <1>7, <1>8, <1>9 DEF RedisInv

\* The first commands of a call, or all, are refused by hiredis and answered
\* later; those that are too late are answered at once.  None is queued.
LEMMA RefusedFirst ==
    ASSUME RedisInv, NEW c \in Calls, NEW n \in 1 .. NumCommands[c],
           caller[c] = "idle", caller' = [ caller EXCEPT ![c] = "queued" ],
           resultCallback(FirstSeq(c, n), "error"),
           OnResult(Block(c) \ FirstOf(c, n), "timeout"),
           expired' \subseteq WithTimeout,
           UNCHANGED << loop, disconnected, closing, issued, executed, peer, context,
                        written, called >>
    PROVE  RedisInv'
<1> DEFINE s == FirstSeq(c, n)
           late == Block(c) \ FirstOf(c, n)
<1>1. /\ resultCallback(s, "error") /\ OnResult(late, "timeout")
      /\ requests' = requests \ Range(s) /\ timeouts' = timeouts \ Range(s)
  BY DEF resultCallback
<1>2. /\ s \in Seq(Commands) /\ \A a, b \in 1 .. Len(s) : s[a] = s[b] => a = b
      /\ Range(s) \subseteq Block(c) /\ Range(s) \cap late = {}
      /\ late \subseteq Block(c) /\ Block(c) \subseteq Commands
      /\ \A a \in 1 .. Len(s) : s[a] \in Block(c)
  <2>1. /\ s \in Seq(Commands) /\ Len(s) = n /\ n \in Nat
        /\ \A a \in 1 .. n : s[a] \in FirstOf(c, n)
        /\ \A a, b \in 1 .. n : s[a] = s[b] => a = b
        /\ FirstOf(c, n) \subseteq Block(c) /\ Block(c) \subseteq Commands
    BY FirstFacts, BlockFacts
  <2> HIDE DEF s
  <2>2. DOMAIN s = 1 .. n
    BY <2>1
  <2>3. Range(s) \subseteq FirstOf(c, n)
    BY <2>1, <2>2 DEF Range
  <2> QED BY <2>1, <2>3
<1> HIDE DEF s, late
<1>3. \A k \in Block(c) : /\ k \notin requests /\ k \notin Range(issued) /\ k \notin timeouts
                          /\ state[k] = "WAITING" /\ outcome[k] = "none"
  BY CommandFacts
<1>30. /\ CountedOnce'
       /\ numDone' \in [ Calls -> Nat ]
       /\ outcome' \in [ Commands -> {"none", "reply", "timeout", "error"} ]
       /\ \A k \in Commands : k \notin late => outcome'[k] = outcome[k]
  <2>1. late \in SUBSET Commands /\ \A k \in late : outcome[k] = "none"
    BY <1>2, <1>3
  <2>2. \A k \in Commands : k \notin late => outcome'[k] = outcome[k]
    BY <1>1 DEF OnResult
  <2> QED BY <1>1, <2>1, <2>2, OnResultCounts DEF RedisInv
<1>4. /\ state' \in [ Commands -> {"WAITING", "REPLIED", "TIMEDOUT"} ]
      /\ replyQueue' \in Seq([ cmd : Commands, result : {"reply", "error"} ])
      /\ QueuedOnce' /\ QueuedUnanswered'
      /\ \A k \in Commands : state'[k] = "WAITING" => state[k] = "WAITING"
      /\ \A k \in Commands : k \notin Range(s) => state'[k] = state[k]
  <2>1. \A a \in 1 .. Len(s) : state[s[a]] = "WAITING" =>
               /\ outcome[s[a]] = "none"
               /\ "error" = "reply" => \E j \in 1 .. executed : issued[j] = s[a]
    BY <1>2, <1>3
  <2>2. \A k \in Commands : k \in Range(s) \/ state[k] = "REPLIED" =>
               outcome'[k] = outcome[k]
    BY <1>2, <1>3, <1>30
  <2> QED BY <1>1, <1>2, <2>1, <2>2, CallbackFacts DEF RedisInv
<1>5. RedisTypeOK'
  BY <1>1, <1>4, <1>30 DEF RedisInv, RedisTypeOK
<1>6. OnlyQueuedKnown'
  <2> SUFFICES ASSUME NEW d \in Calls, caller'[d] # "queued", NEW k \in Block(d)
               PROVE  Untouched(k)'
    BY DEF OnlyQueuedKnown
  <2>1. d # c /\ caller[d] # "queued"
    BY <1>1 DEF RedisInv, RedisTypeOK
  <2>2. k \notin Block(c) /\ k \in Commands
    BY <2>1, BlockFacts
  <2>3. Untouched(k)
    BY <2>1 DEF RedisInv, OnlyQueuedKnown
  <2>4. outcome'[k] = outcome[k] /\ state'[k] = state[k]
    BY <1>2, <1>4, <1>30, <2>2
  <2> QED BY <1>1, <2>3, <2>4 DEF Untouched
<1>7. FreedForGood' /\ IsInjective(issued')
  BY DEF RedisInv, FreedForGood, IsInjective
<1>8. NothingDangles'
  <2>1. Range(s) \cap requests = {} /\ Range(s) \cap timeouts = {}
    BY <1>2, <1>3
  <2>2. requests' = requests /\ timeouts' = timeouts
    BY <1>1, <2>1
  <2> QED BY <1>1, <2>2 DEF RedisInv, NothingDangles, Outstanding
<1>9. WaitingUnanswered'
  <2>1. timeouts \subseteq Commands /\ Range(issued) \subseteq Commands
    BY CommandFacts DEF RedisInv, RedisTypeOK
  <2>2. \A k \in timeouts \cup Range(issued) : outcome'[k] = outcome[k]
    BY <1>2, <1>3, <1>30, <2>1
  <2> QED BY <1>1, <1>4, <2>1, <2>2 DEF RedisInv, WaitingUnanswered
<1> QED BY <1>4, <1>5, <1>6, <1>7, <1>8, <1>9, <1>30 DEF RedisInv

\* queueRefused and queueRefusedPartly.
LEMMA RedisRefused ==
    ASSUME RedisInv, NEW c \in Calls, queueRefused(c) \/ queueRefusedPartly(c)
    PROVE  RedisInv'
<1>1. CASE queueRefused(c)
  <2>1. /\ NumCommands[c] \in 1 .. NumCommands[c]
        /\ Block(c) \ FirstOf(c, NumCommands[c]) = {}
    BY RedisAssumption DEF Block
  <2>2. OnResult(Block(c) \ FirstOf(c, NumCommands[c]), "timeout")
    BY <1>1, <2>1, NoneAnswered DEF queueRefused, RedisInv
  <2> QED BY <1>1, <2>1, <2>2, RefusedFirst
          DEF queueRefused, Call, server, BlockSeq, RedisInv, RedisTypeOK
<1>2. CASE queueRefusedPartly(c)
  <2>1. PICK n \in 1 .. NumCommands[c] - 1 :
            /\ resultCallback(FirstSeq(c, n), "error")
            /\ OnResult(Block(c) \ FirstOf(c, n), "timeout")
    BY <1>2 DEF queueRefusedPartly
  <2>2. n \in 1 .. NumCommands[c]
    BY RedisAssumption
  <2>3. expired' \subseteq WithTimeout
    BY <1>2 DEF queueRefusedPartly, CallOverrun, RedisInv, RedisTypeOK
  <2> QED BY <1>2, <2>1, <2>2, <2>3, RefusedFirst
          DEF queueRefusedPartly, CallOverrun, server
<1> QED BY <1>1, <1>2

\* What expires was waiting, and its request stays (expireTimeouts).
LEMMA RedisExpire ==
    ASSUME RedisInv, expireTimeouts
    PROVE  RedisInv'
<1> DEFINE due == { k \in timeouts : k[1] \in expired }
<1>1. /\ OnResult(due, "timeout")
      /\ state' = [ k \in Commands |-> IF k \in due THEN "TIMEDOUT" ELSE state[k] ]
      /\ timeouts' = timeouts \ due
      /\ UNCHANGED << caller, expired, requests, replyQueue, loop, disconnected,
                      closing, issued, executed, peer, context, written, called >>
  BY DEF expireTimeouts, LoopStep, server
<1>2. due \subseteq timeouts /\ timeouts \subseteq Commands /\ timeouts \subseteq requests
  BY CommandFacts DEF RedisInv, RedisTypeOK
<1> HIDE DEF due
<1>3. \A k \in due : state[k] = "WAITING" /\ outcome[k] = "none" /\ k \in requests
  BY <1>2 DEF RedisInv, WaitingUnanswered
<1>4. /\ CountedOnce'
      /\ numDone' \in [ Calls -> Nat ]
      /\ outcome' \in [ Commands -> {"none", "reply", "timeout", "error"} ]
  BY <1>1, <1>2, <1>3, OnResultCounts DEF RedisInv
<1>5. \A k \in Commands : k \notin due => outcome'[k] = outcome[k] /\ state'[k] = state[k]
  BY <1>1 DEF OnResult
<1>6. RedisTypeOK'
  BY <1>1, <1>4 DEF RedisInv, RedisTypeOK
<1>7. OnlyQueuedKnown'
  <2> SUFFICES ASSUME NEW d \in Calls, caller[d] # "queued", NEW k \in Block(d)
               PROVE  Untouched(k)'
    BY <1>1 DEF OnlyQueuedKnown
  <2>1. Untouched(k) /\ k \in Commands
    BY BlockFacts DEF RedisInv, OnlyQueuedKnown
  <2>2. k \notin due
    BY <1>3, <2>1 DEF Untouched
  <2> QED BY <1>1, <1>5, <2>1, <2>2 DEF Untouched
<1>8. /\ FreedForGood' /\ IsInjective(issued') /\ QueuedOnce' /\ NothingDangles'
  BY <1>1 DEF RedisInv, FreedForGood, IsInjective, QueuedOnce, NothingDangles, Outstanding
<1>9. QueuedUnanswered'
  <2>1. \A a \in DOMAIN replyQueue : /\ state[replyQueue[a].cmd] = "REPLIED"
                                    /\ replyQueue[a].cmd \in Commands
    BY QueueFacts
  <2>2. \A a \in DOMAIN replyQueue : /\ outcome'[replyQueue[a].cmd] = outcome[replyQueue[a].cmd]
                                    /\ state'[replyQueue[a].cmd] = "REPLIED"
    BY <1>3, <1>5, <2>1
  <2> QED BY <1>1, <2>2 DEF RedisInv, QueuedUnanswered
<1>10. WaitingUnanswered'
  <2>1. \A k \in timeouts' : state'[k] = "WAITING" /\ outcome'[k] = "none"
    BY <1>1, <1>2, <1>5 DEF RedisInv, WaitingUnanswered
  <2>2. ASSUME NEW k \in Range(issued), state'[k] = "WAITING" PROVE outcome'[k] = "none"
    <3>1. k \in Commands /\ k \notin due
      BY <1>1, <2>2, CommandFacts
    <3> QED BY <1>5, <2>2, <3>1 DEF RedisInv, WaitingUnanswered
  <2> QED BY <1>1, <2>1, <2>2 DEF WaitingUnanswered
<1> QED BY <1>4, <1>6, <1>7, <1>8, <1>9, <1>10 DEF RedisInv

\* hiredis calls back for the next commands, up to the n-th.
LEMMA RepliesPassedOn ==
    ASSUME RedisInv, NEW n \in called .. Len(issued), NEW r \in {"reply", "error"},
           resultCallback(SubSeq(issued, called + 1, n), r),
           r = "reply" => n <= executed, called' = n,
           UNCHANGED << caller, outcome, numDone, issued, executed >>,
           context' # "freed" => context # "freed"
    PROVE  /\ requests' \subseteq Commands /\ timeouts' \subseteq Commands
           /\ state' \in [ Commands -> {"WAITING", "REPLIED", "TIMEDOUT"} ]
           /\ replyQueue' \in Seq([ cmd : Commands, result : {"reply", "error"} ])
           /\ IsInjective(issued') /\ OnlyQueuedKnown' /\ QueuedOnce' /\ QueuedUnanswered'
           /\ WaitingUnanswered' /\ NothingDangles' /\ CountedOnce'
<1> DEFINE ks == SubSeq(issued, called + 1, n)
<1>1. /\ requests' = requests \ Range(ks) /\ timeouts' = timeouts \ Range(ks)
      /\ requests \subseteq Commands /\ timeouts \subseteq Commands
  BY DEF resultCallback, RedisInv, RedisTypeOK
<1>2. /\ issued \in Seq(Commands) /\ Len(issued) \in Nat
      /\ executed \in 0 .. Len(issued) /\ called \in 0 .. n /\ n \in 0 .. Len(issued)
  BY DEF RedisInv, RedisTypeOK
<1>3. ks \in Seq(Commands) /\ Between(ks, issued, called, n)
  BY <1>2, PartOf
<1> HIDE DEF ks
<1>4. /\ Len(ks) = n - called /\ DOMAIN ks = 1 .. n - called
      /\ \A a \in 1 .. n - called : ks[a] = issued[called + a] /\ called + a \in called + 1 .. n
      /\ \A h \in called + 1 .. n : \E a \in 1 .. n - called : ks[a] = issued[h]
  BY <1>3 DEF Between
<1>5. \A h \in called + 1 .. n : h \in 1 .. Len(issued)
  BY <1>2
<1>6. \A k : k \in Range(ks) <=> \E h \in called + 1 .. n : k = issued[h]
  <2>1. ASSUME NEW k \in Range(ks) PROVE \E h \in called + 1 .. n : k = issued[h]
    <3>1. PICK a \in 1 .. n - called : k = ks[a]
      BY <1>4, <2>1 DEF Range
    <3> QED BY <1>4, <3>1
  <2>2. ASSUME NEW h \in called + 1 .. n PROVE issued[h] \in Range(ks)
    BY <1>4 DEF Range
  <2> QED BY <2>1, <2>2
<1>7. Range(ks) \subseteq Range(issued)
  BY <1>5, <1>6, CommandFacts
<1>8. \A a, b \in 1 .. Len(ks) : ks[a] = ks[b] => a = b
  <2> SUFFICES ASSUME NEW a \in 1 .. Len(ks), NEW b \in 1 .. Len(ks), ks[a] = ks[b]
               PROVE  a = b
    OBVIOUS
  <2>1. issued[called + a] = issued[called + b]
    BY <1>4
  <2>2. called + a \in 1 .. Len(issued) /\ called + b \in 1 .. Len(issued)
    BY <1>4, <1>5
  <2>3. called + a = called + b
    BY <2>1, <2>2, CommandFacts
  <2> QED BY <1>2, <1>4, <2>3
<1>9. \A a \in 1 .. Len(ks) : state[ks[a]] = "WAITING" =>
          /\ outcome[ks[a]] = "none"
          /\ r = "reply" => \E j \in 1 .. executed : issued[j] = ks[a]
  <2> SUFFICES ASSUME NEW a \in 1 .. Len(ks), state[ks[a]] = "WAITING"
               PROVE  /\ outcome[ks[a]] = "none"
                      /\ r = "reply" => called + a \in 1 .. executed
                      /\ issued[called + a] = ks[a]
    OBVIOUS
  <2>1. ks[a] \in Range(issued)
    BY <1>4, <1>7 DEF Range
  <2>2. r = "reply" => called + a \in 1 .. executed
    BY <1>2, <1>4
  <2> QED BY <1>4, <2>1, <2>2 DEF RedisInv, WaitingUnanswered
<1>10. /\ state' \in [ Commands -> {"WAITING", "REPLIED", "TIMEDOUT"} ]
       /\ replyQueue' \in Seq([ cmd : Commands, result : {"reply", "error"} ])
       /\ QueuedOnce' /\ QueuedUnanswered'
       /\ \A k \in Commands : state'[k] = "WAITING" => state[k] = "WAITING"
       /\ \A k \in Commands : k \notin Range(ks) => state'[k] = state[k]
  <2>1. resultCallback(ks, r)
    BY DEF ks
  <2> QED BY <1>3, <1>8, <1>9, <2>1, CallbackFacts DEF RedisInv
<1>11. OnlyQueuedKnown'
  <2> SUFFICES ASSUME NEW d \in Calls, caller[d] # "queued", NEW k \in Block(d)
               PROVE  Untouched(k)'
    BY DEF OnlyQueuedKnown
  <2>1. Untouched(k) /\ k \in Commands
    BY BlockFacts DEF RedisInv, OnlyQueuedKnown
  <2>2. k \notin Range(ks)
    BY <1>7, <2>1 DEF Untouched
  <2> QED BY <1>1, <1>10, <2>1, <2>2 DEF Untouched
<1>12. WaitingUnanswered'
  <2>1. \A k \in timeouts' : state'[k] = "WAITING" /\ outcome'[k] = "none"
    BY <1>1, <1>10 DEF RedisInv, WaitingUnanswered
  <2>2. \A k \in Range(issued) : state'[k] = "WAITING" => outcome'[k] = "none"
    BY <1>10, CommandFacts DEF RedisInv, WaitingUnanswered
  <2> QED BY <2>1, <2>2 DEF WaitingUnanswered
<1>13. NothingDangles'
  <2>1. ASSUME context # "freed", NEW a \in n + 1 .. Len(issued)
        PROVE  issued[a] \in requests'
    <3>1. a \in called + 1 .. Len(issued) /\ a \in 1 .. Len(issued) /\ a \notin called + 1 .. n
      BY <1>2
    <3>2. issued[a] \in requests
      BY <2>1, <3>1 DEF RedisInv, NothingDangles, Outstanding
    <3>3. issued[a] \notin Range(ks)
      BY <1>5, <1>6, <3>1, CommandFacts
    <3> QED BY <1>1, <3>2, <3>3
  <2>2. timeouts' \subseteq requests'
    BY <1>1, CommandFacts
  <2> QED BY <2>1, <2>2 DEF NothingDangles, Outstanding
<1>14. IsInjective(issued') /\ CountedOnce'
  BY DEF RedisInv, IsInjective, CountedOnce
<1> QED BY <1>1, <1>10, <1>11, <1>12, <1>13, <1>14

\* Replies are passed on in the order of the commands (HandleRead).
LEMMA RedisRead ==
    ASSUME RedisInv, HandleRead
    PROVE  RedisInv'
<1>1. PICK n \in called + 1 .. executed :
         resultCallback(SubSeq(issued, called + 1, n), "reply") /\ called' = n
  BY DEF HandleRead
<1>2. /\ loop' = "callbacks" /\ context = "connected"
      /\ UNCHANGED << outcome, numDone, disconnected, context, written, caller, expired,
                      closing, issued, executed, peer >>
  BY DEF HandleRead, LoopStep, server
<1>3. /\ n \in called .. Len(issued) /\ n <= executed
      /\ written \in 0 .. Len(issued) /\ executed \in 0 .. written /\ n \in 0 .. Len(issued)
  BY DEF RedisInv, RedisTypeOK
<1>4. /\ requests' \subseteq Commands /\ timeouts' \subseteq Commands
      /\ state' \in [ Commands -> {"WAITING", "REPLIED", "TIMEDOUT"} ]
      /\ replyQueue' \in Seq([ cmd : Commands, result : {"reply", "error"} ])
      /\ IsInjective(issued') /\ OnlyQueuedKnown' /\ QueuedOnce' /\ QueuedUnanswered'
      /\ WaitingUnanswered' /\ NothingDangles' /\ CountedOnce'
  BY <1>1, <1>2, <1>3, RepliesPassedOn
<1>5. RedisTypeOK' /\ FreedForGood'
  BY <1>1, <1>2, <1>3, <1>4 DEF RedisInv, RedisTypeOK, FreedForGood
<1> QED BY <1>4, <1>5 DEF RedisInv

\* The end of the stream answers every command that is left (HandleEnd).
LEMMA RedisEnd ==
    ASSUME RedisInv, HandleEnd
    PROVE  RedisInv'
<1>1. /\ resultCallback(SubSeq(issued, called + 1, Len(issued)), "error")
      /\ called' = Len(issued) /\ context' = "freed" /\ disconnected' = TRUE
      /\ loop' = "callbacks" /\ context = "connected" /\ peer = "closed"
      /\ UNCHANGED << outcome, numDone, written, caller, expired,
                      closing, issued, executed, peer >>
  BY DEF HandleEnd, LoopStep, server
<1>2. Len(issued) \in called .. Len(issued) /\ Len(issued) \in Nat
  BY DEF RedisInv, RedisTypeOK
<1>3. /\ requests' \subseteq Commands /\ timeouts' \subseteq Commands
      /\ state' \in [ Commands -> {"WAITING", "REPLIED", "TIMEDOUT"} ]
      /\ replyQueue' \in Seq([ cmd : Commands, result : {"reply", "error"} ])
      /\ IsInjective(issued') /\ OnlyQueuedKnown' /\ QueuedOnce' /\ QueuedUnanswered'
      /\ WaitingUnanswered' /\ NothingDangles' /\ CountedOnce'
  BY <1>1, <1>2, RepliesPassedOn
<1>4. RedisTypeOK' /\ FreedForGood'
  BY <1>1, <1>2, <1>3 DEF RedisInv, RedisTypeOK, FreedForGood
<1> QED BY <1>3, <1>4 DEF RedisInv

\* The first callback of the queue is run, the others keep their turn.
LEMMA RedisCallback ==
    ASSUME RedisInv, RunCallback
    PROVE  RedisInv'
<1> DEFINE k0 == Head(replyQueue).cmd
           Replies == [ cmd : Commands, result : {"reply", "error"} ]
<1>1. /\ OnResult({k0}, Head(replyQueue).result)
      /\ replyQueue # <<>> /\ replyQueue' = Tail(replyQueue)
      /\ UNCHANGED << requests, timeouts, state, loop, disconnected, context, written, called,
                      caller, expired, closing, issued, executed, peer >>
  BY DEF RunCallback, LoopStep, server, tables
<1>2. replyQueue \in Seq(Replies)
  BY DEF RedisInv, RedisTypeOK
<1>3. /\ Head(replyQueue) = replyQueue[1] /\ 1 \in DOMAIN replyQueue
      /\ replyQueue' \in Seq(Replies)
      /\ \A a \in DOMAIN replyQueue' : /\ a + 1 \in DOMAIN replyQueue /\ a + 1 # 1
                                       /\ replyQueue'[a] = replyQueue[a + 1]
                                       /\ a \in Nat
  <2> HIDE DEF Replies
  <2> QED BY <1>1, <1>2
<1>4. /\ k0 \in Commands /\ state[k0] = "REPLIED" /\ outcome[k0] = "none"
      /\ Head(replyQueue).result \in {"reply", "timeout", "error"}
  BY <1>3, QueueFacts DEF RedisInv, QueuedUnanswered
<1>5. /\ CountedOnce'
      /\ numDone' \in [ Calls -> Nat ]
      /\ outcome' \in [ Commands -> {"none", "reply", "timeout", "error"} ]
  <2>1. {k0} \in SUBSET Commands /\ \A k \in {k0} : outcome[k] = "none"
    BY <1>4
  <2> HIDE DEF k0
  <2> QED BY <1>1, <1>4, <2>1, OnResultCounts DEF RedisInv
<1>6. \A k \in Commands : k # k0 => outcome'[k] = outcome[k]
  BY <1>1 DEF OnResult
<1>7. \A a \in DOMAIN replyQueue' : /\ replyQueue'[a].cmd # k0
                                   /\ replyQueue'[a].cmd \in Commands
  BY <1>3, QueueFacts DEF RedisInv, QueuedOnce
<1> HIDE DEF k0
<1>8. RedisTypeOK'
  BY <1>1, <1>3, <1>5 DEF RedisInv, RedisTypeOK
<1>9. OnlyQueuedKnown'
  <2> SUFFICES ASSUME NEW d \in Calls, caller[d] # "queued", NEW k \in Block(d)
               PROVE  Untouched(k)'
    BY <1>1 DEF OnlyQueuedKnown
  <2>1. Untouched(k) /\ k \in Commands
    BY BlockFacts DEF RedisInv, OnlyQueuedKnown
  <2>2. k # k0
    BY <1>4, <2>1 DEF Untouched
  <2> QED BY <1>1, <1>6, <2>1, <2>2 DEF Untouched
<1>10. QueuedOnce'
  <2> SUFFICES ASSUME NEW a \in DOMAIN replyQueue', NEW b \in DOMAIN replyQueue',
                      replyQueue'[a].cmd = replyQueue'[b].cmd
               PROVE  a = b
    BY DEF QueuedOnce
  <2>1. a + 1 = b + 1
    BY <1>3 DEF RedisInv, QueuedOnce
  <2> QED BY <1>3, <2>1
<1>11. QueuedUnanswered'
  <2> SUFFICES ASSUME NEW a \in DOMAIN replyQueue'
               PROVE  /\ state[replyQueue'[a].cmd] = "REPLIED"
                      /\ outcome'[replyQueue'[a].cmd] = "none"
                      /\ replyQueue'[a].result = "reply" =>
                            \E j \in 1 .. executed : issued[j] = replyQueue'[a].cmd
    BY <1>1 DEF QueuedUnanswered
  <2> QED BY <1>3, <1>6, <1>7 DEF RedisInv, QueuedUnanswered
<1>12. WaitingUnanswered'
  <2>1. timeouts \subseteq Commands /\ Range(issued) \subseteq Commands
    BY CommandFacts DEF RedisInv, RedisTypeOK
  <2> QED BY <1>1, <1>4, <1>6, <2>1 DEF RedisInv, WaitingUnanswered
<1>13. FreedForGood' /\ IsInjective(issued') /\ NothingDangles'
  BY <1>1 DEF RedisInv, FreedForGood, IsInjective, NothingDangles, Outstanding
<1> QED BY <1>5, <1>8, <1>9, <1>10, <1>11, <1>12, <1>13 DEF RedisInv

\* Every step keeps the invariant.
LEMMA RedisStep == RedisInv /\ [Next]_vars => RedisInv'
<1> SUFFICES ASSUME RedisInv, [Next]_vars PROVE RedisInv'
  OBVIOUS
<1>1. ASSUME NEW c \in Calls,
             \/ queue(c) \/ queuePartly(c) \/ queueTooLate(c)
             \/ queueRefused(c) \/ queueRefusedPartly(c)
      PROVE  RedisInv'
  BY <1>1, RedisQueue, RedisTooLate, RedisRefused
<1>2. CASE expireTimeouts \/ HandleRead \/ HandleEnd \/ RunCallback
  BY <1>2, RedisExpire, RedisRead, RedisEnd, RedisCallback
<1>3. CASE UNCHANGED vars
  <2>1. RedisTypeOK' /\ FreedForGood'
    BY <1>3 DEF vars, tables, hiredis, server, RedisInv, RedisTypeOK, FreedForGood
  <2>2. executed <= executed'
    BY <1>3 DEF vars, server, RedisInv, RedisTypeOK
  <2> QED BY <1>3, <2>1, <2>2, QuietStep DEF vars, tables, hiredis, server
<1> QED BY <1>1, <1>2, <1>3, RedisQuiet DEF Next, Loop

----------------------------------------------------------------------------
(* Theorems.                                                               *)

\* The invariant holds at all times.
LEMMA RedisInvariant == Spec => []RedisInv
BY RedisInitially, RedisStep, PTL DEF Spec

\* The types, and with them that what redis has executed is a prefix of what
\* was written, and that of what hiredis accepted (HandleWrite, Execute).
THEOREM RedisTypeCorrect == Spec => []RedisTypeOK
<1>1. RedisInv => RedisTypeOK
  BY DEF RedisInv
<1> QED BY <1>1, RedisInvariant, PTL

\* No callback of hiredis and no timeout finds its request gone, with any
\* number of calls and commands (requests, timeouts of AsyncConnection).
THEOREM RedisNothingDangles == Spec => []NothingDangles
<1>1. RedisInv => NothingDangles
  BY DEF RedisInv
<1> QED BY <1>1, RedisInvariant, PTL

\* The aggregator of each call counts each of its commands once, however
\* replies, timeouts and errors interleave (MultiAggregator::result).
THEOREM RedisCountedOnce == Spec => []CountedOnce
<1>1. RedisInv => CountedOnce
  BY DEF RedisInv
<1> QED BY <1>1, RedisInvariant, PTL

----------------------------------------------------------------------------
(* The connection implements what it promises (CommandQueue).              *)

\* Nothing is promised at first.
LEMMA PromiseInit == Init => Promise!Init
BY DEF Init, Promise!Init

\* queue() and queueMulti() issue commands that were not issued or answered
\* before, and answer those that are too late.
LEMMA PromiseIssue ==
    ASSUME RedisInv, RedisInv', NEW c \in Calls, NEW n \in 1 .. NumCommands[c],
           caller[c] = "idle",
           issued' = issued \o FirstSeq(c, n), executed' = executed,
           OnResult(Block(c) \ FirstOf(c, n), "timeout")
    PROVE  Promise!Issue
<1> DEFINE s == FirstSeq(c, n)
           late == Block(c) \ FirstOf(c, n)
<1>1. issued' = issued \o s
  OBVIOUS
<1>2. /\ s \in Seq(Commands) /\ issued \in Seq(Commands)
      /\ Len(s) \in Nat \ {0} /\ Len(issued) \in Nat
      /\ \A a \in 1 .. Len(s) : s[a] \in Block(c) /\ s[a] \notin late
      /\ late \subseteq Block(c) /\ Block(c) \subseteq Commands
  <2>1. /\ s \in Seq(Commands) /\ Len(s) = n /\ n \in Nat \ {0}
        /\ \A a \in 1 .. n : s[a] \in FirstOf(c, n)
        /\ FirstOf(c, n) \subseteq Block(c) /\ Block(c) \subseteq Commands
    BY FirstFacts, BlockFacts
  <2>2. issued \in Seq(Commands) /\ Len(issued) \in Nat
    BY CommandFacts
  <2> HIDE DEF s
  <2> QED BY <2>1, <2>2
<1>20. outcome' = [ k \in Commands |-> IF k \in late THEN "timeout" ELSE outcome[k] ]
  BY DEF OnResult
<1> HIDE DEF s, late
<1>3. issued' \in Seq(Commands) /\ Joins(issued', issued, s)
  BY <1>1, <1>2, Joined, Zenon
<1>4. /\ Len(issued') = Len(issued) + Len(s) /\ DOMAIN issued' = 1 .. Len(issued')
      /\ \A a \in 1 .. Len(issued) : issued'[a] = issued[a]
      /\ \A a \in 1 .. Len(s) : issued'[Len(issued) + a] = s[a]
      /\ \A a \in 1 .. Len(issued') : \/ a \in 1 .. Len(issued)
                                      \/ \E b \in 1 .. Len(s) : a = Len(issued) + b
  BY <1>3 DEF Joins
<1>5. Promise!IsStrictPrefix(issued, issued')
  <2>1. SubSeq(issued, 1, Len(issued)) = SubSeq(issued', 1, Len(issued))
    BY <1>2, <1>3, <1>4
  <2>2. Len(issued) <= Len(issued') /\ issued # issued'
    BY <1>2, <1>4
  <2> QED BY <2>1, <2>2 DEF Promise!IsStrictPrefix, Promise!IsPrefix
<1>6. Promise!IsInjective(issued')
  BY DEF RedisInv, IsInjective, Promise!IsInjective
<1>7. \A a \in DOMAIN issued' : a > Len(issued) => outcome[issued'[a]] = "none"
  <2> SUFFICES ASSUME NEW a \in 1 .. Len(issued'), a > Len(issued)
               PROVE  outcome[issued'[a]] = "none"
    BY <1>4
  <2>0. a \notin 1 .. Len(issued)
    BY <1>2
  <2>1. PICK b \in 1 .. Len(s) : a = Len(issued) + b
    BY <1>4, <2>0
  <2>2. issued'[a] \in Block(c)
    BY <1>2, <1>4, <2>1
  <2> QED BY <2>2, CommandFacts
<1>8. /\ \A k \in late : outcome[k] = "none"
      /\ late \cap { issued'[a] : a \in DOMAIN issued' } = {}
  <2>1. \A k \in Block(c) : outcome[k] = "none" /\ k \notin Range(issued)
    BY CommandFacts
  <2>2. ASSUME NEW a \in 1 .. Len(issued') PROVE issued'[a] \notin late
    <3>1. CASE a \in 1 .. Len(issued)
      BY <1>2, <1>4, <2>1, <3>1, CommandFacts
    <3>2. CASE \E b \in 1 .. Len(s) : a = Len(issued) + b
      BY <1>2, <1>4, <3>2
    <3> QED BY <1>4, <3>1, <3>2
  <2>3. \A k \in late : outcome[k] = "none"
    BY <1>2, <2>1
  <2>4. late \cap { issued'[a] : a \in 1 .. Len(issued') } = {}
    BY <2>2
  <2>5. DOMAIN issued' = 1 .. Len(issued')
    BY <1>4
  <2> QED BY <2>3, <2>4, <2>5
<1>9. late \in SUBSET Commands
  BY <1>2
<1> QED BY <1>3, <1>5, <1>6, <1>7, <1>8, <1>9, <1>20 DEF Promise!Issue

\* Answering commands that have no answer yet is a step of CommandQueue.
LEMMA PromiseAnswer ==
    ASSUME NEW S \in SUBSET Commands, \A k \in S : outcome[k] = "none",
           NEW a \in {"reply", "timeout", "error"},
           a = "reply" => \A k \in S : \E j \in 1 .. executed : issued[j] = k,
           OnResult(S, a), UNCHANGED << issued, executed >>
    PROVE  Promise!Answer
BY DEF Promise!Answer, Promise!Answers, OnResult

\* Every step of the connection is one of CommandQueue, or none.
LEMMA PromiseStep == RedisInv /\ [Next]_vars => [Promise!Next]_(Promise!vars)
<1> SUFFICES ASSUME RedisInv, [Next]_vars PROVE [Promise!Next]_(Promise!vars)
  OBVIOUS
<1> DEFINE Quiet == UNCHANGED << issued, executed, outcome >>
<1>1. Quiet => [Promise!Next]_(Promise!vars)
  BY DEF Promise!vars
<1>2. Promise!Issue \/ Promise!Execute \/ Promise!Answer => [Promise!Next]_(Promise!vars)
  BY DEF Promise!Next
<1>3. ASSUME NEW c \in Calls, queue(c) PROVE Promise!Issue
  <2>1. /\ NumCommands[c] \in 1 .. NumCommands[c]
        /\ Block(c) \ FirstOf(c, NumCommands[c]) = {}
    BY RedisAssumption DEF Block
  <2>2. OnResult(Block(c) \ FirstOf(c, NumCommands[c]), "timeout")
    BY <1>3, <2>1, NoneAnswered DEF queue, RedisInv
  <2>3. RedisInv'
    BY <1>3, RedisQueue
  <2> QED BY <1>3, <2>1, <2>2, <2>3, PromiseIssue DEF queue, Call, server, BlockSeq
<1>30. ASSUME NEW c \in Calls, queuePartly(c) PROVE Promise!Issue
  <2>1. PICK n \in 1 .. NumCommands[c] - 1 :
            /\ issued' = issued \o FirstSeq(c, n)
            /\ OnResult(Block(c) \ FirstOf(c, n), "timeout")
    BY <1>30 DEF queuePartly
  <2>2. n \in 1 .. NumCommands[c]
    BY RedisAssumption
  <2>3. RedisInv'
    BY <1>30, RedisQueue
  <2> QED BY <1>30, <2>1, <2>2, <2>3, PromiseIssue DEF queuePartly, CallOverrun, server
<1>31. ASSUME NEW c \in Calls, queueRefusedPartly(c) PROVE Promise!Answer
  <2>1. PICK n \in 1 .. NumCommands[c] - 1 : OnResult(Block(c) \ FirstOf(c, n), "timeout")
    BY <1>31 DEF queueRefusedPartly
  <2>2. caller[c] = "idle" /\ UNCHANGED << issued, executed >>
    BY <1>31 DEF queueRefusedPartly, CallOverrun, server
  <2>3. /\ Block(c) \ FirstOf(c, n) \in SUBSET Commands
        /\ \A k \in Block(c) \ FirstOf(c, n) : outcome[k] = "none"
    BY <2>2, BlockFacts, CommandFacts
  <2> QED BY <2>1, <2>2, <2>3, PromiseAnswer
<1>4. ASSUME NEW c \in Calls, queueTooLate(c) PROVE Promise!Answer
  <2>1. /\ OnResult(Block(c), "timeout") /\ caller[c] = "idle"
        /\ UNCHANGED << issued, executed >>
    BY <1>4 DEF queueTooLate, Call, server
  <2>2. Block(c) \in SUBSET Commands /\ \A k \in Block(c) : outcome[k] = "none"
    BY <2>1, BlockFacts, CommandFacts
  <2> QED BY <2>1, <2>2, PromiseAnswer
<1>5. ASSUME NEW c \in Calls,
             queueRefused(c) \/ queueThrows(c) \/ queueCrashes(c) \/ TimePasses(c)
      PROVE  Quiet
  BY <1>5 DEF queueRefused, queueThrows, queueCrashes, TimePasses, Call, server, hiredis
<1>6. CASE expireTimeouts
  <2> DEFINE due == { k \in timeouts : k[1] \in expired }
  <2>1. OnResult(due, "timeout") /\ UNCHANGED << issued, executed >>
    BY <1>6 DEF expireTimeouts, LoopStep, server
  <2>2. due \in SUBSET Commands /\ \A k \in due : outcome[k] = "none"
    BY DEF RedisInv, RedisTypeOK, WaitingUnanswered
  <2> HIDE DEF due
  <2>3. Promise!Answer
    BY <2>1, <2>2, PromiseAnswer
  <2> QED BY <1>2, <2>3
<1>7. CASE RunCallback
  <2> DEFINE first == Head(replyQueue)
  <2>1. /\ OnResult({first.cmd}, first.result) /\ UNCHANGED << issued, executed >>
        /\ replyQueue # <<>>
    BY <1>7 DEF RunCallback, LoopStep, server
  <2>2. 1 \in DOMAIN replyQueue /\ first = replyQueue[1]
    BY <2>1 DEF RedisInv, RedisTypeOK
  <2>3. /\ first.cmd \in Commands /\ outcome[first.cmd] = "none"
        /\ first.result \in {"reply", "timeout", "error"}
        /\ first.result = "reply" => \E j \in 1 .. executed : issued[j] = first.cmd
    BY <2>2, QueueFacts DEF RedisInv, QueuedUnanswered
  <2> HIDE DEF first
  <2>4. Promise!Answer
    BY <2>1, <2>3, PromiseAnswer
  <2> QED BY <1>2, <2>4
<1>8. CASE HandleWrite \/ HandleRead \/ HandleEnd \/ HangUp \/ CallbacksDone \/ LeaveLoop
  <2>1. Quiet
    BY <1>8 DEF HandleWrite, HandleRead, HandleEnd, HangUp, CallbacksDone, LeaveLoop,
                LoopStep, server
  <2> QED BY <1>1, <2>1
<1>9. CASE close \/ CloseReturns \/ \E how \in PeerFaults : PeerFails(how)
  <2>1. Quiet
    BY <1>9 DEF close, CloseReturns, PeerFails, hiredis, server
  <2> QED BY <1>1, <2>1
<1>10. CASE Execute
  <2>1. Promise!Execute
    BY <1>10 DEF Execute, Promise!Execute, hiredis, RedisInv, RedisTypeOK
  <2> QED BY <1>2, <2>1
<1>11. CASE UNCHANGED vars
  <2>1. Quiet
    BY <1>11 DEF vars, hiredis, server
  <2> QED BY <1>1, <2>1
<1> HIDE DEF Quiet
<1> QED BY <1>1, <1>2, <1>3, <1>30, <1>31, <1>4, <1>5, <1>6, <1>7, <1>8, <1>9, <1>10, <1>11
        DEF Next, Loop

\* Every behaviour of the connection is one its callers were promised:
\* commands are executed in the order they were accepted, each is answered at
\* most once, and a reply comes only from a command that was executed.
THEOREM RedisKeepsPromise == Spec => KeepsPromise
BY PromiseInit, PromiseStep, RedisInvariant, PTL DEF Spec, KeepsPromise, Promise!Spec
=============================================================================

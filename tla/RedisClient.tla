---------------------------- MODULE RedisClient -----------------------------
(***************************************************************************)
(* The banker's connection to redis (AsyncConnection and its EventLoop in  *)
(* src/src/soa/service/redis.cpp).  Callers queue commands, one or several *)
(* under one lock, and wait for the callback.  One thread polls the        *)
(* socket, passes what it reads to hiredis, expires timeouts, and runs the *)
(* callbacks of the replies.  hiredis answers callbacks in the order of    *)
(* the commands.  Redis may be slow, close the connection or be lost; the  *)
(* owner may close the connection while commands are waiting.              *)
(***************************************************************************)
EXTENDS Integers, SequencesExt, FiniteSets, SequenceFilter

CONSTANTS
    Calls,       \* the calls of queue, exec, queueMulti and execMulti
    NumCommands, \* how many commands each call queues
    WithTimeout, \* the calls that pass a timeout
    MayClose,    \* whether the owner closes the connection
    PeerFaults   \* how the connection to redis may fail

ASSUME RedisAssumption ==
    /\ NumCommands \in [ Calls -> Nat \ {0} ]
    /\ WithTimeout \subseteq Calls
    /\ MayClose \in BOOLEAN
    /\ PeerFaults \subseteq {"closed", "hangup"}

\* The first n commands of a call, and all of them.
FirstOf(c, n) == { << c, i >> : i \in 1 .. n }
FirstSeq(c, n) == [ i \in 1 .. n |-> << c, i >> ]
Block(c) == FirstOf(c, NumCommands[c])
BlockSeq(c) == FirstSeq(c, NumCommands[c])
Commands == UNION { Block(c) : c \in Calls }

VARIABLES
    caller,     \* each call: "idle", "queued" or, when queue() threw, "threw"
    expired,    \* the calls whose timeout has passed
    requests,   \* AsyncConnection::requests: what keeps RequestData alive
    timeouts,   \* AsyncConnection::timeouts
    state,      \* RequestData::state
    replyQueue, \* callbacks to run without the lock: a command and a result
    outcome,    \* the result each command's onResult was called with last
    numDone,    \* MultiAggregator::numDone: how often onResult was called
    loop,       \* EventLoop::run: "poll", "callbacks", "disconnect" while it
                \* waits for the callback of hiredis, "ended"; or "crashed"
    disconnected, \* EventLoop::disconnected
    closing,    \* close(): "open", "joining" the event loop, "closed"
    context,    \* hiredis: "connecting", "connected", "disconnecting", "freed"
    issued,     \* hiredis: all commands it accepted, of which the first
    written,    \*     written were sent to redis,
    executed,   \*     executed were executed and answered by redis, and
    called,     \*     called were given to resultCallback
    peer        \* redis' end of the connection: "up", "closed", "hangup"

tables == << requests, timeouts, state >>
hiredis == << context, issued, written, called >>
server == << executed, peer >>
vars == << caller, expired, tables, replyQueue, outcome, numDone, loop,
           disconnected, closing, hiredis, server >>

Init == /\ caller = [ c \in Calls |-> "idle" ]
        /\ expired = {}
        /\ requests = {} /\ timeouts = {}
        /\ state = [ k \in Commands |-> "WAITING" ]
        /\ replyQueue = <<>>
        /\ outcome = [ k \in Commands |-> "none" ]
        /\ numDone = [ c \in Calls |-> 0 ]
        /\ loop = "poll" /\ disconnected = TRUE
        /\ closing = "open"
        /\ context = "connecting"
        /\ issued = <<>> /\ written = 0 /\ executed = 0 /\ called = 0
        /\ peer = "up"

----------------------------------------------------------------------------
(* Callbacks.                                                              *)

\* The callers' onResult: result(i, r) of the aggregator of each call.
OnResult(S, r) ==
    /\ outcome' = [ k \in Commands |-> IF k \in S THEN r ELSE outcome[k] ]
    /\ numDone' = [ c \in Calls |-> numDone[c] + Cardinality(S \cap Block(c)) ]

\* Mutant: a reply that comes after its timeout is given to the caller too.
resultCallbackTwice(ks, r) ==
    /\ requests' = requests \ Range(ks)
    /\ timeouts' = timeouts \ Range(ks)
    /\ state' = [ k \in Commands |-> IF k \in Range(ks) THEN "REPLIED" ELSE state[k] ]
    /\ replyQueue' = replyQueue \o [ i \in DOMAIN ks |-> [ cmd |-> ks[i], result |-> r ] ]

\* hiredis calls back for the commands ks, in order.  A command whose timeout
\* has expired is only forgotten.
resultCallback(ks, r) ==
    LET waiting == Only(ks, { k \in Commands : state[k] = "WAITING" }) IN
    /\ requests' = requests \ Range(ks)
    /\ timeouts' = timeouts \ Range(ks)
    /\ state' = [ k \in Commands |-> IF k \in Range(waiting) THEN "REPLIED" ELSE state[k] ]
    /\ replyQueue' = replyQueue \o
           [ i \in DOMAIN waiting |-> [ cmd |-> waiting[i], result |-> r ] ]

----------------------------------------------------------------------------
(* Calls.  The lock is held from the first command of a call to the last.  *)

Call(c) == /\ caller[c] = "idle" /\ loop # "crashed"
           /\ UNCHANGED << expired, disconnected, closing, server, context,
                           written, called >>

\* The context that hiredis accepts commands on.  It still does so when the
\* event loop has ended after a POLLHUP.
Accepting == context \in {"connecting", "connected"}

queue(c) ==
    /\ Call(c)
    /\ closing # "closed" /\ Accepting
    /\ c \notin expired
    /\ requests' = requests \cup Block(c)
    /\ timeouts' = IF c \in WithTimeout THEN timeouts \cup Block(c) ELSE timeouts
    /\ issued' = issued \o BlockSeq(c)
    /\ caller' = [ caller EXCEPT ![c] = "queued" ]
    /\ UNCHANGED << state, replyQueue, outcome, numDone, loop >>

\* Mutant: the commands are queued all the same (the return is missing).
queueTooLateQueued(c) ==
    /\ Call(c)
    /\ closing # "closed" /\ context # "freed"
    /\ c \in expired
    /\ OnResult(Block(c), "timeout")
    /\ requests' = requests \cup Block(c)
    /\ issued' = issued \o BlockSeq(c)
    /\ caller' = [ caller EXCEPT ![c] = "queued" ]
    /\ UNCHANGED << timeouts, state, replyQueue, loop >>

\* The timeout has passed before the call.
queueTooLate(c) ==
    /\ Call(c)
    /\ closing # "closed" /\ context # "freed"
    /\ c \in expired
    /\ OnResult(Block(c), "timeout")
    /\ caller' = [ caller EXCEPT ![c] = "queued" ]
    /\ UNCHANGED << tables, replyQueue, loop, issued >>

\* redisAsyncCommandArgv refuses commands once the context is disconnecting.
queueRefused(c) ==
    /\ Call(c)
    /\ closing # "closed" /\ context = "disconnecting"
    /\ c \notin expired
    /\ resultCallback(BlockSeq(c), "error")
    /\ caller' = [ caller EXCEPT ![c] = "queued" ]
    /\ UNCHANGED << outcome, numDone, loop, issued >>

(***************************************************************************)
(* queueMulti looks at the clock for each command, and the timeout may     *)
(* pass in the middle of the call: the first commands are queued, or       *)
(* refused, and the others are too late.                                   *)
(***************************************************************************)
CallOverrun(c) ==
    /\ caller[c] = "idle" /\ loop # "crashed" /\ closing # "closed"
    /\ c \in WithTimeout \ expired
    /\ expired' = expired \cup {c}
    /\ caller' = [ caller EXCEPT ![c] = "queued" ]
    /\ UNCHANGED << loop, disconnected, closing, server, context, written, called >>

queuePartly(c) ==
    /\ CallOverrun(c)
    /\ Accepting
    /\ \E n \in 1 .. NumCommands[c] - 1 :
         /\ requests' = requests \cup FirstOf(c, n)
         /\ timeouts' = timeouts \cup FirstOf(c, n)
         /\ issued' = issued \o FirstSeq(c, n)
         /\ OnResult(Block(c) \ FirstOf(c, n), "timeout")
    /\ UNCHANGED << state, replyQueue >>

queueRefusedPartly(c) ==
    /\ CallOverrun(c)
    /\ context = "disconnecting"
    /\ \E n \in 1 .. NumCommands[c] - 1 :
         /\ resultCallback(FirstSeq(c, n), "error")
         /\ OnResult(Block(c) \ FirstOf(c, n), "timeout")
    /\ UNCHANGED issued

\* ExcAssert(context_) after close(); ExcAssert(!context_->err) when the
\* memory that hiredis freed still holds the error.
queueThrows(c) ==
    /\ Call(c)
    /\ closing = "closed" \/ context = "freed"
    /\ caller' = [ caller EXCEPT ![c] = "threw" ]
    /\ UNCHANGED << tables, replyQueue, outcome, numDone, loop, issued >>

\* The other outcome of reading the freed context.
queueCrashes(c) ==
    /\ Call(c)
    /\ closing # "closed" /\ context = "freed"
    /\ loop' = "crashed"
    /\ UNCHANGED << caller, tables, replyQueue, outcome, numDone, issued >>

TimePasses(c) ==
    /\ c \in WithTimeout \ expired
    /\ expired' = expired \cup {c}
    /\ UNCHANGED << caller, tables, replyQueue, outcome, numDone, loop,
                    disconnected, closing, hiredis, server >>

----------------------------------------------------------------------------
(* The event loop.  In "poll" it is about to expire timeouts, or in poll(). *)

LoopStep == UNCHANGED << caller, expired, closing, issued, server >>
Finished == closing # "open"

\* Mutant: the request is forgotten together with its timeout.
expireTimeoutsErasing ==
    LET due == { k \in timeouts : k[1] \in expired } IN
    /\ loop = "poll" /\ ~Finished
    /\ due # {}
    /\ OnResult(due, "timeout")
    /\ state' = [ k \in Commands |-> IF k \in due THEN "TIMEDOUT" ELSE state[k] ]
    /\ timeouts' = timeouts \ due
    /\ requests' = requests \ due
    /\ UNCHANGED << replyQueue, loop, disconnected, context, written, called >>
    /\ LoopStep

\* Mutant: only one timeout is expired, and the others are erased with it.
expireTimeoutsFirst ==
    LET due == { k \in timeouts : k[1] \in expired } IN
    /\ loop = "poll" /\ ~Finished
    /\ due # {}
    /\ \E k \in due : /\ OnResult({k}, "timeout")
                      /\ state' = [ state EXCEPT ![k] = "TIMEDOUT" ]
    /\ timeouts' = timeouts \ due
    /\ UNCHANGED << requests, replyQueue, loop, disconnected, context, written, called >>
    /\ LoopStep

\* The request stays until hiredis calls back.
expireTimeouts ==
    LET due == { k \in timeouts : k[1] \in expired } IN
    /\ loop = "poll" /\ ~Finished
    /\ due # {}
    /\ OnResult(due, "timeout")
    /\ state' = [ k \in Commands |-> IF k \in due THEN "TIMEDOUT" ELSE state[k] ]
    /\ timeouts' = timeouts \ due
    /\ UNCHANGED << requests, replyQueue, loop, disconnected, context, written, called >>
    /\ LoopStep

\* POLLOUT: hiredis finishes the connect (onConnect), and sends what it has.
HandleWrite ==
    /\ loop = "poll" /\ peer = "up"
    /\ written < Len(issued)
    /\ context' = "connected" /\ disconnected' = FALSE
    /\ written' = Len(issued)
    /\ loop' = "callbacks"
    /\ UNCHANGED << tables, replyQueue, outcome, numDone, called >>
    /\ LoopStep

\* POLLIN: hiredis passes on the replies that have arrived.
HandleRead ==
    /\ loop = "poll" /\ context = "connected" /\ peer # "hangup"
    /\ \E n \in called + 1 .. executed :
         /\ resultCallback(SubSeq(issued, called + 1, n), "reply")
         /\ called' = n
    /\ loop' = "callbacks"
    /\ UNCHANGED << outcome, numDone, disconnected, context, written >>
    /\ LoopStep

\* Mutant: the end of the connection is reported as a timeout.
HandleEndTimeout ==
    /\ loop = "poll" /\ context = "connected"
    /\ peer = "closed" /\ called = executed
    /\ resultCallback(SubSeq(issued, called + 1, Len(issued)), "timeout")
    /\ called' = Len(issued)
    /\ context' = "freed" /\ disconnected' = TRUE
    /\ loop' = "callbacks"
    /\ UNCHANGED << outcome, numDone, written >>
    /\ LoopStep

\* POLLIN at the end of the stream: hiredis calls back for every command
\* without a reply, calls onDisconnect and frees the context.
HandleEnd ==
    /\ loop = "poll" /\ context = "connected"
    /\ peer = "closed" /\ called = executed
    /\ resultCallback(SubSeq(issued, called + 1, Len(issued)), "error")
    /\ called' = Len(issued)
    /\ context' = "freed" /\ disconnected' = TRUE
    /\ loop' = "callbacks"
    /\ UNCHANGED << outcome, numDone, written >>
    /\ LoopStep

\* POLLHUP or POLLERR: the loop ends, whatever is waiting.
HangUp ==
    /\ loop = "poll" /\ context # "freed" /\ peer = "hangup"
    /\ disconnected' = TRUE
    /\ loop' = "ended"
    /\ UNCHANGED << tables, replyQueue, outcome, numDone, context, written, called >>
    /\ LoopStep

RunCallback ==
    /\ loop = "callbacks" /\ replyQueue # <<>>
    /\ OnResult({ Head(replyQueue).cmd }, Head(replyQueue).result)
    /\ replyQueue' = Tail(replyQueue)
    /\ UNCHANGED << tables, loop, disconnected, context, written, called >>
    /\ LoopStep

CallbacksDone ==
    /\ loop = "callbacks" /\ replyQueue = <<>>
    /\ ~Finished
    /\ loop' = "poll"
    /\ UNCHANGED << tables, replyQueue, outcome, numDone, disconnected,
                    context, written, called >>
    /\ LoopStep

\* finished: redisAsyncDisconnect disconnects at once when no reply is
\* outstanding, and otherwise leaves it to the read of the last one.
LeaveLoop ==
    /\ Finished
    /\ loop = "poll" \/ (loop = "callbacks" /\ replyQueue = <<>>)
    /\ IF disconnected THEN loop' = "ended" /\ UNCHANGED << context, disconnected >>
       ELSE IF called = Len(issued)
       THEN loop' = "ended" /\ context' = "freed" /\ disconnected' = TRUE
       ELSE loop' = "disconnect" /\ context' = "disconnecting" /\ UNCHANGED disconnected
    /\ UNCHANGED << tables, replyQueue, outcome, numDone, written, called >>
    /\ LoopStep

Loop == \/ expireTimeouts \/ HandleWrite \/ HandleRead \/ HandleEnd
        \/ HangUp \/ RunCallback \/ CallbacksDone \/ LeaveLoop

----------------------------------------------------------------------------
(* The owner, and redis.                                                   *)

close ==
    /\ MayClose
    /\ closing = "open" /\ loop # "crashed"
    /\ closing' = "joining"
    /\ UNCHANGED << caller, expired, tables, replyQueue, outcome, numDone, loop,
                    disconnected, hiredis, server >>

\* thread->join() returns.
CloseReturns ==
    /\ closing = "joining" /\ loop = "ended"
    /\ closing' = "closed"
    /\ UNCHANGED << caller, expired, tables, replyQueue, outcome, numDone, loop,
                    disconnected, hiredis, server >>

\* Redis executes commands in order, and answers each.
Execute ==
    /\ peer = "up" /\ executed < written
    /\ executed' = executed + 1
    /\ UNCHANGED << caller, expired, tables, replyQueue, outcome, numDone, loop,
                    disconnected, closing, hiredis, peer >>

\* Redis closes its end, refuses the connection or is lost.
PeerFails(how) ==
    /\ peer # "hangup" /\ peer # how
    /\ how = "closed" => context = "connected"
    /\ peer' = how
    /\ UNCHANGED << caller, expired, tables, replyQueue, outcome, numDone, loop,
                    disconnected, closing, hiredis, executed >>

Next ==
    \/ \E c \in Calls : \/ queue(c) \/ queueTooLate(c) \/ queueRefused(c)
                        \/ queuePartly(c) \/ queueRefusedPartly(c)
                        \/ queueThrows(c) \/ queueCrashes(c) \/ TimePasses(c)
    \/ Loop
    \/ close \/ CloseReturns
    \/ Execute
    \/ \E how \in PeerFaults : PeerFails(how)

Spec == Init /\ [][Next]_vars

\* The event loop's thread runs, time passes and join() returns.  Redis need
\* not answer, and callers need not call.
FairSpec == /\ Spec
            /\ WF_vars(Loop)
            /\ \A c \in Calls : WF_vars(TimePasses(c))
            /\ WF_vars(CloseReturns)

----------------------------------------------------------------------------
(* Properties.                                                             *)

\* The types of the connection, of hiredis and of redis: written, executed and
\* answered commands are prefixes of the accepted ones.
RedisTypeOK ==
    /\ caller \in [ Calls -> {"idle", "queued", "threw"} ]
    /\ expired \subseteq WithTimeout
    /\ requests \subseteq Commands /\ timeouts \subseteq Commands
    /\ state \in [ Commands -> {"WAITING", "REPLIED", "TIMEDOUT"} ]
    /\ replyQueue \in Seq([ cmd : Commands, result : {"reply", "error"} ])
    /\ outcome \in [ Commands -> {"none", "reply", "timeout", "error"} ]
    /\ numDone \in [ Calls -> Nat ]
    /\ loop \in {"poll", "callbacks", "disconnect", "ended", "crashed"}
    /\ disconnected \in BOOLEAN
    /\ closing \in {"open", "joining", "closed"}
    /\ context \in {"connecting", "connected", "disconnecting", "freed"}
    /\ issued \in Seq(Commands)
    /\ written \in 0 .. Len(issued)
    /\ executed \in 0 .. written /\ called \in 0 .. Len(issued)
    /\ peer \in {"up", "closed", "hangup"}

Outstanding == { issued[i] : i \in called + 1 .. Len(issued) }

\* hiredis holds a raw pointer to the RequestData of every command it has not
\* called back for, and a timeout an iterator into requests: both must still
\* be there, however timeouts, replies and the end of the connection
\* interleave (resultCallback, expireTimeouts).
NothingDangles == /\ context # "freed" => Outstanding \subseteq requests
                  /\ timeouts \subseteq requests

\* A call that was not accepted has left no trace of its commands.
Untouched(k) == /\ k \notin requests /\ k \notin Range(issued)
                /\ state[k] = "WAITING" /\ outcome[k] = "none"
OnlyQueuedKnown ==
    \A c \in Calls : caller[c] # "queued" => \A k \in Block(c) : Untouched(k)

\* A reply in the queue is the first and only answer to its command.
QueuedOnce ==
    \A i, j \in DOMAIN replyQueue : replyQueue[i].cmd = replyQueue[j].cmd => i = j
QueuedUnanswered ==
    \A i \in DOMAIN replyQueue :
        /\ state[replyQueue[i].cmd] = "REPLIED"
        /\ outcome[replyQueue[i].cmd] = "none"
        /\ replyQueue[i].result = "reply" =>
               \E j \in 1 .. executed : issued[j] = replyQueue[i].cmd

\* What may still be answered has not been.
WaitingUnanswered ==
    /\ \A k \in timeouts : state[k] = "WAITING" /\ outcome[k] = "none"
    /\ \A k \in Range(issued) : state[k] = "WAITING" => outcome[k] = "none"

\* The aggregator counts every command once, so that onResults is called
\* exactly when each of its commands has a result (MultiAggregator::finish).
CountedOnce ==
    \A c \in Calls :
        numDone[c] = Cardinality({ k \in Block(c) : outcome[k] # "none" })

\* hiredis does not connect again with a context that it has freed.
FreedForGood ==
    context = "freed" => /\ disconnected
                         /\ peer # "up" \/ loop \in {"ended", "crashed"}

\* What makes the properties above inductive.
RedisInv == /\ RedisTypeOK /\ FreedForGood
            /\ IsInjective(issued) /\ OnlyQueuedKnown
            /\ QueuedOnce /\ QueuedUnanswered /\ WaitingUnanswered
            /\ NothingDangles /\ CountedOnce

\* What the connection promises its callers holds of this implementation.
Promise == INSTANCE CommandQueue WITH Commands <- Commands, issued <- issued,
                                      executed <- executed, outcome <- outcome
KeepsPromise == Promise!Spec

Answered(c) == numDone[c] = NumCommands[c]
Executed(c) == Block(c) \subseteq { issued[i] : i \in 1 .. executed }

\* As long as the event loop runs, a call is answered once redis has executed
\* its commands, and a call with a timeout also when redis never does (run,
\* expireTimeouts, queue).
AnsweredWhileLooping ==
    \A c \in Calls :
        caller[c] = "queued" /\ (c \in WithTimeout \/ Executed(c))
            ~> Answered(c) \/ loop \in {"disconnect", "ended", "crashed"}

\* A call with a timeout is answered (redis.h on queue(), test()).
TimeoutsHonoured ==
    \A c \in WithTimeout : caller[c] = "queued" ~> Answered(c) \/ loop = "crashed"
=============================================================================

---------------------------- MODULE WorkerEngine ----------------------------
(***************************************************************************)
(* The worker engine (worker-runtime/src/engine.rs) of every process of a  *)
(* role, over the consumer group of the role's input stream.  A process    *)
(* runs one loop - reclaim, dispatch, poll, dispatch - and one lease       *)
(* heartbeat task per message of the batch it is dispatching.  The role's  *)
(* handler is any of the behaviours the roles have (RoleActs).             *)
(***************************************************************************)
EXTENDS StreamGroup

CONSTANTS
  MaxRetries,        \* RetryDlqPolicy::max_retries
  RoleActs,          \* how the role's handler may end; see Act below
  Mortal,            \* consumers whose process may exit
  StoreErrors,       \* TRUE: Redis calls of the retry path may fail
  TimelyHeartbeats   \* TRUE: a renewal always lands before the lease expires

Act == {"handoff", "guarded", "ok", "err", "deferred"}

ASSUME WorkerEngineAssumption ==
  /\ MaxRetries \in Nat \ {0}
  /\ RoleActs \subseteq Act
  /\ Mortal \subseteq Consumers
  /\ StoreErrors \in BOOLEAN
  /\ TimelyHeartbeats \in BOOLEAN

VARIABLES
  pc,         \* where each process is
  follow,     \* what follows the batch: "poll" or "reclaim"
  batch,      \* messages of the batch not yet dispatched
  cur,        \* message being dispatched, 0 for none
  hb,         \* lease heartbeat of each message of each process
  guard,      \* GuardedHandoffState of the message being dispatched
  reply,      \* what the handler has learnt or returned
  attempts,   \* the failure-attempts hash in Redis
  local,      \* LocalFailureTracker of each process
  failed,     \* runs whose status mark_request_failed has set
  failures,   \* history: failed handler calls per message, up to MaxRetries
  succeeded   \* history: messages for which some handler call returned Ok

engineVars == <<pc, follow, batch, cur, hb, guard, reply,
                attempts, local, failed, failures, succeeded>>
vars == <<groupVars, engineVars>>

PC == {"new", "reclaim", "poll", "dispatch", "handling", "stopping",
       "ack", "clear", "record", "dlq", "mark", "down"}
Heartbeat == {"off", "on", "wait", "quiet", "lost"}
GuardState == {"not_started", "in_progress", "committed", "failed"}
Reply == {"none", "ok", "err", "deferred", "lost"}
Tally == 0 .. MaxRetries

TypeOK ==
  /\ GroupTypeOK
  /\ pc \in [Consumers -> PC]
  /\ follow \in [Consumers -> {"poll", "reclaim"}]
  /\ batch \in [Consumers -> SUBSET Ids]
  /\ cur \in [Consumers -> Ids \cup {0}]
  /\ hb \in [Consumers -> [Ids -> Heartbeat]]
  /\ guard \in [Consumers -> GuardState]
  /\ reply \in [Consumers -> Reply]
  /\ attempts \in [Ids -> Tally]
  /\ local \in [Consumers -> [Ids -> Tally]]
  /\ failed \in SUBSET Ids
  /\ failures \in [Ids -> Tally]
  /\ succeeded \in SUBSET Ids

Init ==
  /\ GroupInit
  /\ pc = [c \in Consumers |-> "new"]
  /\ follow = [c \in Consumers |-> "poll"]
  /\ batch = [c \in Consumers |-> {}]
  /\ cur = [c \in Consumers |-> 0]
  /\ hb = [c \in Consumers |-> [m \in Ids |-> "off"]]
  /\ guard = [c \in Consumers |-> "not_started"]
  /\ reply = [c \in Consumers |-> "none"]
  /\ attempts = [m \in Ids |-> 0]
  /\ local = [c \in Consumers |-> [m \in Ids |-> 0]]
  /\ failed = {}
  /\ failures = [m \in Ids |-> 0]
  /\ succeeded = {}

\* One more failure.  HINCRBY and the local tracker count on without limit;
\* only attempts < max_retries is ever asked, so the model stops at MaxRetries.
Bump(n) == IF n < MaxRetries THEN n + 1 ELSE n

Goto(c, l) == pc' = [pc EXCEPT ![c] = l]

\* The loop is done with cur[c]: on to the next message of the batch, or to
\* what follows the batch.
Advance(c) ==
  /\ Goto(c, IF batch[c] = {} THEN follow[c] ELSE "dispatch")
  /\ cur' = [cur EXCEPT ![c] = 0]
  /\ hb' = [hb EXCEPT ![c][cur[c]] = "off"]
  /\ guard' = [guard EXCEPT ![c] = "not_started"]
  /\ reply' = [reply EXCEPT ![c] = "none"]
  /\ UNCHANGED <<follow, batch>>

\* Mutant: only the message dispatched first has its lease renewed.
BeginBatchFirstOnly(c, S, f) ==
  /\ Goto(c, IF S = {} THEN f ELSE "dispatch")
  /\ batch' = [batch EXCEPT ![c] = S]
  /\ follow' = [follow EXCEPT ![c] = f]
  /\ hb' = [hb EXCEPT ![c] = [m \in Ids |-> IF m \in S /\ \A n \in S : m <= n
                                           THEN "on" ELSE "off"]]
  /\ UNCHANGED <<cur, guard, reply, attempts, local, failed, failures, succeeded>>

\* A batch S has arrived: dispatch_messages spawns every heartbeat first.
BeginBatch(c, S, f) ==
  /\ Goto(c, IF S = {} THEN f ELSE "dispatch")
  /\ batch' = [batch EXCEPT ![c] = S]
  /\ follow' = [follow EXCEPT ![c] = f]
  /\ hb' = [hb EXCEPT ![c] = [m \in Ids |-> IF m \in S THEN "on" ELSE "off"]]
  /\ UNCHANGED <<cur, guard, reply, attempts, local, failed, failures, succeeded>>
-----------------------------------------------------------------------------
(* The loop of run_with_inputs.                                            *)

Start(c) ==
  /\ pc[c] = "new"
  /\ Goto(c, "reclaim")
  /\ UNCHANGED <<groupVars, follow, batch, cur, hb, guard, reply,
                 attempts, local, failed, failures, succeeded>>

ReclaimIdle(c) ==
  /\ pc[c] = "reclaim"
  /\ ClaimIdleMessages(c)
  /\ BeginBatch(c, IdleHead, "poll")

\* Mutant: after a poll the loop polls again and never reclaims.
PollStreamForever(c) ==
  /\ pc[c] = "poll"
  /\ ReadMessages(c)
  /\ BeginBatch(c, Unread, "poll")

PollStream(c) ==
  /\ pc[c] = "poll"
  /\ ReadMessages(c)
  /\ BeginBatch(c, Unread, "reclaim")

\* Next message in delivery order; skipped when its heartbeat already
\* reported that another consumer owns it.
NextMessage(c) ==
  /\ pc[c] = "dispatch"
  /\ \E m \in batch[c] :
       /\ \A n \in batch[c] : m <= n
       /\ batch' = [batch EXCEPT ![c] = @ \ {m}]
       /\ IF hb[c][m] = "lost"
          THEN /\ Goto(c, IF batch[c] = {m} THEN follow[c] ELSE "dispatch")
               /\ hb' = [hb EXCEPT ![c][m] = "off"]
               /\ UNCHANGED cur
          ELSE /\ Goto(c, "handling")
               /\ cur' = [cur EXCEPT ![c] = m]
               /\ UNCHANGED hb
  /\ UNCHANGED <<groupVars, follow, guard, reply,
                 attempts, local, failed, failures, succeeded>>
-----------------------------------------------------------------------------
(* The handler.  reply[c] = "none" until it has met its result.            *)

Handling(c) == pc[c] = "handling" /\ reply[c] = "none"

\* handoff / forward_many: one script.  The caller sees an error when the
\* source was not pending, and may also see one although the script took
\* effect (HSET_FAILED, or a reply lost with the connection).
RoleHandoff(c) ==
  /\ Handling(c) /\ guard[c] = "not_started"
  /\ "handoff" \in RoleActs
  /\ HandoffAndAck(cur[c], "next")
  /\ \E r \in IF cur[c] \in Pending THEN {"ok", "err"} ELSE {"err"} :
       reply' = [reply EXCEPT ![c] = r]
  /\ UNCHANGED <<pc, follow, batch, cur, hb, guard,
                 attempts, local, failed, failures, succeeded>>

\* GuardedHandoffTracker::start, before the guarded script is sent.
GuardedStart(c) ==
  /\ Handling(c) /\ guard[c] = "not_started"
  /\ "guarded" \in RoleActs
  /\ guard' = [guard EXCEPT ![c] = "in_progress"]
  /\ UNCHANGED <<groupVars, pc, follow, batch, cur, hb, reply,
                 attempts, local, failed, failures, succeeded>>

\* The guarded script runs.  It refuses with an error when the finalization
\* claim is not the caller's; an entry that is no longer pending for this
\* consumer comes back as the ownership-lost error.
GuardedRun(c) ==
  /\ Handling(c) /\ guard[c] = "in_progress"
  /\ \/ /\ GuardedHandoff(c, cur[c])
        /\ \E r \in IF pel[cur[c]] = c THEN {"ok", "err"} ELSE {"lost"} :
             reply' = [reply EXCEPT ![c] = r]
     \/ /\ UNCHANGED groupVars
        /\ reply' = [reply EXCEPT ![c] = "err"]
  /\ UNCHANGED <<pc, follow, batch, cur, hb, guard,
                 attempts, local, failed, failures, succeeded>>

\* GuardedHandoffTracker::finish, when the reply has arrived.
GuardedFinish(c) ==
  /\ pc[c] = "handling" /\ guard[c] = "in_progress" /\ reply[c] # "none"
  /\ guard' = [guard EXCEPT ![c] = IF reply[c] = "ok" THEN "committed" ELSE "failed"]
  /\ UNCHANGED <<groupVars, pc, follow, batch, cur, hb, reply,
                 attempts, local, failed, failures, succeeded>>

\* The handler returns r.  Work after a successful handoff (the collect role's
\* clean-up) may still fail.  The select is biased: a known ownership loss wins.
RoleReturn(c) ==
  /\ pc[c] = "handling" /\ guard[c] # "in_progress"
  /\ hb[c][cur[c]] # "lost"
  /\ \E r \in CASE reply[c] = "none" -> RoleActs \cap {"ok", "err", "deferred"}
                [] reply[c] = "ok" -> {"ok"} \cup (RoleActs \cap {"err"})
                [] OTHER -> {reply[c]} :
       /\ reply' = [reply EXCEPT ![c] = r]
       /\ failures' = IF r = "err" THEN [failures EXCEPT ![cur[c]] = Bump(@)] ELSE failures
       /\ succeeded' = IF r = "ok" THEN succeeded \cup {cur[c]} ELSE succeeded
  /\ Goto(c, "stopping")
  /\ UNCHANGED <<groupVars, follow, batch, cur, hb, guard, attempts, local, failed>>

\* Ownership loss ends the handler, at whatever point it is.
CancelHandler(c) ==
  /\ pc[c] = "handling" /\ hb[c][cur[c]] = "lost"
  /\ Advance(c)
  /\ UNCHANGED <<groupVars, attempts, local, failed, failures, succeeded>>
-----------------------------------------------------------------------------
(* The heartbeat tasks.                                                    *)

GuardOf(c, m) == IF cur[c] = m THEN guard[c] ELSE "not_started"

\* Mutant: an undecided guarded handoff counts as a lost lease.
VerdictHasty(g) == IF g = "committed" THEN "quiet" ELSE "lost"

\* A renewal that finds the message gone asks whether this process's own
\* guarded handoff removed it, and waits while that is still undecided.
Verdict(g) == CASE g = "committed" -> "quiet"
                [] g = "in_progress" -> "wait"
                [] OTHER -> "lost"

HeartbeatTick(c, m) ==
  /\ pc[c] \notin {"new", "down"} /\ hb[c][m] = "on"
  /\ RenewMessageLease(c, m)
  /\ hb' = IF pel[m] = c THEN hb
           ELSE [hb EXCEPT ![c][m] = Verdict(GuardOf(c, m))]
  /\ UNCHANGED <<pc, follow, batch, cur, guard, reply,
                 attempts, local, failed, failures, succeeded>>

HeartbeatResolve(c, m) ==
  /\ hb[c][m] = "wait" /\ GuardOf(c, m) # "in_progress"
  /\ hb' = [hb EXCEPT ![c][m] = Verdict(GuardOf(c, m))]
  /\ UNCHANGED <<groupVars, pc, follow, batch, cur, guard, reply,
                 attempts, local, failed, failures, succeeded>>

\* Time passes.  With TimelyHeartbeats the lease of a message with a running
\* heartbeat never expires (the interval is at most a third of the lease).
LeaseExpires(m) ==
  /\ TimelyHeartbeats => ~(\E c \in Consumers : pel[m] = c /\ hb[c][m] = "on")
  /\ LeaseTimeout(m)
  /\ UNCHANGED engineVars
-----------------------------------------------------------------------------
(* After the handler.                                                      *)

\* Mutant: a deferred message is acknowledged.
StopHeartbeatAcksDeferred(c) ==
  /\ pc[c] = "stopping" /\ hb[c][cur[c]] # "wait"
  /\ IF hb[c][cur[c]] = "lost" \/ reply[c] = "lost"
     THEN Advance(c)
     ELSE /\ Goto(c, IF reply[c] = "err" THEN "record" ELSE "ack")
          /\ hb' = [hb EXCEPT ![c][cur[c]] = "off"]
          /\ UNCHANGED <<follow, batch, cur, guard, reply>>
  /\ UNCHANGED <<groupVars, attempts, local, failed, failures, succeeded>>

\* heartbeat.stop() joins the task, then the verdict is read.
StopHeartbeat(c) ==
  /\ pc[c] = "stopping" /\ hb[c][cur[c]] # "wait"
  /\ IF hb[c][cur[c]] = "lost" \/ reply[c] = "lost"
     THEN Advance(c)
     ELSE /\ Goto(c, CASE reply[c] = "ok" -> "ack"
                       [] reply[c] = "deferred" -> "clear"
                       [] OTHER -> "record")
          /\ hb' = [hb EXCEPT ![c][cur[c]] = "off"]
          /\ UNCHANGED <<follow, batch, cur, guard, reply>>
  /\ UNCHANGED <<groupVars, attempts, local, failed, failures, succeeded>>

Ack(c) ==
  /\ pc[c] = "ack"
  /\ AckMessage(cur[c])
  /\ Goto(c, "clear")
  /\ UNCHANGED <<follow, batch, cur, hb, guard, reply,
                 attempts, local, failed, failures, succeeded>>

\* Mutant: the count is taken back by one instead of being removed.
ClearFailureAttemptByOne(c) ==
  /\ pc[c] = "clear"
  /\ attempts' = [attempts EXCEPT ![cur[c]] = @ - 1]
  /\ local' = [local EXCEPT ![c][cur[c]] = 0]
  /\ Advance(c)
  /\ UNCHANGED <<groupVars, failed, failures, succeeded>>

\* clear_failure_attempt: the Redis field (unless the call fails) and the
\* local count.
ClearFailureAttempt(c) ==
  /\ pc[c] = "clear"
  /\ \E gone \in IF StoreErrors THEN BOOLEAN ELSE {TRUE} :
       attempts' = IF gone THEN [attempts EXCEPT ![cur[c]] = 0] ELSE attempts
  /\ local' = [local EXCEPT ![c][cur[c]] = 0]
  /\ Advance(c)
  /\ UNCHANGED <<groupVars, failed, failures, succeeded>>

\* Mutant: off by one at the retry limit.
AfterRecordEarly(c, n) ==
  IF n + 1 < MaxRetries
  THEN Advance(c)
  ELSE Goto(c, "dlq") /\ UNCHANGED <<follow, batch, cur, hb, guard, reply>>

AfterRecord(c, n) ==
  IF n < MaxRetries
  THEN Advance(c)
  ELSE Goto(c, "dlq") /\ UNCHANGED <<follow, batch, cur, hb, guard, reply>>

\* record_failure_attempt: HINCRBY then EXPIRE; an error of either falls back
\* to the local count, the first having or not having taken effect.
RecordFailureAttempt(c) ==
  LET m == cur[c] IN
  /\ pc[c] = "record"
  /\ \/ /\ attempts' = [attempts EXCEPT ![m] = Bump(@)]
        /\ UNCHANGED local
        /\ AfterRecord(c, Bump(attempts[m]))
     \/ /\ StoreErrors
        /\ \E kept \in BOOLEAN :
             attempts' = IF kept THEN [attempts EXCEPT ![m] = Bump(@)] ELSE attempts
        /\ local' = [local EXCEPT ![c][m] = Bump(@)]
        /\ AfterRecord(c, Bump(local[c][m]))
  /\ UNCHANGED <<groupVars, failed, failures, succeeded>>

\* Mutant: enqueue to the DLQ, then acknowledge, as two independent calls.
MoveToDlqUnguarded(c) ==
  /\ pc[c] = "dlq"
  /\ Unlist({cur[c]})
  /\ out' = Added({cur[c]}, {"dlq"})
  /\ Goto(c, "mark")
  /\ UNCHANGED <<added, cursor, acked, follow, batch, cur, hb, guard, reply>>
  /\ UNCHANGED <<attempts, local, failed, failures, succeeded>>

\* Mutant: the run is marked failed whatever the handoff to the DLQ returned.
MoveToDlqMarksAnyway(c) ==
  /\ pc[c] = "dlq"
  /\ HandoffAndAck(cur[c], "dlq")
  /\ Goto(c, "mark")
  /\ UNCHANGED <<follow, batch, cur, hb, guard, reply>>
  /\ UNCHANGED <<attempts, local, failed, failures, succeeded>>

\* The retry limit: hand the message to the DLQ.  Only a handoff known to have
\* succeeded goes on to mark the run; otherwise the message is left as it is.
MoveToDlq(c) ==
  /\ pc[c] = "dlq"
  /\ \/ /\ HandoffAndAck(cur[c], "dlq")
        /\ \/ /\ cur[c] \in Pending
              /\ Goto(c, "mark")
              /\ UNCHANGED <<follow, batch, cur, hb, guard, reply>>
           \/ /\ cur[c] \notin Pending \/ StoreErrors
              /\ Advance(c)
     \/ /\ StoreErrors
        /\ UNCHANGED groupVars
        /\ Advance(c)
  /\ UNCHANGED <<attempts, local, failed, failures, succeeded>>

MarkRequestFailed(c) ==
  /\ pc[c] = "mark"
  /\ \/ failed' = failed \cup {cur[c]}
     \/ StoreErrors /\ UNCHANGED failed
  /\ Goto(c, "clear")
  /\ UNCHANGED <<groupVars, follow, batch, cur, hb, guard, reply,
                 attempts, local, failures, succeeded>>
-----------------------------------------------------------------------------
\* The process goes away: a crash, a shutdown, or an error of poll, reclaim or
\* ack that ends run_until_shutdown.  Its consumer name is never used again.
Exit(c) ==
  /\ c \in Mortal /\ pc[c] \notin {"new", "down"}
  /\ Goto(c, "down")
  /\ batch' = [batch EXCEPT ![c] = {}]
  /\ cur' = [cur EXCEPT ![c] = 0]
  /\ hb' = [hb EXCEPT ![c] = [m \in Ids |-> "off"]]
  /\ guard' = [guard EXCEPT ![c] = "not_started"]
  /\ reply' = [reply EXCEPT ![c] = "none"]
  /\ local' = [local EXCEPT ![c] = [m \in Ids |-> 0]]
  /\ UNCHANGED <<groupVars, follow, attempts, failed, failures, succeeded>>

Enqueue == EnqueueToStream /\ UNCHANGED engineVars

Loop(c) ==
  \/ Start(c) \/ ReclaimIdle(c) \/ PollStream(c) \/ NextMessage(c)
  \/ RoleHandoff(c) \/ GuardedStart(c) \/ GuardedRun(c) \/ GuardedFinish(c)
  \/ RoleReturn(c) \/ CancelHandler(c) \/ StopHeartbeat(c)
  \/ Ack(c) \/ ClearFailureAttempt(c) \/ RecordFailureAttempt(c)
  \/ MoveToDlq(c) \/ MarkRequestFailed(c)

Next ==
  \/ Enqueue
  \/ \E c \in Consumers : Loop(c)
  \/ \E c \in Consumers, m \in Ids : HeartbeatTick(c, m)
  \/ \E c \in Consumers, m \in Ids : HeartbeatResolve(c, m)
  \/ \E m \in Ids : LeaseExpires(m)
  \/ \E c \in Consumers : Exit(c)

Spec == Init /\ [][Next]_vars

\* Weak fairness: a process keeps running its loop or goes away, its heartbeat
\* tasks keep being scheduled, and time passes.
FairSpec ==
  /\ Spec
  /\ \A c \in Consumers : WF_vars(Loop(c) \/ Exit(c))
  /\ \A c \in Consumers, m \in Ids : WF_vars(HeartbeatTick(c, m) \/ HeartbeatResolve(c, m))
  /\ \A m \in Ids : WF_vars(LeaseExpires(m))
-----------------------------------------------------------------------------
(* Properties.                                                             *)

\* A message leaves the stage one way only: forwarded, moved to the DLQ, or
\* acknowledged - also when a stale process retries, dead-letters or
\* acknowledges a message that another process already finished.
SettledOneWay ==
  \A m \in Ids :
    /\ out[m]["next"] + out[m]["dlq"] <= 1
    /\ m \in acked => ~Standing(m)

\* Nothing is dropped by an acknowledgement: a message acknowledged without a
\* handoff was reported done by a handler (engine.rs: Err leaves it pending).
AckedOnlyAfterSuccess == acked \subseteq succeeded

\* A message reaches the DLQ only after max_retries failed handler calls,
\* whichever processes made them, with the persisted count, the local fallback
\* and their clean-up in any order.
DlqOnlyAfterRetries ==
  \A m \in Ids : out[m]["dlq"] > 0 => failures[m] = MaxRetries

\* A run is reported failed by the engine only when its message is in the DLQ.
FailedImpliesDlq == \A m \in failed : out[m]["dlq"] > 0

\* The heartbeat never mistakes the process's own committed guarded handoff
\* for a lost lease, so the handler is not cancelled after it.
OwnCommitIsNotLoss ==
  \A c \in Consumers : guard[c] = "committed" => hb[c][cur[c]] # "lost"

\* While renewals land in time no message is handled by two processes at once,
\* including messages that wait in a batch behind a long handler.
SingleHandler ==
  \A c, d \in Consumers :
    c # d /\ pc[c] = "handling" /\ pc[d] = "handling" => cur[c] # cur[d]

\* Every message of the stream is eventually settled, through retries, process
\* exits and reclaims, when the role does not defer for ever.
EventuallySettled == \A m \in Ids : m <= added ~> Settled(m)

\* The run of a message moved to the DLQ is eventually reported failed.
DlqRunReportedFailed == \A m \in Ids : out[m]["dlq"] > 0 ~> m \in failed
=============================================================================

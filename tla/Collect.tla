------------------------------- MODULE Collect -------------------------------
(***************************************************************************)
(* The collect role (worker-runtime/src/roles/collect.rs) for one fanout   *)
(* parent: its Redis group, the finalization claim with its owner token    *)
(* and TTL, and the workers that append child results and finalize the     *)
(* parent.  The input is the collect stream of StreamGroup; each message   *)
(* reports one child, as succeeded or as failed, and a child may be        *)
(* reported more than once, with different outcomes.  One action is one    *)
(* Redis command or script.  A worker takes one message at a time; the     *)
(* engine around the handler is reduced to delivery, loss of the lease,    *)
(* acknowledgement and the DLQ (see WorkerEngine).                         *)
(***************************************************************************)
EXTENDS StreamGroup

CONSTANTS
  Children,       \* child runs of the parent
  FailedReports,  \* the sets of messages that may be the failure reports
  FailFast,       \* failure_policy = fail_fast, otherwise collect_all
  Mortal,         \* workers whose process may exit
  MaxFaults,      \* bound: Redis calls that fail, in the whole run
  Dlq,            \* FALSE: max_retries is above the failures a run can have
  Late,           \* TRUE: a lease or a claim may expire under a live worker
  SchedulerAt     \* where in init_group a second, delayed scheduler may stand

ASSUME CollectAssumption ==
  /\ Count = 1
  /\ IsFiniteSet(Children) /\ Children # {}
  /\ FailedReports \subseteq SUBSET Ids
  /\ Mortal \subseteq Consumers
  /\ MaxFaults \in Nat
  /\ {FailFast, Dlq, Late} \subseteq BOOLEAN
  /\ SchedulerAt \subseteq {"setnx", "reset", "touch", "done"}

VARIABLES
  child,      \* the child each message reports
  bad,        \* the messages that report a failure
  group,      \* the group's metadata key exists
  collected,  \* messages whose result is in the group's list
  fin,        \* the finalization key: "free", "claimed" or "committed"
  owner,      \* the worker whose token the finalization key holds
  terminal,   \* the parent's terminal key exists
  stage,      \* stage field of the parent's run hash
  at,         \* where each worker is in process_message
  msg,        \* the message it handles
  count,      \* item_count that its append returned
  snap,       \* the results it loaded for the aggregate
  mine,       \* its own guarded handoff is known to have committed
  faults,     \* Redis failures so far
  delayed,    \* where the delayed scheduler stands
  aggregates  \* history: contents of the parent results handed off

storeVars == <<group, collected, fin, owner, terminal, stage>>
workerVars == <<at, msg, count, snap, mine>>
reportVars == <<child, bad>>
vars == <<groupVars, storeVars, workerVars, reportVars, faults, delayed, aggregates>>

At == {"idle", "terminal?", "append", "missing?", "progress", "committed?",
       "claim", "blocked?", "meta", "gone?", "items", "handoff", "commit",
       "mark", "discard", "drop", "release", "yield", "ok", "err", "down"}

\* Inside finalize_parent_group, where an error releases the claim.
Finalizing == {"meta", "gone?", "items", "handoff", "commit"}

CollectTypeOK ==
  /\ GroupTypeOK
  /\ child \in [Ids -> Children]
  /\ bad \in SUBSET Ids
  /\ group \in BOOLEAN /\ terminal \in BOOLEAN
  /\ collected \in SUBSET Ids
  /\ fin \in {"free", "claimed", "committed"}
  /\ owner \in Consumers \cup {None}
  /\ stage \in {"executing", "next"}
  /\ at \in [Consumers -> At]
  /\ msg \in [Consumers -> Ids \cup {0}]
  /\ count \in [Consumers -> Nat]
  /\ snap \in [Consumers -> SUBSET Ids]
  /\ mine \in [Consumers -> BOOLEAN]
  /\ faults \in 0 .. MaxFaults
  /\ delayed \in {"setnx", "reset", "touch", "done"}
  /\ aggregates \in SUBSET SUBSET Ids

\* The scheduler has initialized the group and forwarded the children.
Init ==
  /\ GroupInit
  /\ child \in {f \in [Ids -> Children] : \A k \in Children : \E m \in Ids : f[m] = k}
  /\ bad \in FailedReports
  /\ group = TRUE /\ collected = {}
  /\ fin = "free" /\ owner = None
  /\ terminal = FALSE /\ stage = "executing"
  /\ at = [c \in Consumers |-> "idle"]
  /\ msg = [c \in Consumers |-> 0]
  /\ count = [c \in Consumers |-> 0]
  /\ snap = [c \in Consumers |-> {}]
  /\ mine = [c \in Consumers |-> FALSE]
  /\ faults = 0
  /\ delayed \in SchedulerAt
  /\ aggregates = {}

\* The children that the messages of S report.
Of(S) == {child[m] : m \in S}

Goto(c, l) == at' = [at EXCEPT ![c] = l]

\* Leaving the handler forgets its locals.
Leave(c, l) ==
  /\ Goto(c, l)
  /\ msg' = [msg EXCEPT ![c] = 0]
  /\ count' = [count EXCEPT ![c] = 0]
  /\ snap' = [snap EXCEPT ![c] = {}]
  /\ mine' = [mine EXCEPT ![c] = FALSE]

\* A handler step that only reads.
Reads(c) == UNCHANGED <<groupVars, storeVars, msg, count, snap, mine,
                        reportVars, faults, delayed, aggregates>>
-----------------------------------------------------------------------------
(* process_message.                                                        *)

IsTerminal(c) ==
  /\ at[c] = "terminal?"
  /\ Goto(c, IF terminal THEN "drop" ELSE "append")
  /\ Reads(c)

\* Mutant: results are appended without looking at the set of known children.
AddResultTwice(c) ==
  LET new == group /\ fin = "free" IN
  /\ at[c] = "append"
  /\ collected' = IF new THEN collected \cup {msg[c]} ELSE collected
  /\ count' = [count EXCEPT ![c] = Cardinality(collected')]
  /\ Goto(c, IF ~group THEN "missing?" ELSE IF new THEN "progress" ELSE "committed?")
  /\ UNCHANGED <<groupVars, group, fin, owner, terminal, stage, msg, snap, mine,
                 reportVars, faults, delayed, aggregates>>

\* APPEND_MEMBER_RESULT_LUA: no group, closed group, known child or new child.
\* The first report of a child is the one whose result is kept.
AddResult(c) ==
  LET new == group /\ fin = "free" /\ child[msg[c]] \notin Of(collected) IN
  /\ at[c] = "append"
  /\ collected' = IF new THEN collected \cup {msg[c]} ELSE collected
  /\ count' = [count EXCEPT ![c] = Cardinality(collected')]
  /\ Goto(c, IF ~group THEN "missing?" ELSE IF new THEN "progress" ELSE "committed?")
  /\ UNCHANGED <<groupVars, group, fin, owner, terminal, stage, msg, snap, mine,
                 reportVars, faults, delayed, aggregates>>

\* "was not initialized": fine for a terminal parent, an error otherwise.
IsTerminalAfterMissing(c) ==
  /\ at[c] = "missing?"
  /\ Goto(c, IF terminal THEN "ok" ELSE "err")
  /\ Reads(c)

\* Mutant: the status goes into the stage field.
PersistProgressWrongField(c) ==
  /\ at[c] = "progress"
  /\ stage' = IF fin = "free" THEN "running" ELSE stage
  /\ Goto(c, "committed?")
  /\ UNCHANGED <<groupVars, group, collected, fin, owner, terminal, msg, count, snap, mine,
                 reportVars, faults, delayed, aggregates>>

\* Mutant: progress is written whether or not the group is open.
PersistProgressAlways(c) ==
  /\ at[c] = "progress"
  /\ stage' = "executing"
  /\ Goto(c, "committed?")
  /\ UNCHANGED <<groupVars, group, collected, fin, owner, terminal, msg, count, snap, mine,
                 reportVars, faults, delayed, aggregates>>

\* PERSIST_COLLECT_PROGRESS_IF_OPEN_LUA.
PersistProgress(c) ==
  /\ at[c] = "progress"
  /\ stage' = IF fin = "free" THEN "executing" ELSE stage
  /\ Goto(c, "committed?")
  /\ UNCHANGED <<groupVars, group, collected, fin, owner, terminal, msg, count, snap, mine,
                 reportVars, faults, delayed, aggregates>>

\* Mutant: off by one in the completeness test.
ShouldFinalizeEarly(c) ==
  \/ FailFast /\ msg[c] \in bad
  \/ count[c] + 1 >= Cardinality(Children)

\* The status is that of the message at hand, appended or not.
ShouldFinalize(c) ==
  \/ FailFast /\ msg[c] \in bad
  \/ count[c] >= Cardinality(Children)

IsFinalizationCommitted(c) ==
  /\ at[c] = "committed?"
  /\ Goto(c, CASE fin = "committed" -> "mark"
               [] fin # "committed" /\ ShouldFinalize(c) -> "claim"
               [] OTHER -> "ok")
  /\ Reads(c)

\* SET NX EX with a fresh token.
ClaimFinalization(c) ==
  /\ at[c] = "claim"
  /\ fin' = IF fin = "free" THEN "claimed" ELSE fin
  /\ owner' = IF fin = "free" THEN c ELSE owner
  /\ Goto(c, IF fin = "free" THEN "meta" ELSE "blocked?")
  /\ UNCHANGED <<groupVars, group, collected, terminal, stage, msg, count, snap, mine,
                 reportVars, faults, delayed, aggregates>>

\* Mutant: any finalization key is taken for a committed one.
IsCommittedAfterClaimAny(c) ==
  /\ at[c] = "blocked?"
  /\ IF fin # "free" THEN Goto(c, "mark") /\ UNCHANGED <<msg, count, snap, mine>>
                      ELSE Leave(c, "idle")
  /\ UNCHANGED <<groupVars, storeVars, reportVars, faults, delayed, aggregates>>

\* Somebody else holds the claim: clean up after a commit, or defer.
IsCommittedAfterClaim(c) ==
  /\ at[c] = "blocked?"
  /\ IF fin = "committed" THEN Goto(c, "mark") /\ UNCHANGED <<msg, count, snap, mine>>
                          ELSE Leave(c, "idle")
  /\ UNCHANGED <<groupVars, storeVars, reportVars, faults, delayed, aggregates>>
-----------------------------------------------------------------------------
(* finalize_parent_group.                                                  *)

\* load_group reads the metadata, then the results, in two commands.
LoadMeta(c) ==
  /\ at[c] = "meta"
  /\ Goto(c, IF group THEN "items" ELSE "gone?")
  /\ Reads(c)

\* A group that is gone is fine for a terminal parent; the claim is kept then.
IsTerminalAfterGone(c) ==
  /\ at[c] = "gone?"
  /\ Goto(c, IF terminal THEN "ok" ELSE "release")
  /\ Reads(c)

LoadItems(c) ==
  /\ at[c] = "items"
  /\ snap' = [snap EXCEPT ![c] = collected]
  /\ Goto(c, "handoff")
  /\ UNCHANGED <<groupVars, storeVars, msg, count, mine, reportVars, faults, delayed, aggregates>>

\* Mutant: the script checks the pending entry but not the owner token.
HandoffWithoutToken(c) ==
  /\ at[c] = "handoff"
  /\ IF pel[msg[c]] = c
     THEN /\ GuardedHandoff(c, msg[c])
          /\ fin' = "committed"
          /\ stage' = "next"
          /\ aggregates' = aggregates \cup {snap[c]}
          /\ Goto(c, "commit")
          /\ mine' = [mine EXCEPT ![c] = TRUE]
     ELSE /\ Goto(c, "yield")
          /\ UNCHANGED <<groupVars, fin, stage, aggregates, mine>>
  /\ UNCHANGED <<group, collected, owner, terminal, msg, count, snap, reportVars, faults, delayed>>

\* HANDOFF_AND_COMMIT_FINALIZATION_LUA: token, pending entry and consumer are
\* checked, and the parent is handed off, the source acknowledged and the
\* finalization committed, in one script.  The reply may be lost.  The write of
\* the publication fields that may precede it touches none of the modelled ones.
HandoffToRunAndCommit(c) ==
  /\ at[c] = "handoff"
  /\ IF fin = "claimed" /\ owner = c /\ pel[msg[c]] = c
     THEN /\ GuardedHandoff(c, msg[c])
          /\ fin' = "committed"
          /\ stage' = "next"
          /\ aggregates' = aggregates \cup {snap[c]}
          /\ \/ /\ Goto(c, "commit")
                /\ mine' = [mine EXCEPT ![c] = TRUE]
                /\ UNCHANGED faults
             \/ /\ faults < MaxFaults
                /\ faults' = faults + 1
                /\ Goto(c, "release")
                /\ UNCHANGED mine
     ELSE /\ Goto(c, IF fin = "claimed" /\ owner = c THEN "yield" ELSE "release")
          /\ UNCHANGED <<groupVars, fin, stage, aggregates, mine, faults>>
  /\ UNCHANGED <<group, collected, owner, terminal, msg, count, snap, reportVars, delayed>>

\* COMMIT_COLLECT_FINALIZATION_IF_OWNER_LUA.
CommitFinalization(c) ==
  /\ at[c] = "commit"
  /\ fin' = IF fin = "claimed" /\ owner = c THEN "committed" ELSE fin
  /\ Goto(c, IF fin # "free" /\ owner = c THEN "mark" ELSE "release")
  /\ UNCHANGED <<groupVars, group, collected, owner, terminal, stage, msg, count, snap, mine,
                 reportVars, faults, delayed, aggregates>>

\* complete_finalization_cleanup: terminal first, then the group.
MarkTerminal(c) ==
  /\ at[c] = "mark"
  /\ terminal' = TRUE
  /\ Goto(c, "discard")
  /\ UNCHANGED <<groupVars, group, collected, fin, owner, stage, msg, count, snap, mine,
                 reportVars, faults, delayed, aggregates>>

\* DISCARD_COLLECT_GROUP_LUA: a committed finalization key stays.
DiscardGroup(c) ==
  /\ at[c] \in {"discard", "drop"}
  /\ group' = FALSE
  /\ collected' = {}
  /\ fin' = IF fin = "committed" THEN fin ELSE "free"
  /\ owner' = IF fin = "committed" THEN owner ELSE None
  /\ Goto(c, "ok")
  /\ UNCHANGED <<groupVars, terminal, stage, msg, count, snap, mine,
                 reportVars, faults, delayed, aggregates>>

\* RELEASE_COLLECT_FINALIZATION_IF_OWNER_LUA, after an error of the above.  When
\* the error is the loss of the lease the engine leaves the message alone.
ReleaseFinalizationClaim(c) ==
  LET own == fin = "claimed" /\ owner = c IN
  /\ at[c] \in {"release", "yield"}
  /\ fin' = IF own THEN "free" ELSE fin
  /\ owner' = IF own THEN None ELSE owner
  /\ \/ /\ at[c] = "release" /\ Goto(c, "err")
        /\ UNCHANGED <<msg, count, snap, mine>>
     \/ at[c] = "yield" /\ Leave(c, "idle")
  /\ UNCHANGED <<groupVars, group, collected, terminal, stage,
                 reportVars, faults, delayed, aggregates>>
-----------------------------------------------------------------------------
(* Faults, time and the engine.                                            *)

\* A Redis call of the handler fails: inside finalize_parent_group the claim
\* is released, elsewhere (the release itself included) the error goes up.
StoreFails(c) ==
  /\ at[c] \notin {"idle", "down", "ok", "err"}
  /\ faults < MaxFaults
  /\ faults' = faults + 1
  /\ Goto(c, IF at[c] \in Finalizing \/ (at[c] \in {"mark", "discard"} /\ mine[c])
             THEN "release" ELSE "err")
  /\ UNCHANGED <<groupVars, storeVars, msg, count, snap, mine, reportVars, delayed, aggregates>>

\* Mutant: the claim is set without a TTL.
ClaimNeverExpires == FALSE

\* The TTL of an uncommitted claim runs out.
ClaimExpires ==
  /\ fin = "claimed"
  /\ Late \/ at[owner] \notin Finalizing \cup {"release", "yield"}
  /\ fin' = "free" /\ owner' = None
  /\ UNCHANGED <<groupVars, group, collected, terminal, stage, workerVars,
                 reportVars, faults, delayed, aggregates>>

\* The engine delivers a message, new or reclaimed.
Take(c) ==
  /\ at[c] = "idle"
  /\ \E m \in Ids :
       /\ \/ Unread = {m} /\ ReadMessages(c)
          \/ IdleHead = {m} /\ ClaimIdleMessages(c)
       /\ msg' = [msg EXCEPT ![c] = m]
  /\ Goto(c, "terminal?")
  /\ UNCHANGED <<storeVars, count, snap, mine, reportVars, faults, delayed, aggregates>>

\* The heartbeat found the lease lost (never after the worker's own committed
\* handoff) and the handler is dropped where it stands.
CancelHandler(c) ==
  /\ at[c] \notin {"idle", "down"}
  /\ pel[msg[c]] # c /\ ~mine[c]
  /\ Leave(c, "idle")
  /\ UNCHANGED <<groupVars, storeVars, reportVars, faults, delayed, aggregates>>

Ack(c) ==
  /\ at[c] = "ok"
  /\ AckMessage(msg[c])
  /\ Leave(c, "idle")
  /\ UNCHANGED <<storeVars, reportVars, faults, delayed, aggregates>>

\* Mutant: a failed message is acknowledged.
LeaveOrDlqAcks(c) ==
  /\ at[c] = "err"
  /\ AckMessage(msg[c])
  /\ Leave(c, "idle")
  /\ UNCHANGED <<storeVars, reportVars, faults, delayed, aggregates>>

\* A failed message stays pending, or goes to the DLQ at the retry limit.
LeaveOrDlq(c) ==
  /\ at[c] = "err"
  /\ \/ UNCHANGED groupVars
     \/ Dlq /\ HandoffAndAck(msg[c], "dlq")
  /\ Leave(c, "idle")
  /\ UNCHANGED <<storeVars, reportVars, faults, delayed, aggregates>>

Exit(c) ==
  /\ c \in Mortal /\ at[c] # "down"
  /\ Leave(c, "down")
  /\ UNCHANGED <<groupVars, storeVars, reportVars, faults, delayed, aggregates>>

LeaseExpires(m) ==
  /\ Late \/ ~(\E c \in Consumers : pel[m] = c /\ msg[c] = m)
  /\ LeaseTimeout(m)
  /\ UNCHANGED <<storeVars, workerVars, reportVars, faults, delayed, aggregates>>

\* A report reaches the collect stream: a child's result, or the failure that
\* the scheduler reports when it gives a child up.
ChildReports ==
  /\ EnqueueToStream
  /\ UNCHANGED <<storeVars, workerVars, reportVars, faults, delayed, aggregates>>

\* Mutant: init_group resets the group also when it already existed.
InitGroupAlwaysResets ==
  /\ delayed = "setnx"
  /\ group' = TRUE /\ collected' = {} /\ fin' = "free" /\ owner' = None
  /\ stage' = "executing" /\ delayed' = "done"
  /\ UNCHANGED <<groupVars, terminal, workerVars, reportVars, faults, aggregates>>

\* init_group, run to its end by a scheduler whose lease on the parent's
\* message was taken over while it stood at delayed: SETNX of the metadata,
\* DEL of the rest when that created it, HSET of the stage.
InitGroup ==
  /\ \/ /\ delayed = "setnx"
        /\ group' = TRUE
        /\ delayed' = IF group THEN "touch" ELSE "reset"
        /\ UNCHANGED <<collected, fin, owner, stage>>
     \/ /\ delayed = "reset"
        /\ collected' = {} /\ fin' = "free" /\ owner' = None
        /\ delayed' = "touch"
        /\ UNCHANGED <<group, stage>>
     \/ /\ delayed = "touch"
        /\ stage' = "executing"
        /\ delayed' = "done"
        /\ UNCHANGED <<group, collected, fin, owner>>
  /\ UNCHANGED <<groupVars, terminal, workerVars, reportVars, faults, aggregates>>

Handle(c) ==
  \/ IsTerminal(c) \/ AddResult(c) \/ IsTerminalAfterMissing(c) \/ PersistProgress(c)
  \/ IsFinalizationCommitted(c) \/ ClaimFinalization(c) \/ IsCommittedAfterClaim(c)
  \/ LoadMeta(c) \/ IsTerminalAfterGone(c) \/ LoadItems(c) \/ HandoffToRunAndCommit(c)
  \/ CommitFinalization(c) \/ MarkTerminal(c) \/ DiscardGroup(c)
  \/ ReleaseFinalizationClaim(c) \/ Ack(c) \/ LeaveOrDlq(c)

Next ==
  \/ \E c \in Consumers :
       Take(c) \/ Handle(c) \/ CancelHandler(c) \/ StoreFails(c) \/ Exit(c)
  \/ \E m \in Ids : LeaseExpires(m)
  \/ ClaimExpires \/ ChildReports \/ InitGroup

Spec == Init /\ [][Next]_vars

\* Workers keep taking and handling messages or go away, heartbeats notice a
\* lost lease, leases and claims expire, and every child eventually reports.
FairSpec ==
  /\ Spec
  /\ \A c \in Consumers : WF_vars(Take(c) \/ Handle(c) \/ CancelHandler(c) \/ Exit(c))
  /\ \A m \in Ids : WF_vars(LeaseExpires(m))
  /\ WF_vars(ClaimExpires) /\ WF_vars(ChildReports)
-----------------------------------------------------------------------------
(* Properties.                                                             *)

Handed == {m \in Ids : out[m]["next"] > 0}

\* Single finalizer: whatever claims expire, workers stall, leases move and
\* replies are lost, the parent is handed to its next stage at most once.
SingleFinalizer ==
  /\ \A m \in Ids : out[m]["next"] <= 1
  /\ \A m, n \in Handed : m = n

\* What is handed off covers every child, counted once however often it was
\* reported; or fail_fast stopped early, and then a delivered report says that
\* one of the children in the aggregate failed.
AggregateComplete ==
  \A a \in aggregates :
    \/ Of(a) = Children
    \/ FailFast /\ \E n \in bad : n <= cursor /\ child[n] \in Of(a)

\* All reports of a child agree.
ReportsAgree == \A m, n \in Ids : child[m] = child[n] => (m \in bad <=> n \in bad)

\* An aggregate that fail_fast cut short holds the failure it was cut short for,
\* so that build_parent_result reports the parent as failed.
AggregateShowsFailure ==
  \A a \in aggregates : Of(a) = Children \/ (FailFast /\ a \cap bad # {})

\* Nobody sees a terminal parent, whose children are dropped everywhere,
\* before the parent has been handed off.
TerminalAfterHandoff == terminal => Handed # {}

\* Until the parent is handed off, a child report that was acknowledged is in
\* the group; only fail_fast may drop one, and only when a failure report is
\* still pending to finalize the parent, or went to the DLQ for an operator.
ReportsKept ==
  Handed = {} =>
    \A m \in acked :
      \/ child[m] \in Of(collected)
      \/ FailFast /\ \E n \in bad : n \in Pending \/ out[n]["dlq"] > 0

\* A report that fail_fast drops is dropped for a failure report that can still
\* finalize the parent: the parent of a failed child finalizes.
FailFastFinalizes ==
  Handed = {} =>
    \A m \in acked : child[m] \in Of(collected) \/ (FailFast /\ bad \cap Pending # {})

StageStays == stage = "next" => stage' = "next"

\* Once the parent has moved on, no late progress write takes its run back to
\* the executing stage.
StageNeverRegresses == [][StageStays]_vars

\* The parent is eventually handed off once every child has reported, through
\* exits, lost leases, abandoned claims and retries.
EventuallyFinalized == <>(Handed # {})
=============================================================================

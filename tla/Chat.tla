--------------------------------- MODULE Chat ---------------------------------
(***************************************************************************)
(* Chat sessions of one tenant and the turns posted to them.  A turn       *)
(* crosses three transactions and a response body that the client may drop *)
(* at any await:                                                           *)
(*                                                                         *)
(*   - the request's transaction inserts the question; the RLS middleware  *)
(*     commits it when the handler returns, whatever the handler returns;  *)
(*   - the body streams the answer, and stores it in a transaction of its  *)
(*     own before it tells the client "done";                              *)
(*   - when the provider fails the body deletes the question in a third.   *)
(*                                                                         *)
(* A message row references its session: the insert holds a key-share lock *)
(* on the session row until its transaction ends, a delete of the session  *)
(* waits for it and then takes the session's messages along.               *)
(***************************************************************************)
EXTENDS Naturals, FiniteSets

CONSTANTS
  Sessions,
  Turns,      \* bound: posts to any session
  Limit,      \* chat_concurrent_per_tenant
  MaxFaults   \* bound: failed statements or calls, and crashes of the process

ASSUME TurnsAssumption == IsFiniteSet(Turns)
ASSUME LimitAssumption == Limit \in Nat
ASSUME FaultAssumption == MaxFaults \in Nat

VARIABLES
  row,         \* committed chat_sessions row: "absent", "live", "gone"
  tuples,      \* sessions that have their tuples in OpenFGA
  op,          \* the create or delete request of a session
  chat,        \* the session a turn was posted to
  pc,          \* where the turn's request or its body is
  question,    \* the turn's committed user message
  answer,      \* the turn's committed assistant message
  told,        \* how the server ended the turn towards the client
  left,        \* turns whose client is gone
  kept,        \* turns whose compensation failed and left the question
  slots,       \* streams the limiter counts for the tenant
  releasing,   \* turns whose slot is given back by a spawned task
  faults

sessionVars == <<row, tuples, op>>
turnVars    == <<chat, pc, question, answer, told, left, kept>>
slotVars    == <<slots, releasing>>
vars        == <<sessionVars, turnVars, slotVars, faults>>

Asking   == {"asked", "retrieved", "touched", "erring"}   \* the question is inserted
Handling == {"admitted", "opened"} \cup Asking
Body     == {"starting", "streaming", "withdrawing", "withdrawn", "persisting",
             "persisted", "unpersisted"}
Places   == {"idle", "over"} \cup Handling \cup Body
Ends     == {"nothing", "refused", "error", "done", "stream-failed", "persist-failed"}

TypeOK ==
  /\ row \in [Sessions -> {"absent", "live", "gone"}]
  /\ tuples \subseteq Sessions
  /\ op \in [Sessions -> {"idle", "inserted", "granted", "abandoned", "cleared", "deleted"}]
  /\ chat \in [Turns -> Sessions]
  /\ pc \in [Turns -> Places]
  /\ question \in [Turns -> {"none", "stored", "withdrawn", "erased"}]
  /\ answer \in [Turns -> {"none", "stored", "erased"}]
  /\ told \in [Turns -> Ends]
  /\ left \subseteq Turns /\ kept \subseteq Turns /\ releasing \subseteq Turns
  /\ slots \in Nat
  /\ faults \in 0..MaxFaults

Init ==
  /\ row = [s \in Sessions |-> "absent"] /\ tuples = {} /\ op = [s \in Sessions |-> "idle"]
  /\ chat \in [Turns -> Sessions] /\ pc = [t \in Turns |-> "idle"]
  /\ question = [t \in Turns |-> "none"] /\ answer = [t \in Turns |-> "none"]
  /\ told = [t \in Turns |-> "nothing"] /\ left = {} /\ kept = {}
  /\ slots = 0 /\ releasing = {} /\ faults = 0

Holding   == {t \in Turns : pc[t] \in Handling \cup Body}
Locked(s) == \E t \in Turns : chat[t] = s /\ pc[t] \in Asking

Fault == faults < MaxFaults /\ faults' = faults + 1

-------------------------------------------------------------------------------
\* Sessions.  The row is written first and the tuples are written, or deleted,
\* before the middleware commits.

SessionStep(s, from, to) == op[s] = from /\ op' = [op EXCEPT ![s] = to]

InsertSession(s) ==
  /\ row[s] = "absent"
  /\ SessionStep(s, "idle", "inserted")
  /\ UNCHANGED <<row, tuples, turnVars, slotVars, faults>>

WriteTuples(s) ==
  /\ SessionStep(s, "inserted", "granted")
  /\ tuples' = tuples \cup {s}
  /\ UNCHANGED <<row, turnVars, slotVars, faults>>

\* A failed write may have taken effect; the row is deleted in the same transaction.
WriteTuplesFails(s) ==
  /\ Fault
  /\ SessionStep(s, "inserted", "abandoned")
  /\ tuples' \in {tuples, tuples \cup {s}}
  /\ UNCHANGED <<row, turnVars, slotVars>>

CommitSession(s) ==
  /\ op[s] \in {"granted", "abandoned"}
  /\ op' = [op EXCEPT ![s] = "idle"]
  /\ row' = [row EXCEPT ![s] = IF op[s] = "granted" THEN "live" ELSE "gone"]
  /\ UNCHANGED <<tuples, turnVars, slotVars, faults>>

\* The row exists and the caller is its owner; the tuples go first.
ClearTuples(s) ==
  /\ row[s] = "live" /\ s \in tuples
  /\ SessionStep(s, "idle", "cleared")
  /\ tuples' = tuples \ {s}
  /\ UNCHANGED <<row, turnVars, slotVars, faults>>

DeleteSession(s) ==
  /\ ~Locked(s)
  /\ SessionStep(s, "cleared", "deleted")
  /\ UNCHANGED <<row, tuples, turnVars, slotVars, faults>>

\* The cascade takes the messages of the session.
CommitDelete(s) ==
  /\ SessionStep(s, "deleted", "idle")
  /\ row' = [row EXCEPT ![s] = "gone"]
  /\ LET erase(m) == [t \in Turns |-> IF chat[t] = s /\ m[t] = "stored" THEN "erased"
                                                                         ELSE m[t]]
     IN  question' = erase(question) /\ answer' = erase(answer)
  /\ UNCHANGED <<tuples, chat, pc, told, left, kept, slotVars, faults>>

\* The request ends without its commit: the client left or the database failed.
LoseSession(s) ==
  /\ Fault
  /\ op[s] # "idle"
  /\ op' = [op EXCEPT ![s] = "idle"]
  /\ row' = [row EXCEPT ![s] = IF row[s] = "absent" THEN "gone" ELSE row[s]]
  /\ UNCHANGED <<tuples, turnVars, slotVars>>

-------------------------------------------------------------------------------
\* The handler.

Step(t, from, to) == pc[t] = from /\ pc' = [pc EXCEPT ![t] = to]

\* Dropping the slot's guard spawns the task that gives the slot back.
DropSlot(t) == releasing' = releasing \cup {t} /\ slots' = slots

End(t, from, how) ==
  /\ Step(t, from, "over")
  /\ told' = [told EXCEPT ![t] = how]
  /\ DropSlot(t)

\* Faulty: off by one at the limit.
PostAboveLimit(t) ==
  /\ slots <= Limit
  /\ Step(t, "idle", "admitted")
  /\ slots' = slots + 1
  /\ UNCHANGED <<sessionVars, chat, question, answer, told, left, kept, releasing, faults>>

Post(t) ==
  /\ slots < Limit
  /\ Step(t, "idle", "admitted")
  /\ slots' = slots + 1
  /\ UNCHANGED <<sessionVars, chat, question, answer, told, left, kept, releasing, faults>>

Refuse(t) ==
  /\ slots >= Limit
  /\ Step(t, "idle", "over")
  /\ told' = [told EXCEPT ![t] = "refused"]
  /\ UNCHANGED <<sessionVars, chat, question, answer, left, kept, slotVars, faults>>

\* The row, then the viewer relation.  The tuples go before the row does, so the two
\* reads agree with the state of the second.
OpenSession(t) ==
  /\ row[chat[t]] = "live" /\ chat[t] \in tuples
  /\ Step(t, "admitted", "opened")
  /\ UNCHANGED <<sessionVars, chat, question, answer, told, left, kept, slotVars, faults>>

\* Faulty: the early return forgets the slot.
DenyKeepingSlot(t) ==
  /\ ~(row[chat[t]] = "live" /\ chat[t] \in tuples)
  /\ Step(t, "admitted", "over")
  /\ told' = [told EXCEPT ![t] = "error"]
  /\ UNCHANGED <<sessionVars, chat, question, answer, left, kept, slotVars, faults>>

DenySession(t) ==
  /\ ~(row[chat[t]] = "live" /\ chat[t] \in tuples)
  /\ End(t, "admitted", "error")
  /\ UNCHANGED <<sessionVars, chat, question, answer, left, kept, faults>>

\* An uncommitted delete of the session is waited for.
InsertQuestion(t) ==
  /\ row[chat[t]] = "live" /\ op[chat[t]] # "deleted"
  /\ Step(t, "opened", "asked")
  /\ UNCHANGED <<sessionVars, chat, question, answer, told, left, kept, slotVars, faults>>

\* The foreign key fails; the aborted transaction commits nothing.
InsertFails(t) ==
  /\ row[chat[t]] = "gone"
  /\ End(t, "opened", "error")
  /\ UNCHANGED <<sessionVars, chat, question, answer, left, kept, faults>>

Retrieve(t) ==
  /\ Step(t, "asked", "retrieved")
  /\ UNCHANGED <<sessionVars, chat, question, answer, told, left, kept, slotVars, faults>>

\* The last messages, this question among them, and then the session row is touched.
LoadHistory(t) ==
  /\ Step(t, "retrieved", "touched")
  /\ UNCHANGED <<sessionVars, chat, question, answer, told, left, kept, slotVars, faults>>

\* The provider, Qdrant or OpenFGA fails: the handler returns an error, the
\* transaction is not aborted and the middleware commits it.
RetrieveFails(t) ==
  /\ Fault
  /\ Step(t, "asked", "erring")
  /\ UNCHANGED <<sessionVars, chat, question, answer, told, left, kept, slotVars>>

CommitQuestion(t) ==
  /\ Step(t, "touched", "starting")
  /\ question' = [question EXCEPT ![t] = "stored"]
  /\ UNCHANGED <<sessionVars, chat, answer, told, left, kept, slotVars, faults>>

CommitError(t) ==
  /\ End(t, "erring", "error")
  /\ question' = [question EXCEPT ![t] = "stored"]
  /\ UNCHANGED <<sessionVars, chat, answer, left, kept, faults>>

\* A statement, the commit or a call before the insert fails: nothing is stored, and the
\* response is an error.
LoseQuestion(t) ==
  /\ Fault
  /\ pc[t] \in Handling
  /\ End(t, pc[t], "error")
  /\ UNCHANGED <<sessionVars, chat, question, answer, left, kept>>

-------------------------------------------------------------------------------
\* The response body.

BodyStep(t, from, to) ==
  /\ Step(t, from, to)
  /\ UNCHANGED <<sessionVars, chat, question, answer, told, left, kept, slotVars, faults>>

\* Faulty: no compensation when the stream does not start; done before it is stored.
StartFailsOutright(t) == BodyStep(t, "starting", "withdrawn")
DoneAtUpstreamEnd(t)  == BodyStep(t, "streaming", "persisted")

StreamStarts(t)    == BodyStep(t, "starting", "streaming")
StartFails(t)      == BodyStep(t, "starting", "withdrawing")
UpstreamEnds(t)    == BodyStep(t, "streaming", "persisting")
UpstreamFails(t)   == BodyStep(t, "streaming", "withdrawing")

\* holdback_len cuts the text inside a character of several bytes and panics; the
\* body is dropped with everything it owns.
ParserPanics(t) ==
  /\ End(t, "streaming", "nothing")
  /\ UNCHANGED <<sessionVars, chat, question, answer, left, kept, faults>>

Withdrawn(t) ==
  IF question[t] = "stored" THEN [question EXCEPT ![t] = "withdrawn"] ELSE question

Compensate(t) ==
  /\ Step(t, "withdrawing", "withdrawn")
  /\ question' = Withdrawn(t)
  /\ UNCHANGED <<sessionVars, chat, answer, told, left, kept, slotVars, faults>>

\* A failure is only logged; that of the commit may come after it took effect.
CompensateFails(t) ==
  /\ Fault
  /\ Step(t, "withdrawing", "withdrawn")
  /\ \/ question' = question /\ kept' = kept \cup {t}
     \/ question' = Withdrawn(t) /\ kept' = kept
  /\ UNCHANGED <<sessionVars, chat, answer, told, left, slotVars>>

YieldStreamFailed(t) ==
  /\ End(t, "withdrawn", "stream-failed")
  /\ UNCHANGED <<sessionVars, chat, question, answer, left, kept, faults>>

\* Usage, the assistant message and the touch, committed together.
Persist(t) ==
  /\ row[chat[t]] = "live" /\ op[chat[t]] # "deleted"
  /\ Step(t, "persisting", "persisted")
  /\ answer' = [answer EXCEPT ![t] = "stored"]
  /\ UNCHANGED <<sessionVars, chat, question, told, left, kept, slotVars, faults>>

PersistRefused(t) ==
  /\ row[chat[t]] = "gone"
  /\ BodyStep(t, "persisting", "unpersisted")

\* The commit may take effect and its answer be lost.
PersistFails(t) ==
  /\ Fault
  /\ Step(t, "persisting", "unpersisted")
  /\ \/ answer' = answer
     \/ /\ row[chat[t]] = "live" /\ op[chat[t]] # "deleted"
        /\ answer' = [answer EXCEPT ![t] = "stored"]
  /\ UNCHANGED <<sessionVars, chat, question, told, left, kept, slotVars>>

YieldDone(t) ==
  /\ End(t, "persisted", "done")
  /\ UNCHANGED <<sessionVars, chat, question, answer, left, kept, faults>>

YieldPersistFailed(t) ==
  /\ End(t, "unpersisted", "persist-failed")
  /\ UNCHANGED <<sessionVars, chat, question, answer, left, kept, faults>>

-------------------------------------------------------------------------------
\* The client closes its connection: the request, or the body, is dropped where it
\* is.  An open transaction is rolled back with it.
Leave(t) ==
  /\ pc[t] \in Handling \cup Body
  /\ End(t, pc[t], "nothing")
  /\ left' = left \cup {t}
  /\ UNCHANGED <<sessionVars, chat, question, answer, kept, faults>>

Release(t) ==
  /\ t \in releasing
  /\ releasing' = releasing \ {t}
  /\ slots' = IF slots = 0 THEN 0 ELSE slots - 1
  /\ UNCHANGED <<sessionVars, turnVars, faults>>

\* The counts are kept in memory.
Crash ==
  /\ Fault
  /\ Holding # {}
  /\ pc' = [t \in Turns |-> IF t \in Holding THEN "over" ELSE pc[t]]
  /\ left' = left \cup Holding
  /\ slots' = 0 /\ releasing' = {}
  /\ UNCHANGED <<sessionVars, chat, question, answer, told, kept>>

SessionNext(s) ==
  \/ InsertSession(s) \/ WriteTuples(s) \/ WriteTuplesFails(s) \/ CommitSession(s)
  \/ ClearTuples(s) \/ DeleteSession(s) \/ CommitDelete(s) \/ LoseSession(s)

Handler(t) ==
  \/ OpenSession(t) \/ DenySession(t) \/ InsertQuestion(t) \/ InsertFails(t)
  \/ Retrieve(t) \/ LoadHistory(t) \/ CommitQuestion(t) \/ CommitError(t)

\* What the provider does with the body's request, or what its text does to the parser.
Upstream(t) ==
  \/ StreamStarts(t) \/ StartFails(t) \/ UpstreamEnds(t) \/ UpstreamFails(t)
  \/ ParserPanics(t)

Close(t) ==
  \/ Compensate(t) \/ YieldStreamFailed(t)
  \/ Persist(t) \/ PersistRefused(t) \/ YieldDone(t) \/ YieldPersistFailed(t)

Disturb(t) ==
  \/ RetrieveFails(t) \/ LoseQuestion(t) \/ CompensateFails(t) \/ PersistFails(t)

Next ==
  \/ \E s \in Sessions : SessionNext(s)
  \/ \E t \in Turns : \/ Post(t) \/ Refuse(t) \/ Handler(t) \/ Upstream(t) \/ Close(t)
                      \/ Disturb(t) \/ Leave(t) \/ Release(t)
  \/ Crash

Spec == Init /\ [][Next]_vars

\* No timeout covers the body of the provider's response, so a turn may stall for ever
\* while its client waits: a turn goes on or its client leaves.  The spawned release
\* and the middleware's commit are the server's own.
Fairness ==
  /\ \A s \in Sessions : WF_vars(CommitDelete(s) \/ LoseSession(s))
  /\ \A t \in Turns :
       /\ WF_vars(Handler(t) \/ Upstream(t) \/ Close(t) \/ Disturb(t) \/ Leave(t))
       /\ WF_vars(Release(t))

FairSpec == Spec /\ Fairness

-------------------------------------------------------------------------------
\* A stream that failed takes its question back, unless the deletion itself failed
\* (chat.rs:646-649), and a stream that is done has stored its answer: a question is
\* left alone only where the client was told so, or is gone.
FailedTurnsLeaveNoOrphan ==
  \A t \in Turns : /\ pc[t] = "over" /\ t \notin left
                   /\ question[t] = "stored" /\ answer[t] = "none"
    => \/ told[t] \in {"error", "persist-failed"}
       \/ told[t] = "stream-failed" /\ t \in kept
       \/ told[t] = "nothing"

\* The limiter counts every request that runs and every slot not yet given back, and
\* never lets more streams run than the limit (rate_limit.rs:185-208): a slot is not
\* lost on any way out of the handler or the body, and is not given back twice.
SlotsMatchStreams ==
  /\ Holding \cap releasing = {}
  /\ slots = Cardinality(Holding \cup releasing)
  /\ slots <= Limit

\* Not true of the code, which says so at chat.rs:651: that one terminal event ends the stream
\* of a client that stays.  The process may crash, and the body panic (AnswerStream, Panics).
StreamEndsWithEvent ==
  \A t \in Turns : pc[t] = "over" /\ t \notin left => told[t] # "nothing"

\* Every slot comes back, so a tenant at its limit can chat again (rate_limit.rs:222-234).
SlotsComeBack == []<>(slots = 0)

\* The stored messages and the events of the stream implement Conversation.
Stage(t) ==
  IF answer[t] = "none"
  THEN [none |-> "unasked", stored |-> "asked", withdrawn |-> "withdrawn", erased |-> "erased"][question[t]]
  ELSE [stored |-> "answered", erased |-> "erasedAnswer"][answer[t]]
Done == {t \in Turns : told[t] = "done"}

Promise == INSTANCE Conversation WITH turn <- [t \in Turns |-> Stage(t)], done <- Done

\* The answer is stored before the client is told it is done, an answer is stored only
\* beside its question, and a question taken back is never answered (chat.rs:640-652).
ImplementsConversation == Promise!Spec
===============================================================================

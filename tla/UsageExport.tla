---------------------------- MODULE UsageExport ----------------------------
(***************************************************************************)
(* The calls ledger of host_store.py as its consumers see it: the bounded   *)
(* background writer of each replica with its set of pending timestamps,    *)
(* the `calls' table, and the two internal endpoints that report from it    *)
(* with a watermark, usage_export (a page after a cursor) and /internal/    *)
(* usage (totals of a window).                                             *)
(*                                                                         *)
(* Each replica is a process with one writer thread.  The endpoints run in  *)
(* worker threads of one replica, the server; their statements are separate *)
(* steps, each seeing what is committed when it runs.  A row gets its id and *)
(* its recorded_at when it is inserted and is visible when it is committed. *)
(*                                                                         *)
(* Simplifications: one clock; the rows of one caller and scope; one replica *)
(* answers; an answer's window is everything below its watermark; retention  *)
(* (_prune) and the route observations in the same queue are left out.      *)
(***************************************************************************)
EXTENDS Integers, Sequences, FiniteSets

CONSTANTS
    Calls, Replicas,
    Home,        \* the replica that served each call
    Server,      \* the replica the consumer asks
    Lag,         \* LEDGER_WATERMARK_LAG_S
    Backlog,     \* longest time from a call to its commit, by replica
    CommitTime,  \* longest time from an INSERT to its commit
    QueueMax,    \* HOST_STORE_WRITE_QUEUE_MAX
    Limit,       \* rows of one page
    \* bounds of the model
    Endpoints, LastCall, MaxTime, MaxFaults

\* Other replicas' backlogs are covered by the lag, the server's need not be.
ASSUME ExportAssumption ==
    /\ IsFiniteSet(Calls) /\ Server \in Replicas /\ Home \in [Calls -> Replicas]
    /\ Lag \in Nat /\ CommitTime \in Nat /\ CommitTime < Lag
    /\ Backlog \in [Replicas -> Nat]
    /\ \A r \in Replicas \ {Server} : Backlog[r] <= Lag
    /\ QueueMax \in Nat \ {0} /\ Limit \in Nat \ {0}
    /\ Endpoints \subseteq {"export", "usage"}
    /\ LastCall \in Nat /\ MaxTime \in Nat
    /\ MaxFaults \in Nat

VARIABLES
    now,
    stage,      \* of each call: none, queued, taken, inserted, stored or lost
    ts,         \* time of each call
    rowid, rec, \* its row: serial id and recorded_at
    nextId,     \* the table's sequence
    queue,      \* _write_q of each replica
    hand,       \* the call its writer is busy with
    pend,       \* the calls behind _pending_ts of each replica
    poll,       \* the request being answered
    after, delivered, promised, \* the export consumer: cursor, rows, watermark
    window,     \* the last /internal/usage answer: calls counted, watermark
    raced,      \* calls committed between an answer's last read and its watermark
    faults      \* failures, crashes and lost answers still to come

ledger   == <<stage, ts, rowid, rec, nextId>>
writers  == <<queue, hand, pend>>
consumer == <<after, delivered, promised, window>>
vars == <<now, ledger, writers, poll, consumer, raced, faults>>

CONSTANT NoCall
ASSUME NoCallAssumption == NoCall \notin Calls

Stages == {"none", "queued", "taken", "inserted", "stored", "lost"}
None == -1    \* min(ts) of no rows
NoPoll == [kind |-> "export", at |-> "idle", stamp |-> 0, rows |-> {},
           next |-> 0, oldest |-> None]

Stored == {c \in Calls : stage[c] = "stored"}

Init ==
    /\ now = 0
    /\ stage = [c \in Calls |-> "none"] /\ ts = [c \in Calls |-> 0]
    /\ rowid = [c \in Calls |-> 0] /\ rec = [c \in Calls |-> 0] /\ nextId = 1
    /\ queue = [r \in Replicas |-> <<>>] /\ hand = [r \in Replicas |-> NoCall]
    /\ pend = [r \in Replicas |-> {}]
    /\ poll = NoPoll
    /\ after = 0 /\ delivered = {} /\ promised = 0
    /\ window = [counted |-> {}, upto |-> 0] /\ raced = {}
    /\ faults = MaxFaults

(***************************************************************************)
(* The writer of a replica.                                                *)
(***************************************************************************)
\* insert_call_async: stamp, pend, enqueue; a full queue drops the row and takes
\* it off the pending set again.
Enqueue(c) ==
    LET r == Home[c] IN
    /\ stage[c] = "none" /\ now <= LastCall
    /\ ts' = [ts EXCEPT ![c] = now]
    /\ IF Len(queue[r]) < QueueMax
       THEN /\ queue' = [queue EXCEPT ![r] = Append(@, c)]
            /\ pend' = [pend EXCEPT ![r] = @ \cup {c}]
            /\ stage' = [stage EXCEPT ![c] = "queued"]
       ELSE /\ stage' = [stage EXCEPT ![c] = "lost"]
            /\ UNCHANGED <<queue, pend>>
    /\ UNCHANGED <<now, rowid, rec, nextId, hand, poll, consumer, raced, faults>>

\* _write_q.get()
Take(r) ==
    /\ hand[r] = NoCall /\ queue[r] # <<>>
    /\ hand' = [hand EXCEPT ![r] = Head(queue[r])]
    /\ queue' = [queue EXCEPT ![r] = Tail(@)]
    /\ stage' = [stage EXCEPT ![Head(queue[r])] = "taken"]
    /\ UNCHANGED <<now, ts, rowid, rec, nextId, pend, poll, consumer, raced,
                   faults>>

\* The INSERT of insert_call: id and recorded_at; not yet visible.
Insert(r) ==
    LET c == hand[r] IN
    /\ c # NoCall /\ stage[c] = "taken"
    /\ stage' = [stage EXCEPT ![c] = "inserted"]
    /\ rowid' = [rowid EXCEPT ![c] = nextId] /\ nextId' = nextId + 1
    /\ rec' = [rec EXCEPT ![c] = now]
    /\ UNCHANGED <<now, ts, writers, poll, consumer, raced, faults>>

\* Rows S become visible, perhaps while an answer is being put together.
Overtaken(S) == IF poll.at = "bounded" THEN raced \cup S ELSE raced

\* The end of the transaction.
Commit(r) ==
    LET c == hand[r] IN
    /\ c # NoCall /\ stage[c] = "inserted"
    /\ stage' = [stage EXCEPT ![c] = "stored"]
    /\ raced' = Overtaken({c})
    /\ UNCHANGED <<now, ts, rowid, rec, nextId, writers, poll, consumer, faults>>

\* A write that fails is logged and forgotten.
WriteFails(r) ==
    LET c == hand[r] IN
    /\ c # NoCall /\ stage[c] \in {"taken", "inserted"}
    /\ faults > 0 /\ faults' = faults - 1
    /\ stage' = [stage EXCEPT ![c] = "lost"]
    /\ UNCHANGED <<now, ts, rowid, rec, nextId, writers, poll, consumer, raced>>

\* Mutant of Written: a write that raises ends the loop's turn for good.
StoredOnly(c) == stage[c] = "stored"

\* The job has returned, with a row or without: insert_call never raises.
Written(c) == stage[c] \in {"stored", "lost"}

\* _pending_done, in the finally of the writer loop.
Done(r) ==
    LET c == hand[r] IN
    /\ c # NoCall /\ Written(c)
    /\ hand' = [hand EXCEPT ![r] = NoCall]
    /\ pend' = [pend EXCEPT ![r] = @ \ {c}]
    /\ UNCHANGED <<now, ledger, queue, poll, consumer, raced, faults>>

\* A replica dies: its backlog is gone, the transaction under way is rolled back
\* or, with the COMMIT already sent, goes through; a request it was answering is
\* never answered.
Crash(r) ==
    /\ faults > 0 /\ faults' = faults - 1
    /\ LET mine == {c \in Calls : Home[c] = r}
           open == {c \in mine : stage[c] \in {"queued", "taken", "inserted"}}
       IN \E through \in SUBSET {c \in open : stage[c] = "inserted"} :
            /\ stage' = [c \in Calls |->
                           IF c \in through THEN "stored"
                           ELSE IF c \in open THEN "lost" ELSE stage[c]]
            /\ raced' = Overtaken(through)
    /\ queue' = [queue EXCEPT ![r] = <<>>]
    /\ hand' = [hand EXCEPT ![r] = NoCall]
    /\ pend' = [pend EXCEPT ![r] = {}]
    /\ poll' = IF r = Server THEN NoPoll ELSE poll
    /\ UNCHANGED <<now, ts, rowid, rec, nextId, consumer>>

(***************************************************************************)
(* The endpoints.                                                          *)
(***************************************************************************)
\* The first k rows of S in id order.
FirstRows(S, k) == {c \in S : Cardinality({d \in S : rowid[d] < rowid[c]}) < k}

IsLeast(x, S) == x \in S /\ \A y \in S : x <= y

\* Mutant of Settled: rows are delivered as soon as they are visible.
Visible(stamp) == Stored
\* Rows old enough that no lower id can still be committing.
Settled(stamp) == {c \in Stored : rec[c] <= stamp - Lag}

\* Mutant of Undelivered: only rows the page left out for its limit.
LeftOver(next) == {c \in Settled(poll.stamp) : rowid[c] > next}
Undelivered(next) == {c \in Stored : rowid[c] > next}

\* Mutant of Held: the row the writer is busy with is forgotten.
InQueue(r) == {c \in pend[r] : stage[c] = "queued"}
\* The calls _pending_ts counts.
Held(r) == pend[r]

\* ledger_watermark(stamp) is the least of these.
Bounds(stamp) == {stamp - Lag} \cup {ts[c] : c \in Held(Server)}

\* Mutant of Cursors: an empty page has no last row.
LastRow(page) == {-1} \cup {rowid[c] : c \in page}
\* next_after_id: the last row of the page, or the cursor as it is.
Cursors(page) == {after} \cup {rowid[c] : c \in page}

\* usage_export: `now' is read before a connection is had ...
AskExport ==
    /\ poll.at = "idle" /\ "export" \in Endpoints
    /\ poll' = [NoPoll EXCEPT !.at = "asked", !.stamp = now]
    /\ UNCHANGED <<now, ledger, writers, consumer, raced, faults>>

\* ... then the page after the cursor, in id order ...
ReadPage ==
    /\ poll.at = "asked"
    /\ LET page == FirstRows({c \in Settled(poll.stamp) : rowid[c] > after}, Limit)
       IN \E next \in Cursors(page) :
            /\ \A c \in page : rowid[c] <= next
            /\ poll' = [poll EXCEPT !.at = "paged", !.rows = page, !.next = next]
    /\ UNCHANGED <<now, ledger, writers, consumer, raced, faults>>

\* ... the oldest call beyond it, fresh rows included ...
ReadOldest ==
    /\ poll.at = "paged"
    /\ LET rest == {ts[c] : c \in Undelivered(poll.next)}
       IN \E oldest \in IF rest = {} THEN {None} ELSE rest :
            /\ rest # {} => IsLeast(oldest, rest)
            /\ poll' = [poll EXCEPT !.at = "bounded", !.oldest = oldest]
    /\ UNCHANGED <<now, ledger, writers, consumer, raced, faults>>

\* ... and then the watermark.  The consumer keeps the rows and the cursor.
AnswerExport ==
    /\ poll.at = "bounded" /\ poll.kind = "export"
    /\ LET bounds == Bounds(poll.stamp) \cup ({poll.oldest} \ {None})
       IN \E upto \in bounds :
            /\ IsLeast(upto, bounds)
            /\ promised' = IF upto > promised THEN upto ELSE promised
    /\ after' = poll.next /\ delivered' = delivered \cup poll.rows
    /\ poll' = NoPoll
    /\ UNCHANGED <<now, ledger, writers, window, raced, faults>>

\* /internal/usage: the totals, then a watermark of the present.
ReadTotals ==
    /\ poll.at = "idle" /\ "usage" \in Endpoints
    /\ poll' = [NoPoll EXCEPT !.kind = "usage", !.at = "bounded", !.rows = Stored]
    /\ UNCHANGED <<now, ledger, writers, consumer, raced, faults>>

AnswerUsage ==
    /\ poll.at = "bounded" /\ poll.kind = "usage"
    /\ \E upto \in Bounds(now) :
         /\ IsLeast(upto, Bounds(now))
         /\ window' = [counted |-> poll.rows, upto |-> upto]
    /\ poll' = NoPoll
    /\ UNCHANGED <<now, ledger, writers, after, delivered, promised, raced, faults>>

\* The answer is lost, or a statement failed (503): the consumer asks again.
AnswerLost ==
    /\ poll.at # "idle"
    /\ faults > 0 /\ faults' = faults - 1
    /\ poll' = NoPoll
    /\ UNCHANGED <<now, ledger, writers, consumer, raced>>

(***************************************************************************)
(* Time: a commit follows its INSERT within CommitTime, and the call within *)
(* the backlog of its replica.                                             *)
(***************************************************************************)
Tick ==
    /\ now < MaxTime /\ now' = now + 1
    /\ \A c \in Calls :
         /\ stage[c] = "inserted" => now - rec[c] < CommitTime
         /\ stage[c] \in {"queued", "taken", "inserted"}
              => now - ts[c] < Backlog[Home[c]]
    /\ UNCHANGED <<ledger, writers, poll, consumer, raced, faults>>

WriterStep(r) == Take(r) \/ Insert(r) \/ Commit(r) \/ Done(r)
AnswerStep == ReadPage \/ ReadOldest \/ AnswerExport \/ AnswerUsage

Next ==
    \/ \E c \in Calls : Enqueue(c)
    \/ \E r \in Replicas : WriterStep(r) \/ WriteFails(r) \/ Crash(r)
    \/ AskExport \/ ReadTotals \/ AnswerStep \/ AnswerLost
    \/ Tick

Spec == Init /\ [][Next]_vars

\* The writer threads, the endpoint's thread and the clock go on; the consumer
\* keeps paging, whatever else the server is asked in between.
Fairness == /\ \A r \in Replicas : WF_vars(WriterStep(r))
            /\ WF_vars(AnswerStep) /\ SF_vars(AskExport) /\ WF_vars(Tick)

FairSpec == Spec /\ Fairness

(***************************************************************************)
(* Properties.                                                             *)
(***************************************************************************)
Polls == [kind : {"export", "usage"}, at : {"idle", "asked", "paged", "bounded"},
          stamp : Nat, rows : SUBSET Calls, next : Nat, oldest : Int]

\* The state has its types.
TypeOK ==
    /\ now \in Nat /\ stage \in [Calls -> Stages] /\ ts \in [Calls -> Nat]
    /\ rowid \in [Calls -> Nat] /\ rec \in [Calls -> Nat] /\ nextId \in Nat
    /\ queue \in [Replicas -> Seq(Calls)]
    /\ hand \in [Replicas -> Calls \cup {NoCall}]
    /\ pend \in [Replicas -> SUBSET Calls]
    /\ poll \in Polls
    /\ after \in Nat /\ delivered \subseteq Calls /\ promised \in Nat
    /\ window \in [counted : SUBSET Calls, upto : Int] /\ raced \subseteq Calls
    /\ faults \in Nat

\* The cursor passes no row: one with a lower id that was still committing, on
\* whatever replica, when a higher one was delivered would never be seen
\* ("holding back fresh rows keeps the cursor from skipping it").
NothingSkipped == \A c \in Stored : rowid[c] <= after => c \in delivered

\* "Every call with ts < watermark_ts is in a page at or before next_after_id."
WatermarkKept == \A c \in Stored : ts[c] < promised => c \in delivered

\* It holds of every call but those the server's own writer committed between
\* the export's last read and its watermark: rows held back, rows beyond the
\* page, rows still queued or in the writer's hand all hold the watermark back.
WatermarkKeptUnlessRaced ==
    \A c \in Stored : ts[c] < promised
        => c \in delivered \/ (c \in raced /\ Home[c] = Server)

\* "A window whose until_ts <= watermark_ts is closed and will not change", but
\* for rows committed between the totals and the watermark.
WindowClosedUnlessRaced ==
    \A c \in Stored : ts[c] < window.upto => c \in window.counted \cup raced

\* Every row is delivered in the end and passed by the watermark: neither a lost
\* row, a failed write nor a crash holds it back for ever.
Reconciled ==
    \A c \in Calls : stage[c] = "stored" ~> (c \in delivered /\ ts[c] < promised)
=============================================================================

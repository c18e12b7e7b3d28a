------------------------ MODULE UsageExport_proofs ------------------------
(***************************************************************************)
(* The usage export: type correctness, the cursor that skips no row, and   *)
(* the watermarks that hold but for rows committed while an answer is put   *)
(* together, for every number of calls, replicas and page size, every lag   *)
(* that exceeds the commit time, and every backlog of the server.           *)
(***************************************************************************)
EXTENDS UsageExport, FiniteSetTheorems, TLAPS

\* Calls on their way to the table, and calls that have a row, visible or not.
Open(c) == stage[c] \in {"queued", "taken", "inserted"}
HasRow(c) == stage[c] \in {"inserted", "stored"}

\* A queue names queued calls of its replica, each once; the writer's call has
\* left the queue; every open call is pending.
WriterInv ==
    /\ \A r \in Replicas : \A i \in 1 .. Len(queue[r]) :
         stage[queue[r][i]] = "queued" /\ Home[queue[r][i]] = r
    /\ \A r \in Replicas : \A i, j \in 1 .. Len(queue[r]) :
         queue[r][i] = queue[r][j] => i = j
    /\ \A r \in Replicas : hand[r] # NoCall =>
         Home[hand[r]] = r /\ stage[hand[r]] \notin {"none", "queued"}
    /\ \A c \in Calls : Open(c) => c \in pend[Home[c]]

\* Time bounds what is on its way, and nothing lies in the future.
TimeInv ==
    /\ \A c \in Calls : stage[c] = "inserted" => now - rec[c] <= CommitTime
    /\ \A c \in Calls : Open(c) => now - ts[c] <= Backlog[Home[c]]
    /\ \A c \in Calls : HasRow(c) => rec[c] <= now
    /\ poll.stamp <= now /\ promised <= now /\ window.upto <= now

\* Rows are numbered in the order of their recorded_at.
RowInv ==
    /\ \A c \in Calls : HasRow(c) => rowid[c] < nextId
    /\ \A c, d \in Calls : HasRow(c) /\ HasRow(d) /\ rowid[c] <= rowid[d]
                             => rec[c] <= rec[d]

\* Every row up to the cursor is delivered, and every row up to the page's end
\* is delivered or on it, rows still committing included.
CursorInv ==
    /\ after < nextId
    /\ \A c \in Calls : HasRow(c) /\ rowid[c] <= after => c \in delivered
    /\ poll.kind = "usage" => poll.at = "bounded"
    /\ poll.kind = "export" /\ poll.at \in {"paged", "bounded"} =>
         /\ poll.next < nextId
         /\ \A c \in Calls : HasRow(c) /\ rowid[c] <= poll.next
                               => c \in delivered \cup poll.rows

\* Open calls are above every mark given.
OpenMarks == \A c \in Calls : Open(c) => ts[c] >= promised /\ ts[c] >= window.upto

\* What an answer under way has not seen is above the marks it will give or was
\* committed behind its back.
AnswerAccounts ==
    /\ poll.kind = "export" /\ poll.at = "bounded" =>
         \A c \in Stored :
           \/ c \in delivered \cup poll.rows
           \/ poll.oldest # None /\ poll.oldest <= ts[c]
           \/ c \in raced /\ (Home[c] = Server \/ ts[c] >= poll.stamp - Lag)
    /\ poll.kind = "usage" => Stored \subseteq poll.rows \cup raced

MarkInv ==
    OpenMarks /\ WatermarkKeptUnlessRaced /\ WindowClosedUnlessRaced /\ AnswerAccounts

ExportInv == WriterInv /\ TimeInv /\ RowInv /\ CursorInv /\ MarkInv

(***************************************************************************)
(* Types.                                                                  *)
(***************************************************************************)
\* What the arguments about times and row numbers need of the types.
LEMMA Sorts ==
    ASSUME TypeOK
    PROVE  /\ now \in Nat /\ nextId \in Nat /\ after \in Nat /\ promised \in Nat
           /\ \A c \in Calls : ts[c] \in Nat /\ rowid[c] \in Nat /\ rec[c] \in Nat
           /\ poll \in Polls /\ window.upto \in Int /\ delivered \subseteq Calls
  BY DEF TypeOK

LEMMA SortsNext ==
    ASSUME TypeOK'
    PROVE  /\ now' \in Nat /\ nextId' \in Nat
           /\ \A c \in Calls : rowid'[c] \in Nat /\ rec'[c] \in Nat
  BY DEF TypeOK

\* No mark lies in the future.
LEMMA NoFutureMarks ==
    ASSUME TimeInv PROVE poll.stamp <= now /\ promised <= now /\ window.upto <= now
  BY DEF TimeInv

LEMMA PollSorts ==
    ASSUME poll \in Polls PROVE poll.stamp \in Nat /\ poll.next \in Nat
  BY DEF Polls

\* The export starts well typed.
THEOREM InitType == Init => TypeOK
  <1> SUFFICES ASSUME Init PROVE TypeOK
    OBVIOUS
  <1>1. NoPoll \in Polls
    BY DEF NoPoll, None, Polls
  <1>2. window \in [counted : SUBSET Calls, upto : Int]
    BY DEF Init
  <1> QED
    BY <1>1, <1>2, ExportAssumption DEF Init, TypeOK, Stages

\* The writers' steps keep the types.
LEMMA WriterType ==
    ASSUME TypeOK, NEW r \in Replicas,
           WriterStep(r) \/ WriteFails(r) \/ Crash(r)
    PROVE  TypeOK'
  <1> DEFINE c == hand[r]
  <1>0. c # NoCall => c \in Calls
    BY DEF TypeOK
  <1>1. ASSUME Take(r) PROVE TypeOK'
    <2>1. Head(queue[r]) \in Calls /\ Tail(queue[r]) \in Seq(Calls)
      BY <1>1 DEF Take, TypeOK
    <2>2. queue' \in [Replicas -> Seq(Calls)]
      BY <1>1, <2>1 DEF Take, TypeOK
    <2>3. stage' \in [Calls -> Stages] /\ hand' \in [Replicas -> Calls \cup {NoCall}]
      BY <1>1, <2>1 DEF Take, TypeOK, Stages
    <2> QED
      BY <1>1, <2>2, <2>3 DEF Take, TypeOK, consumer, ledger, writers
  <1>2. ASSUME Insert(r) PROVE TypeOK'
    BY <1>0, <1>2 DEF Insert, TypeOK, Stages, consumer, writers
  <1>3. ASSUME Commit(r) PROVE TypeOK'
    BY <1>0, <1>3 DEF Commit, Overtaken, TypeOK, Stages, consumer, writers
  <1>4. ASSUME Done(r) PROVE TypeOK'
    BY <1>0, <1>4 DEF Done, TypeOK, consumer, ledger
  <1>5. ASSUME WriteFails(r) PROVE TypeOK'
    BY <1>0, <1>5 DEF WriteFails, TypeOK, Stages, consumer, writers
  <1>6. ASSUME Crash(r) PROVE TypeOK'
    <2>1. stage' \in [Calls -> Stages] /\ raced' \subseteq Calls
      BY <1>6 DEF Crash, Overtaken, TypeOK, Stages
    <2>2. poll' \in Polls
      BY <1>6 DEF Crash, TypeOK, NoPoll, None, Polls
    <2>3. /\ queue' \in [Replicas -> Seq(Calls)] /\ pend' \in [Replicas -> SUBSET Calls]
          /\ hand' \in [Replicas -> Calls \cup {NoCall}] /\ faults' \in Nat
      BY <1>6 DEF Crash, TypeOK
    <2> QED
      BY <1>6, <2>1, <2>2, <2>3 DEF Crash, TypeOK, consumer
  <1> QED
    BY <1>1, <1>2, <1>3, <1>4, <1>5, <1>6 DEF WriterStep

\* The bounds of a watermark are integers.
LEMMA BoundsType ==
    ASSUME TypeOK, NEW stamp \in Nat PROVE Bounds(stamp) \subseteq Int
  BY ExportAssumption DEF TypeOK, Bounds, Held

\* So do the steps of the endpoints.
LEMMA PollType ==
    ASSUME TypeOK, AskExport \/ ReadTotals \/ AnswerStep \/ AnswerLost
    PROVE  TypeOK'
  <1>0. NoPoll \in Polls
    BY DEF NoPoll, None, Polls
  <1>1. ASSUME AskExport PROVE TypeOK'
    <2>1. now \in Nat /\ poll' = [NoPoll EXCEPT !.at = "asked", !.stamp = now]
      BY <1>1 DEF AskExport, TypeOK
    <2>2. poll' \in Polls
      BY <1>0, <2>1 DEF Polls
    <2> QED
      BY <1>1, <2>2 DEF AskExport, TypeOK, ledger, writers, consumer
  <1>2. ASSUME ReadTotals PROVE TypeOK'
    <2>1. /\ Stored \in SUBSET Calls
          /\ poll' = [NoPoll EXCEPT !.kind = "usage", !.at = "bounded", !.rows = Stored]
      BY <1>2 DEF ReadTotals, Stored
    <2>2. poll' \in Polls
      BY <1>0, <2>1 DEF Polls
    <2> QED
      BY <1>2, <2>2 DEF ReadTotals, TypeOK, ledger, writers, consumer
  <1>3. ASSUME ReadPage PROVE TypeOK'
    <2> DEFINE page == FirstRows({c \in Settled(poll.stamp) : rowid[c] > after}, Limit)
    <2>1. page \in SUBSET Calls
      BY DEF FirstRows, Settled, Stored
    <2>2. Cursors(page) \subseteq Nat
      BY <2>1 DEF TypeOK, Cursors
    <2>3. PICK next \in Cursors(page) :
            poll' = [poll EXCEPT !.at = "paged", !.rows = page, !.next = next]
      BY <1>3 DEF ReadPage
    <2>4. poll' \in Polls
      <3> HIDE DEF page
      <3> QED
        BY <2>1, <2>2, <2>3 DEF TypeOK, Polls
    <2> QED
      BY <1>3, <2>4 DEF ReadPage, TypeOK, ledger, writers, consumer
  <1>4. ASSUME ReadOldest PROVE TypeOK'
    <2> DEFINE rest == {ts[c] : c \in Undelivered(poll.next)}
    <2>1. rest \subseteq Nat /\ None \in Int
      BY DEF TypeOK, None, Undelivered, Stored
    <2>2. PICK oldest \in IF rest = {} THEN {None} ELSE rest :
            poll' = [poll EXCEPT !.at = "bounded", !.oldest = oldest]
      BY <1>4 DEF ReadOldest
    <2>3. oldest \in Int
      <3> HIDE DEF rest
      <3> QED
        BY <2>1, <2>2
    <2>4. poll' \in Polls
      BY <2>2, <2>3 DEF TypeOK, Polls
    <2> QED
      BY <1>4, <2>4 DEF ReadOldest, TypeOK, ledger, writers, consumer
  <1>5. ASSUME AnswerExport PROVE TypeOK'
    <2> DEFINE bounds == Bounds(poll.stamp) \cup ({poll.oldest} \ {None})
    <2>1. bounds \subseteq Int
      BY BoundsType DEF TypeOK, Polls
    <2>2. PICK upto \in bounds : promised' = IF upto > promised THEN upto ELSE promised
      BY <1>5 DEF AnswerExport
    <2>3. promised' \in Nat
      <3> HIDE DEF bounds
      <3> QED
        BY <2>1, <2>2 DEF TypeOK
    <2>4. after' \in Nat /\ delivered' \subseteq Calls
      BY <1>5 DEF AnswerExport, TypeOK, Polls
    <2> QED
      BY <1>0, <1>5, <2>3, <2>4 DEF AnswerExport, TypeOK, ledger, writers
  <1>6. ASSUME AnswerUsage PROVE TypeOK'
    <2>1. window' \in [counted : SUBSET Calls, upto : Int]
      BY <1>6, BoundsType DEF AnswerUsage, TypeOK, Polls
    <2> QED
      BY <1>0, <1>6, <2>1 DEF AnswerUsage, TypeOK, ledger, writers
  <1>7. ASSUME AnswerLost PROVE TypeOK'
    BY <1>0, <1>7 DEF AnswerLost, TypeOK, ledger, writers, consumer
  <1> QED
    BY <1>1, <1>2, <1>3, <1>4, <1>5, <1>6, <1>7 DEF AnswerStep

\* Every step keeps the types.
THEOREM NextType == TypeOK /\ [Next]_vars => TypeOK'
  <1> SUFFICES ASSUME TypeOK, [Next]_vars PROVE TypeOK'
    OBVIOUS
  <1>1. ASSUME NEW c \in Calls, Enqueue(c) PROVE TypeOK'
    <2>1. Home[c] \in Replicas
      BY ExportAssumption
    <2>2. stage' \in [Calls -> Stages] /\ ts' \in [Calls -> Nat]
      BY <1>1 DEF Enqueue, TypeOK, Stages
    <2>3. queue' \in [Replicas -> Seq(Calls)] /\ pend' \in [Replicas -> SUBSET Calls]
      <3>1. CASE Len(queue[Home[c]]) < QueueMax
        <4>1. Append(queue[Home[c]], c) \in Seq(Calls)
          BY <2>1 DEF TypeOK
        <4>2. /\ queue' = [queue EXCEPT ![Home[c]] = Append(queue[Home[c]], c)]
              /\ pend' = [pend EXCEPT ![Home[c]] = @ \cup {c}]
          BY <1>1, <3>1 DEF Enqueue
        <4> QED
          BY <2>1, <4>1, <4>2 DEF TypeOK
      <3>2. CASE ~(Len(queue[Home[c]]) < QueueMax)
        BY <1>1, <3>2 DEF Enqueue, TypeOK
      <3> QED
        BY <3>1, <3>2
    <2> QED
      BY <1>1, <2>2, <2>3 DEF Enqueue, TypeOK, consumer
  <1>2. ASSUME Tick PROVE TypeOK'
    BY <1>2 DEF Tick, TypeOK, ledger, writers, consumer
  <1>3. ASSUME UNCHANGED vars PROVE TypeOK'
    BY <1>3 DEF vars, TypeOK, ledger, writers, consumer
  <1> QED
    BY <1>1, <1>2, <1>3, WriterType, PollType DEF Next

\* The state has its types (TypeOK, checked by the run usage_export).
THEOREM ExportTypeCorrect == Spec => []TypeOK
  BY InitType, NextType, PTL DEF Spec

(***************************************************************************)
(* The writers.                                                            *)
(***************************************************************************)
\* A call enters its replica's queue once and is pending from then on.
LEMMA EnqueueKeepsWriters ==
    ASSUME TypeOK, WriterInv, NEW c \in Calls, Enqueue(c) PROVE WriterInv'
  <1> DEFINE r == Home[c]
  <1>1. r \in Replicas /\ stage[c] = "none" /\ hand' = hand
    BY ExportAssumption DEF Enqueue
  <1>2. CASE Len(queue[r]) < QueueMax
    <2>1. /\ queue' = [queue EXCEPT ![r] = Append(queue[r], c)]
          /\ pend' = [pend EXCEPT ![r] = @ \cup {c}]
          /\ stage' = [stage EXCEPT ![c] = "queued"]
      BY <1>2 DEF Enqueue
    <2>2. \A q \in Replicas : \A i \in 1 .. Len(queue'[q]) :
            \/ i \in 1 .. Len(queue[q]) /\ queue'[q][i] = queue[q][i]
            \/ q = r /\ i = Len(queue[r]) + 1 /\ queue'[q][i] = c
      <3>1. queue[r] \in Seq(Calls)
        BY <1>1 DEF TypeOK
      <3>2. queue'[r] = Append(queue[r], c)
        BY <1>1, <2>1 DEF TypeOK
      <3>3. \A q \in Replicas \ {r} : queue'[q] = queue[q]
        BY <2>1 DEF TypeOK
      <3>4. \A i \in 1 .. Len(queue'[r]) :
              \/ i \in 1 .. Len(queue[r]) /\ queue'[r][i] = queue[r][i]
              \/ i = Len(queue[r]) + 1 /\ queue'[r][i] = c
        BY <3>1, <3>2
      <3> QED
        BY <3>3, <3>4
    <2>3. \A q \in Replicas : \A i \in 1 .. Len(queue[q]) : queue[q][i] \in Calls \ {c}
      BY <1>1 DEF TypeOK, WriterInv
    <2>4. \A q \in Replicas : \A i \in 1 .. Len(queue'[q]) :
            stage'[queue'[q][i]] = "queued" /\ Home[queue'[q][i]] = q
      <3> SUFFICES ASSUME NEW q \in Replicas, NEW i \in 1 .. Len(queue'[q])
                   PROVE  stage'[queue'[q][i]] = "queued" /\ Home[queue'[q][i]] = q
        OBVIOUS
      <3>1. CASE i \in 1 .. Len(queue[q]) /\ queue'[q][i] = queue[q][i]
        <4>1. queue[q][i] \in Calls \ {c}
          BY <2>3, <3>1
        <4>2. stage[queue[q][i]] = "queued" /\ Home[queue[q][i]] = q
          BY <3>1 DEF WriterInv
        <4> QED
          BY <2>1, <3>1, <4>1, <4>2 DEF TypeOK
      <3>2. CASE q = r /\ queue'[q][i] = c
        BY <2>1, <3>2 DEF TypeOK
      <3> QED
        BY <2>2, <3>1, <3>2
    <2>5. \A q \in Replicas : \A i, j \in 1 .. Len(queue'[q]) :
            queue'[q][i] = queue'[q][j] => i = j
      BY <2>2, <2>3 DEF WriterInv
    <2>6. \A q \in Replicas : hand'[q] # NoCall =>
            Home[hand'[q]] = q /\ stage'[hand'[q]] \notin {"none", "queued"}
      <3> SUFFICES ASSUME NEW q \in Replicas, hand[q] # NoCall
                   PROVE  Home[hand[q]] = q /\ stage'[hand[q]] \notin {"none", "queued"}
        BY <1>1
      <3>1. /\ hand[q] \in Calls /\ Home[hand[q]] = q
            /\ stage[hand[q]] \notin {"none", "queued"}
        BY DEF TypeOK, WriterInv
      <3>2. stage'[hand[q]] = stage[hand[q]]
        BY <1>1, <2>1, <3>1 DEF TypeOK
      <3> QED
        BY <3>1, <3>2
    <2>7. \A d \in Calls : Open(d)' => d \in pend'[Home[d]]
      <3> SUFFICES ASSUME NEW d \in Calls, Open(d)' PROVE d \in pend'[Home[d]]
        OBVIOUS
      <3>1. Home[d] \in Replicas
        BY ExportAssumption
      <3>2. CASE d = c
        BY <1>1, <2>1, <3>2 DEF TypeOK
      <3>3. CASE d # c
        <4>1. stage'[d] = stage[d]
          BY <2>1, <3>3 DEF TypeOK
        <4>2. d \in pend[Home[d]]
          BY <4>1 DEF Open, WriterInv
        <4> QED
          BY <1>1, <2>1, <3>1, <4>2 DEF TypeOK
      <3> QED
        BY <3>2, <3>3
    <2> QED
      BY <2>4, <2>5, <2>6, <2>7 DEF WriterInv
  <1>3. CASE ~(Len(queue[r]) < QueueMax)
    <2>1. queue' = queue /\ pend' = pend /\ stage' = [stage EXCEPT ![c] = "lost"]
      BY <1>3 DEF Enqueue
    <2>2. \A d \in Calls \ {c} : stage'[d] = stage[d]
      BY <2>1 DEF TypeOK
    <2>3. stage'[c] = "lost"
      BY <2>1 DEF TypeOK
    <2>4. \A q \in Replicas : \A i \in 1 .. Len(queue[q]) : queue[q][i] \in Calls \ {c}
      BY <1>1 DEF TypeOK, WriterInv
    <2>5. \A q \in Replicas : hand[q] # NoCall => hand[q] \in Calls \ {c}
      BY <1>1 DEF TypeOK, WriterInv
    <2>6. \A d \in Calls : Open(d)' => d \in pend'[Home[d]]
      BY <2>1, <2>2, <2>3 DEF WriterInv, Open
    <2> QED
      BY <1>1, <2>1, <2>2, <2>4, <2>5, <2>6 DEF WriterInv
  <1> QED
    BY <1>2, <1>3

\* The writer takes the head of its queue, which is nowhere else in it.
LEMMA TakeKeepsWriters ==
    ASSUME TypeOK, WriterInv, NEW r \in Replicas, Take(r) PROVE WriterInv'
  <1> DEFINE c == Head(queue[r])
  <1>1. /\ queue[r] \in Seq(Calls) /\ queue[r] # <<>>
        /\ queue' = [queue EXCEPT ![r] = Tail(@)] /\ hand' = [hand EXCEPT ![r] = c]
        /\ stage' = [stage EXCEPT ![c] = "taken"] /\ pend' = pend
    BY DEF Take, TypeOK
  <1>2. c = queue[r][1] /\ 1 \in 1 .. Len(queue[r]) /\ c \in Calls
    BY <1>1
  <1>3. Home[c] = r /\ stage[c] = "queued"
    BY <1>2 DEF WriterInv
  <1>4. \A q \in Replicas : \A i \in 1 .. Len(queue'[q]) :
          \/ q # r /\ i \in 1 .. Len(queue[q]) /\ queue'[q][i] = queue[q][i]
          \/ q = r /\ i + 1 \in 1 .. Len(queue[q]) /\ queue'[q][i] = queue[q][i + 1]
    <2>1. SUFFICES ASSUME NEW q \in Replicas, NEW i \in 1 .. Len(queue'[q])
                   PROVE  \/ q # r /\ i \in 1 .. Len(queue[q]) /\ queue'[q][i] = queue[q][i]
                          \/ /\ q = r /\ i + 1 \in 1 .. Len(queue[q])
                             /\ queue'[q][i] = queue[q][i + 1]
      OBVIOUS
    <2>2. DOMAIN queue = Replicas
      BY DEF TypeOK
    <2>3. CASE q = r
      <3>1. queue'[q] = Tail(queue[r])
        BY <1>1, <2>2, <2>3
      <3>2. queue[r] \in Seq(Calls) /\ queue[r] # <<>>
        BY <1>1
      <3>3. /\ Len(Tail(queue[r])) = Len(queue[r]) - 1
            /\ \A k \in 1 .. Len(queue[r]) - 1 : Tail(queue[r])[k] = queue[r][k + 1]
        BY <3>2
      <3>4. Len(queue[r]) \in Nat /\ i \in 1 .. Len(queue[r]) - 1
        BY <3>1, <3>2, <3>3
      <3>5. queue'[q][i] = queue[r][i + 1] /\ i + 1 \in 1 .. Len(queue[r])
        BY <3>1, <3>3, <3>4
      <3> QED
        BY <2>3, <3>5
    <2>4. CASE q # r
      BY <1>1, <2>2, <2>4
    <2> QED
      BY <2>3, <2>4
  <1>5. \A q \in Replicas : \A i \in 1 .. Len(queue'[q]) : queue'[q][i] # c
    BY <1>2, <1>3, <1>4 DEF WriterInv
  <1>6. \A q \in Replicas : \A i \in 1 .. Len(queue'[q]) :
          stage'[queue'[q][i]] = "queued" /\ Home[queue'[q][i]] = q
    <2> SUFFICES ASSUME NEW q \in Replicas, NEW i \in 1 .. Len(queue'[q])
                 PROVE  stage'[queue'[q][i]] = "queued" /\ Home[queue'[q][i]] = q
      OBVIOUS
    <2>1. stage[queue'[q][i]] = "queued" /\ Home[queue'[q][i]] = q
      BY <1>4 DEF WriterInv
    <2>2. queue'[q][i] \in Calls
      <3>1. queue[q] \in Seq(Calls)
        BY DEF TypeOK
      <3> QED
        BY <1>4, <3>1
    <2> QED
      BY <1>1, <1>5, <2>1, <2>2 DEF TypeOK
  <1>7. \A q \in Replicas : \A i, j \in 1 .. Len(queue'[q]) :
          queue'[q][i] = queue'[q][j] => i = j
    <2> SUFFICES ASSUME NEW q \in Replicas, NEW i \in 1 .. Len(queue'[q]),
                        NEW j \in 1 .. Len(queue'[q]), queue'[q][i] = queue'[q][j]
                 PROVE  i = j
      OBVIOUS
    <2>1. CASE q = r
      <3>1. i + 1 = j + 1
        BY <1>4, <2>1 DEF WriterInv
      <3> QED
        BY <3>1
    <2>2. CASE q # r
      BY <1>4, <2>2 DEF WriterInv
    <2> QED
      BY <2>1, <2>2
  <1>8. \A q \in Replicas : hand'[q] # NoCall =>
          Home[hand'[q]] = q /\ stage'[hand'[q]] \notin {"none", "queued"}
    <2> SUFFICES ASSUME NEW q \in Replicas, hand'[q] # NoCall
                 PROVE  Home[hand'[q]] = q /\ stage'[hand'[q]] \notin {"none", "queued"}
      OBVIOUS
    <2>1. CASE q = r
      BY <1>1, <1>2, <1>3, <2>1 DEF TypeOK
    <2>2. CASE q # r
      BY <1>1, <1>2, <2>2 DEF TypeOK, WriterInv
    <2> QED
      BY <2>1, <2>2
  <1>9. \A d \in Calls : Open(d)' => d \in pend'[Home[d]]
    BY <1>1, <1>2, <1>3 DEF TypeOK, WriterInv, Open
  <1> QED
    BY <1>6, <1>7, <1>8, <1>9 DEF WriterInv

\* What happens to the call in a writer's hand disturbs no queue.
LEMMA HandKeepsWriters ==
    ASSUME TypeOK, WriterInv, NEW r \in Replicas,
           Insert(r) \/ Commit(r) \/ Done(r) \/ WriteFails(r)
    PROVE  WriterInv'
  <1> DEFINE c == hand[r]
  <1>1. /\ c \in Calls /\ Home[c] = r /\ stage[c] \notin {"none", "queued"}
        /\ queue' = queue
    BY DEF TypeOK, WriterInv, Insert, Commit, Done, WriteFails, writers
  <1>2. CASE Insert(r) \/ Commit(r) \/ WriteFails(r)
    <2>1. /\ hand' = hand /\ pend' = pend /\ Open(c)
          /\ \E s \in {"inserted", "stored", "lost"} : stage' = [stage EXCEPT ![c] = s]
      BY <1>2 DEF Insert, Commit, WriteFails, writers, Open
    <2>2. /\ \A d \in Calls \ {c} : stage'[d] = stage[d]
          /\ stage'[c] \in {"inserted", "stored", "lost"}
      BY <1>1, <2>1 DEF TypeOK
    <2>3. \A q \in Replicas : \A i \in 1 .. Len(queue[q]) : queue[q][i] \in Calls \ {c}
      <3> SUFFICES ASSUME NEW q \in Replicas, NEW i \in 1 .. Len(queue[q])
                   PROVE  queue[q][i] \in Calls \ {c}
        OBVIOUS
      <3>1. queue[q] \in Seq(Calls)
        BY DEF TypeOK
      <3> QED
        BY <1>1, <3>1 DEF WriterInv
    <2>4. \A q \in Replicas : \A i \in 1 .. Len(queue[q]) :
            stage'[queue[q][i]] = "queued" /\ Home[queue[q][i]] = q
      BY <2>2, <2>3 DEF WriterInv
    <2>5. \A q \in Replicas : hand[q] # NoCall =>
            Home[hand[q]] = q /\ stage'[hand[q]] \notin {"none", "queued"}
      BY <2>2 DEF TypeOK, WriterInv
    <2>6. \A d \in Calls : Open(d)' => d \in pend[Home[d]]
      BY <1>1, <2>1, <2>2 DEF WriterInv, Open
    <2> QED
      BY <1>1, <2>1, <2>4, <2>5, <2>6 DEF WriterInv
  <1>3. CASE Done(r)
    <2>1. /\ stage' = stage /\ stage[c] \in {"stored", "lost"}
          /\ hand' = [hand EXCEPT ![r] = NoCall]
          /\ pend' = [pend EXCEPT ![r] = @ \ {c}]
      BY <1>3 DEF Done, Written, ledger
    <2>2. \A d \in Calls : Open(d)' => d # c /\ d \in pend[Home[d]]
      BY <2>1 DEF WriterInv, Open
    <2>3. \A d \in Calls : Open(d)' => d \in pend'[Home[d]]
      BY <2>1, <2>2, ExportAssumption DEF TypeOK
    <2>4. \A q \in Replicas : hand'[q] # NoCall =>
            Home[hand'[q]] = q /\ stage'[hand'[q]] \notin {"none", "queued"}
      BY <2>1 DEF TypeOK, WriterInv
    <2> QED
      BY <1>1, <2>1, <2>3, <2>4 DEF WriterInv
  <1> QED
    BY <1>2, <1>3

\* A crash concerns the calls of one replica, and leaves none of them open.
LEMMA CrashKeepsWriters ==
    ASSUME TypeOK, WriterInv, NEW r \in Replicas, Crash(r) PROVE WriterInv'
  <1>1. \A c \in Calls : Home[c] # r => stage'[c] = stage[c]
    BY DEF Crash, TypeOK
  <1>2. \A c \in Calls : Home[c] = r => ~Open(c)'
    BY DEF Crash, TypeOK, Open
  <1>3. /\ queue' = [queue EXCEPT ![r] = <<>>] /\ hand' = [hand EXCEPT ![r] = NoCall]
        /\ pend' = [pend EXCEPT ![r] = {}]
    BY DEF Crash
  <1>4. \A q \in Replicas : \A i \in 1 .. Len(queue'[q]) :
          q # r /\ i \in 1 .. Len(queue[q]) /\ queue'[q][i] = queue[q][i]
    BY <1>3 DEF TypeOK
  <1>5. \A q \in Replicas : \A i \in 1 .. Len(queue'[q]) :
          stage'[queue'[q][i]] = "queued" /\ Home[queue'[q][i]] = q
    <2> SUFFICES ASSUME NEW q \in Replicas, NEW i \in 1 .. Len(queue'[q])
                 PROVE  stage'[queue'[q][i]] = "queued" /\ Home[queue'[q][i]] = q
      OBVIOUS
    <2>1. queue[q] \in Seq(Calls)
      BY DEF TypeOK
    <2>2. queue'[q][i] \in Calls
      BY <1>4, <2>1
    <2>3. stage[queue'[q][i]] = "queued" /\ Home[queue'[q][i]] = q /\ q # r
      BY <1>4 DEF WriterInv
    <2> QED
      BY <1>1, <2>2, <2>3
  <1>6. \A q \in Replicas : \A i, j \in 1 .. Len(queue'[q]) :
          queue'[q][i] = queue'[q][j] => i = j
    BY <1>4 DEF WriterInv
  <1>7. \A q \in Replicas : hand'[q] # NoCall =>
          Home[hand'[q]] = q /\ stage'[hand'[q]] \notin {"none", "queued"}
    BY <1>1, <1>3 DEF TypeOK, WriterInv
  <1>8. \A d \in Calls : Open(d)' => d \in pend'[Home[d]]
    BY <1>1, <1>2, <1>3, ExportAssumption DEF TypeOK, WriterInv, Open
  <1> QED
    BY <1>5, <1>6, <1>7, <1>8 DEF WriterInv

\* The endpoints and the clock touch no writer.
LEMMA WriterStepInv ==
    ASSUME TypeOK, WriterInv, [Next]_vars PROVE WriterInv'
  <1>1. ASSUME UNCHANGED <<ledger, writers>> PROVE WriterInv'
    BY <1>1 DEF ledger, writers, WriterInv, Open
  <1>2. CASE \/ AskExport \/ ReadTotals \/ AnswerStep \/ AnswerLost \/ Tick
             \/ UNCHANGED vars
    BY <1>1, <1>2 DEF AskExport, ReadTotals, AnswerStep, ReadPage, ReadOldest,
                      AnswerExport, AnswerUsage, AnswerLost, Tick, vars
  <1> QED
    BY <1>2, EnqueueKeepsWriters, TakeKeepsWriters, HandKeepsWriters,
       CrashKeepsWriters DEF Next, WriterStep

\* Four steps work on an answer; every other leaves the poll alone or ends it.
LEMMA PollSteps ==
    ASSUME [Next]_vars
    PROVE  \/ AskExport \/ ReadTotals \/ ReadPage \/ ReadOldest
           \/ poll' \in {poll, NoPoll}
  <1>1. ASSUME NEW c \in Calls, Enqueue(c) PROVE poll' = poll
    BY <1>1 DEF Enqueue
  <1>2. ASSUME NEW r \in Replicas, WriterStep(r) PROVE poll' = poll
    BY <1>2 DEF WriterStep, Take, Insert, Commit, Done
  <1>3. ASSUME NEW r \in Replicas, WriteFails(r) PROVE poll' = poll
    BY <1>3 DEF WriteFails
  <1>4. ASSUME NEW r \in Replicas, Crash(r) PROVE poll' \in {poll, NoPoll}
    BY <1>4 DEF Crash
  <1>5. ASSUME AnswerStep PROVE ReadPage \/ ReadOldest \/ poll' = NoPoll
    BY <1>5 DEF AnswerStep, AnswerExport, AnswerUsage
  <1>6. CASE AnswerLost \/ Tick \/ UNCHANGED vars
    BY <1>6 DEF AnswerLost, Tick, vars
  <1> QED
    BY <1>1, <1>2, <1>3, <1>4, <1>5, <1>6 DEF Next

(***************************************************************************)
(* Rows and time.                                                          *)
(***************************************************************************)
\* Only an INSERT gives a call its row, with the next id and the present time.
LEMMA Numbering ==
    ASSUME TypeOK, [Next]_vars
    PROVE  /\ nextId' >= nextId
           /\ \A c \in Calls : HasRow(c)' =>
                \/ HasRow(c) /\ rowid'[c] = rowid[c] /\ rec'[c] = rec[c]
                \/ /\ rowid'[c] = nextId /\ rec'[c] = now /\ nextId' = nextId + 1
                   /\ now' = now /\ poll' = poll /\ after' = after
           /\ \A c \in Calls : stage'[c] = "inserted" =>
                \/ stage[c] = "inserted"
                \/ rec'[c] = now /\ now' = now
  <1>1. ASSUME UNCHANGED <<stage, rowid, rec, nextId>>
        PROVE  /\ nextId' >= nextId
               /\ \A c \in Calls : HasRow(c)' =>
                    HasRow(c) /\ rowid'[c] = rowid[c] /\ rec'[c] = rec[c]
               /\ \A c \in Calls : stage'[c] = "inserted" => stage[c] = "inserted"
    BY <1>1 DEF HasRow, TypeOK
  <1>2. CASE \/ AskExport \/ ReadTotals \/ AnswerStep \/ AnswerLost \/ Tick
             \/ UNCHANGED vars \/ \E r \in Replicas : Done(r)
    BY <1>1, <1>2 DEF AskExport, ReadTotals, AnswerStep, ReadPage, ReadOldest,
                AnswerExport, AnswerUsage, AnswerLost, Tick, Done, ledger, vars
  <1>3. ASSUME NEW c \in Calls, Enqueue(c)
        PROVE  /\ UNCHANGED <<rowid, rec, nextId>>
               /\ \A d \in Calls : stage'[d] = stage[d] \/ stage'[d] \in {"queued", "lost"}
    BY <1>3 DEF Enqueue, TypeOK
  <1>4. ASSUME NEW r \in Replicas, Take(r) \/ WriteFails(r) \/ Commit(r) \/ Crash(r)
        PROVE  /\ UNCHANGED <<rowid, rec, nextId>>
               /\ \A d \in Calls : \/ stage'[d] = stage[d]
                                   \/ stage'[d] \in {"taken", "lost"}
                                   \/ stage[d] = "inserted" /\ stage'[d] = "stored"
    <2>1. CASE Take(r)
      BY <2>1 DEF Take, TypeOK
    <2>2. CASE WriteFails(r)
      BY <2>2 DEF WriteFails, TypeOK
    <2>3. CASE Commit(r)
      BY <2>3 DEF Commit, TypeOK
    <2>4. CASE Crash(r)
      BY <2>4 DEF Crash, TypeOK
    <2> QED
      BY <1>4, <2>1, <2>2, <2>3, <2>4
  <1>5. ASSUME NEW r \in Replicas, Insert(r)
        PROVE  /\ nextId' = nextId + 1 /\ now' = now /\ poll' = poll /\ after' = after
               /\ \A d \in Calls : \/ /\ stage'[d] = stage[d] /\ rowid'[d] = rowid[d]
                                      /\ rec'[d] = rec[d]
                                   \/ rowid'[d] = nextId /\ rec'[d] = now
    BY <1>5 DEF Insert, TypeOK, consumer
  <1>6. CASE \E c \in Calls : Enqueue(c)
    <2>1. PICK c \in Calls : Enqueue(c)
      BY <1>6
    <2>2. /\ UNCHANGED <<rowid, rec, nextId>>
          /\ \A d \in Calls : stage'[d] = stage[d] \/ stage'[d] \in {"queued", "lost"}
      BY <1>3, <2>1
    <2>3. nextId' >= nextId
      BY <2>2 DEF TypeOK
    <2>4. \A d \in Calls : HasRow(d)' =>
            HasRow(d) /\ rowid'[d] = rowid[d] /\ rec'[d] = rec[d]
      BY <2>2 DEF HasRow
    <2>5. \A d \in Calls : stage'[d] = "inserted" => stage[d] = "inserted"
      BY <2>2
    <2> QED
      BY <2>3, <2>4, <2>5
  <1>7. CASE \E r \in Replicas : Take(r) \/ WriteFails(r) \/ Commit(r) \/ Crash(r)
    <2>1. PICK r \in Replicas : Take(r) \/ WriteFails(r) \/ Commit(r) \/ Crash(r)
      BY <1>7
    <2>2. /\ UNCHANGED <<rowid, rec, nextId>>
          /\ \A d \in Calls : \/ stage'[d] = stage[d]
                              \/ stage'[d] \in {"taken", "lost"}
                              \/ stage[d] = "inserted" /\ stage'[d] = "stored"
      BY <1>4, <2>1
    <2>3. nextId' >= nextId
      BY <2>2 DEF TypeOK
    <2>4. \A d \in Calls : HasRow(d)' =>
            HasRow(d) /\ rowid'[d] = rowid[d] /\ rec'[d] = rec[d]
      BY <2>2 DEF HasRow
    <2>5. \A d \in Calls : stage'[d] = "inserted" => stage[d] = "inserted"
      BY <2>2
    <2> QED
      BY <2>3, <2>4, <2>5
  <1>8. CASE \E r \in Replicas : Insert(r)
    BY <1>5, <1>8 DEF HasRow, TypeOK
  <1> QED
    BY <1>2, <1>6, <1>7, <1>8 DEF Next, WriterStep

\* A call comes open with the present time, and keeps its time.
LEMMA Opening ==
    ASSUME TypeOK, WriterInv, [Next]_vars
    PROVE  /\ \A c \in Calls : Open(c)' => \/ Open(c) /\ ts'[c] = ts[c]
                                           \/ ts'[c] = now /\ now' = now
           /\ \A c \in Stored' : /\ ts'[c] = ts[c]
                                 /\ c \in Stored \/ stage[c] = "inserted"
  <1>1. ASSUME UNCHANGED <<stage, ts>>
        PROVE  /\ \A c \in Calls : Open(c)' => Open(c) /\ ts'[c] = ts[c]
               /\ \A c \in Stored' : ts'[c] = ts[c] /\ c \in Stored
    BY <1>1 DEF Open, Stored
  <1>2. CASE \/ AskExport \/ ReadTotals \/ AnswerStep \/ AnswerLost \/ Tick
             \/ UNCHANGED vars \/ \E r \in Replicas : Done(r)
    BY <1>1, <1>2 DEF AskExport, ReadTotals, AnswerStep, ReadPage, ReadOldest,
                AnswerExport, AnswerUsage, AnswerLost, Tick, Done, ledger, vars
  <1>3. CASE \E c \in Calls : Enqueue(c)
    <2>1. PICK c \in Calls : Enqueue(c)
      BY <1>3
    <2>2. /\ now' = now /\ ts' = [ts EXCEPT ![c] = now] /\ stage'[c] \in {"queued", "lost"}
          /\ \A d \in Calls \ {c} : stage'[d] = stage[d]
      BY <2>1 DEF Enqueue, TypeOK
    <2> QED
      BY <2>2 DEF TypeOK, Open, Stored
  <1>4. CASE \E r \in Replicas : Take(r)
    <2>1. PICK r \in Replicas : Take(r)
      BY <1>4
    <2>2. queue[r] \in Seq(Calls) /\ queue[r] # <<>>
      BY <2>1 DEF Take, TypeOK
    <2>3. Head(queue[r]) \in Calls /\ stage[Head(queue[r])] = "queued"
      BY <2>2 DEF WriterInv
    <2>4. stage' = [stage EXCEPT ![Head(queue[r])] = "taken"] /\ ts' = ts
      BY <2>1 DEF Take
    <2> QED
      BY <2>3, <2>4 DEF TypeOK, Open, Stored
  <1>5. CASE \E r \in Replicas : Insert(r) \/ Commit(r) \/ WriteFails(r) \/ Crash(r)
    <2>1. PICK r \in Replicas : Insert(r) \/ Commit(r) \/ WriteFails(r) \/ Crash(r)
      BY <1>5
    <2>2. CASE Insert(r)
      BY <2>2 DEF Insert, TypeOK, Open, Stored
    <2>3. CASE Commit(r)
      BY <2>3 DEF Commit, TypeOK, Open, Stored
    <2>4. CASE WriteFails(r)
      BY <2>4 DEF WriteFails, TypeOK, Open, Stored
    <2>5. CASE Crash(r)
      BY <2>5 DEF Crash, TypeOK, Open, Stored
    <2> QED
      BY <2>1, <2>2, <2>3, <2>4, <2>5
  <1> QED
    BY <1>2, <1>3, <1>4, <1>5 DEF Next, WriterStep

\* Rows stay numbered in the order of their recorded_at.
LEMMA RowStepInv ==
    ASSUME TypeOK, TypeOK', TimeInv, RowInv, [Next]_vars PROVE RowInv'
  <1>1. \A c \in Calls : HasRow(c)' => rowid'[c] < nextId'
    <2> SUFFICES ASSUME NEW c \in Calls, HasRow(c)' PROVE rowid'[c] < nextId'
      OBVIOUS
    <2>1. CASE HasRow(c) /\ rowid'[c] = rowid[c]
      BY <2>1, Numbering DEF RowInv, TypeOK
    <2>2. CASE rowid'[c] = nextId /\ nextId' = nextId + 1
      BY <2>2 DEF TypeOK
    <2> QED
      BY <2>1, <2>2, Numbering
  <1>2. ASSUME NEW c \in Calls, NEW d \in Calls, HasRow(c)', HasRow(d)',
               rowid'[c] <= rowid'[d]
        PROVE  rec'[c] <= rec'[d]
    <2>0. /\ rowid[c] \in Nat /\ rowid[d] \in Nat /\ nextId \in Nat
          /\ rec[c] \in Nat /\ rec[d] \in Nat /\ now \in Nat
      BY DEF TypeOK
    <2>1. CASE /\ HasRow(c) /\ rowid'[c] = rowid[c] /\ rec'[c] = rec[c]
               /\ HasRow(d) /\ rowid'[d] = rowid[d] /\ rec'[d] = rec[d]
      BY <1>2, <2>1 DEF RowInv
    <2>2. CASE HasRow(c) /\ rec'[c] = rec[c] /\ rec'[d] = now
      BY <2>2 DEF TimeInv
    <2>3. CASE rec'[c] = now /\ rec'[d] = now
      BY <2>3 DEF TypeOK
    <2>4. CASE rowid'[c] = nextId /\ HasRow(d) /\ rowid'[d] = rowid[d]
      <3>1. rowid[d] < nextId
        BY <2>4 DEF RowInv
      <3> QED
        BY <1>2, <2>0, <2>4, <3>1
    <2> QED
      BY <1>2, <2>1, <2>2, <2>3, <2>4, Numbering
  <1> QED
    BY <1>1, <1>2 DEF RowInv

\* A page's watermark is below the lag, every pending call and the oldest row
\* beyond the page.
LEMMA ExportMark ==
    ASSUME TypeOK, AnswerExport
    PROVE  \E upto \in Int :
             /\ upto <= poll.stamp - Lag
             /\ \A c \in pend[Server] : upto <= ts[c]
             /\ poll.oldest # None => upto <= poll.oldest
             /\ promised' = IF upto > promised THEN upto ELSE promised
  <1> DEFINE bounds == Bounds(poll.stamp) \cup ({poll.oldest} \ {None})
  <1>1. bounds \subseteq Int
    BY BoundsType DEF TypeOK, Polls
  <1>2. PICK upto \in bounds :
          /\ IsLeast(upto, bounds)
          /\ promised' = IF upto > promised THEN upto ELSE promised
    BY DEF AnswerExport
  <1>3. /\ upto <= poll.stamp - Lag /\ \A c \in pend[Server] : upto <= ts[c]
        /\ poll.oldest # None => upto <= poll.oldest
    BY <1>2 DEF IsLeast, Bounds, Held
  <1> QED
    BY <1>1, <1>2, <1>3

\* So is that of a window.
LEMMA UsageMark ==
    ASSUME TypeOK, AnswerUsage
    PROVE  /\ window'.counted = poll.rows /\ window'.upto \in Int
           /\ window'.upto <= now - Lag
           /\ \A c \in pend[Server] : window'.upto <= ts[c]
  <1>1. PICK upto \in Bounds(now) :
          IsLeast(upto, Bounds(now)) /\ window' = [counted |-> poll.rows, upto |-> upto]
    BY DEF AnswerUsage
  <1>2. upto \in Int
    BY <1>1, BoundsType DEF TypeOK
  <1>3. upto <= now - Lag /\ \A c \in pend[Server] : upto <= ts[c]
    BY <1>1 DEF IsLeast, Bounds, Held
  <1> QED
    BY <1>1, <1>2, <1>3

\* Time passes only while every deadline is met; no mark is ahead of it.
LEMMA TimeStepInv ==
    ASSUME TypeOK, TypeOK', WriterInv, TimeInv, [Next]_vars PROVE TimeInv'
  <1>0. /\ now' = now \/ Tick
        /\ now \in Nat /\ now' \in Nat /\ ts \in [Calls -> Nat] /\ ts' \in [Calls -> Nat]
        /\ rec \in [Calls -> Nat] /\ rec' \in [Calls -> Nat]
        /\ \A c \in Calls : Backlog[Home[c]] \in Nat
        /\ CommitTime \in Nat
    BY ExportAssumption DEF TypeOK, Next, Enqueue, WriterStep, Take, Insert, Commit,
       WriteFails, Done, Crash, AskExport, ReadTotals, AnswerStep, ReadPage, ReadOldest,
       AnswerExport, AnswerUsage, AnswerLost, vars
  <1>1. Tick => now' = now + 1 /\ UNCHANGED <<stage, ts, rec>>
    BY DEF Tick, ledger
  <1>2. ASSUME NEW c \in Calls, stage'[c] = "inserted" PROVE now' - rec'[c] <= CommitTime
    <2>1. CASE stage[c] = "inserted" /\ rec'[c] = rec[c]
      <3>1. CASE Tick
        BY <1>0, <1>1, <2>1, <3>1 DEF Tick
      <3>2. CASE now' = now
        BY <2>1, <3>2 DEF TimeInv
      <3> QED
        BY <1>0, <3>1, <3>2
    <2>2. CASE rec'[c] = now /\ now' = now
      BY <1>0, <2>2
    <2> QED
      BY <1>2, <2>1, <2>2, Numbering DEF HasRow
  <1>3. ASSUME NEW c \in Calls, Open(c)' PROVE now' - ts'[c] <= Backlog[Home[c]]
    <2>1. CASE Open(c) /\ ts'[c] = ts[c]
      <3>1. CASE Tick
        BY <1>0, <1>1, <2>1, <3>1 DEF Tick, Open
      <3>2. CASE now' = now
        BY <2>1, <3>2 DEF TimeInv
      <3> QED
        BY <1>0, <3>1, <3>2
    <2>2. CASE ts'[c] = now /\ now' = now
      BY <1>0, <2>2
    <2> QED
      BY <1>3, <2>1, <2>2, Opening
  <1>4. ASSUME NEW c \in Calls, HasRow(c)' PROVE rec'[c] <= now'
    <2>1. CASE HasRow(c) /\ rec'[c] = rec[c]
      BY <1>0, <1>1, <2>1 DEF TimeInv
    <2>2. CASE rec'[c] = now
      BY <1>0, <1>1, <2>2
    <2> QED
      BY <1>4, <2>1, <2>2, Numbering
  <1>5. now <= now'
    BY <1>0, <1>1
  <1>6. poll'.stamp <= now'
    <2>1. poll.stamp \in Nat /\ NoPoll.stamp = 0
      BY Sorts, PollSorts DEF NoPoll
    <2>2. poll'.stamp \in {poll.stamp, 0, now}
      <3>1. CASE AskExport
        BY <3>1 DEF AskExport, NoPoll
      <3>2. CASE ReadTotals
        BY <3>2 DEF ReadTotals, NoPoll
      <3>3. CASE ReadPage
        BY <3>3, Sorts DEF ReadPage, Polls
      <3>4. CASE ReadOldest
        BY <3>4, Sorts DEF ReadOldest, Polls
      <3>5. CASE poll' \in {poll, NoPoll}
        BY <2>1, <3>5
      <3> QED
        BY <3>1, <3>2, <3>3, <3>4, <3>5, PollSteps
    <2> QED
      BY <1>0, <1>5, <2>1, <2>2 DEF TimeInv
  <1>7. promised' <= now'
    <2>1. CASE AnswerExport
      <3>1. PICK upto \in Int : /\ upto <= poll.stamp - Lag
                                /\ promised' = IF upto > promised THEN upto ELSE promised
        BY <2>1, ExportMark
      <3>2. upto <= now
        <4>1. poll.stamp \in Nat /\ poll.stamp <= now
          BY Sorts, PollSorts, NoFutureMarks
        <4>2. Lag \in Nat /\ now \in Nat
          BY ExportAssumption, Sorts
        <4> QED
          BY <3>1, <4>1, <4>2
      <3> QED
        <4>1. promised \in Nat /\ promised <= now
          BY Sorts, NoFutureMarks, Zenon
        <4>2. promised' <= now
          BY <3>1, <3>2, <4>1
        <4>3. promised' \in Int
          BY <3>1, <4>1
        <4> QED
          BY <1>0, <1>5, <4>2, <4>3
    <2>2. CASE promised' = promised
      <3>1. promised \in Nat /\ promised <= now
        BY Sorts, NoFutureMarks, Zenon
      <3> QED
        BY <1>0, <1>5, <2>2, <3>1
    <2> QED
      BY <2>1, <2>2 DEF Next, Enqueue, WriterStep, Take, Insert, Commit, WriteFails,
         Done, Crash, AskExport, ReadTotals, AnswerStep, ReadPage, ReadOldest,
         AnswerUsage, AnswerLost, Tick, vars, consumer
  <1>8. window'.upto <= now'
    <2>1. CASE AnswerUsage
      BY <1>0, <1>5, <2>1, UsageMark, ExportAssumption
    <2>2. CASE window' = window
      <3>1. window.upto \in Int /\ window.upto <= now
        BY Sorts, NoFutureMarks, Zenon
      <3> QED
        BY <1>0, <1>5, <2>2, <3>1
    <2> QED
      BY <2>1, <2>2 DEF Next, Enqueue, WriterStep, Take, Insert, Commit, WriteFails,
         Done, Crash, AskExport, ReadTotals, AnswerStep, ReadPage, ReadOldest,
         AnswerExport, AnswerLost, Tick, vars, consumer
  <1> QED
    BY <1>2, <1>3, <1>4, <1>6, <1>7, <1>8 DEF TimeInv

(***************************************************************************)
(* The cursor.                                                             *)
(***************************************************************************)
\* A page leaves no row behind: what precedes its last row in id order is old
\* enough to be committed, hence on the page or before the cursor.
LEMMA PageIsComplete ==
    ASSUME TypeOK, TimeInv, RowInv, CursorInv, ReadPage
    PROVE  /\ poll'.kind = poll.kind /\ poll'.stamp = poll.stamp
           /\ poll'.at = "paged" /\ poll'.next < nextId
           /\ \A c \in Calls : HasRow(c) /\ rowid[c] <= poll'.next
                                 => c \in delivered \cup poll'.rows
  <1> DEFINE S == {c \in Settled(poll.stamp) : rowid[c] > after}
             page == FirstRows(S, Limit)
  <1>1. PICK next \in Cursors(page) :
          /\ \A c \in page : rowid[c] <= next
          /\ poll' = [poll EXCEPT !.at = "paged", !.rows = page, !.next = next]
    BY DEF ReadPage
  <1>2. /\ poll'.kind = poll.kind /\ poll'.stamp = poll.stamp /\ poll'.at = "paged"
        /\ poll'.rows = page /\ poll'.next = next
    <2> HIDE DEF page
    <2> QED
      BY <1>1, Sorts DEF Polls
  <1>3. CASE next = after
    BY <1>2, <1>3 DEF CursorInv
  <1>4. CASE next # after
    <2>1. PICK m \in page : next = rowid[m]
      BY <1>1, <1>4 DEF Cursors
    <2>2. /\ m \in Calls /\ HasRow(m) /\ rec[m] <= poll.stamp - Lag
          /\ Cardinality({d \in S : rowid[d] < rowid[m]}) < Limit
      BY <2>1 DEF FirstRows, Settled, Stored, HasRow
    <2>3. next < nextId
      BY <2>1, <2>2 DEF RowInv
    <2>4. ASSUME NEW c \in Calls, HasRow(c), rowid[c] <= rowid[m]
          PROVE  c \in delivered \cup page
      <3>1. rec[c] <= poll.stamp - Lag
        <4>1. rec[c] <= rec[m]
          BY <2>2, <2>4 DEF RowInv
        <4>2. rec[c] \in Nat /\ rec[m] \in Nat /\ poll.stamp - Lag \in Int
          BY <2>2, Sorts, PollSorts, ExportAssumption
        <4> QED
          BY <2>2, <4>1, <4>2
      <3>2. c \in Stored
        <4>1. stage[c] # "inserted"
          <5>1. stage[c] = "inserted" => now - rec[c] <= CommitTime
            BY DEF TimeInv
          <5>2. poll.stamp <= now
            BY DEF TimeInv
          <5>3. rec[c] \in Nat /\ poll.stamp \in Nat /\ now \in Nat
            BY Sorts, PollSorts
          <5> QED
            BY <3>1, <5>1, <5>2, <5>3, ExportAssumption
        <4> QED
          BY <2>4, <4>1 DEF HasRow, Stored
      <3>3. CASE rowid[c] <= after
        BY <2>4, <3>3 DEF CursorInv
      <3>4. CASE rowid[c] > after
        <4> DEFINE below(x) == {d \in S : rowid[d] < rowid[x]}
        <4>1. c \in S
          BY <3>1, <3>2, <3>4 DEF Settled
        <4>2. S \subseteq Calls /\ IsFiniteSet(Calls)
          BY ExportAssumption DEF Settled, Stored
        <4>3. IsFiniteSet(below(m)) /\ below(m) \subseteq Calls
          <5>1. below(m) \in SUBSET Calls
            BY <4>2
          <5> QED
            BY <4>2, <5>1, FS_Subset
        <4>4. below(c) \in SUBSET below(m)
          BY <2>2, <2>4, <4>2, Sorts
        <4>5. /\ Cardinality(below(c)) <= Cardinality(below(m))
              /\ Cardinality(below(c)) \in Nat /\ Cardinality(below(m)) \in Nat
          <5>1. IsFiniteSet(below(c)) /\ Cardinality(below(c)) <= Cardinality(below(m))
            BY <4>3, <4>4, FS_Subset
          <5> QED
            BY <4>3, <5>1, FS_CardinalityType
        <4>6. Cardinality(below(c)) < Limit
          BY <2>2, <4>5, ExportAssumption
        <4> QED
          BY <4>1, <4>6 DEF FirstRows
      <3> QED
        BY <2>4, <3>3, <3>4, Sorts
    <2> QED
      BY <1>2, <2>1, <2>3, <2>4
  <1> QED
    BY <1>3, <1>4, <1>2

\* The steps that leave the endpoints alone.
LEMMA QuietCursor ==
    ASSUME TypeOK, TypeOK', CursorInv, [Next]_vars,
           after' = after, delivered' = delivered, poll' \in {poll, NoPoll}
    PROVE  CursorInv'
  <1>1. NoPoll.kind = "export" /\ NoPoll.at = "idle"
    BY DEF NoPoll
  <1>2. ASSUME NEW c \in Calls, HasRow(c)', NEW limit \in Nat, limit < nextId,
               rowid'[c] <= limit
        PROVE  HasRow(c) /\ rowid[c] <= limit
    <2>1. \/ HasRow(c) /\ rowid'[c] = rowid[c]
          \/ rowid'[c] = nextId
      BY <1>2, Numbering
    <2>2. rowid'[c] # nextId
      BY <1>2, Sorts
    <2> QED
      BY <1>2, <2>1, <2>2
  <1>3. after' < nextId' /\ \A c \in Calls : HasRow(c)' /\ rowid'[c] <= after'
                                              => c \in delivered'
    <2>1. after \in Nat /\ after < nextId /\ nextId \in Nat /\ nextId' \in Nat
      BY Sorts, SortsNext DEF CursorInv
    <2>2. after' < nextId'
      BY <2>1, Numbering
    <2> QED
      BY <1>2, <2>1, <2>2 DEF CursorInv
  <1>4. poll'.kind = "usage" => poll'.at = "bounded"
    BY <1>1 DEF CursorInv
  <1>5. ASSUME poll'.kind = "export", poll'.at \in {"paged", "bounded"}
        PROVE  /\ poll'.next < nextId'
               /\ \A c \in Calls : HasRow(c)' /\ rowid'[c] <= poll'.next
                                     => c \in delivered' \cup poll'.rows
    <2>1. poll' = poll
      BY <1>1, <1>5
    <2>2. poll.next \in Nat /\ poll.next < nextId /\ nextId \in Nat /\ nextId' \in Nat
      BY <1>5, <2>1, Sorts, PollSorts, SortsNext DEF CursorInv
    <2>3. poll'.next < nextId'
      BY <2>1, <2>2, Numbering
    <2> QED
      BY <1>2, <1>5, <2>1, <2>2, <2>3 DEF CursorInv
  <1> QED
    BY <1>3, <1>4, <1>5 DEF CursorInv

\* The cursor passes only what is delivered.
LEMMA CursorStepInv ==
    ASSUME TypeOK, TypeOK', TimeInv, RowInv, CursorInv, [Next]_vars PROVE CursorInv'
  <1>0. NoPoll.kind = "export" /\ NoPoll.at = "idle"
    BY DEF NoPoll
  <1>1. CASE AskExport
    <2>1. poll'.kind = "export" /\ poll'.at = "asked"
      BY <1>1 DEF AskExport, NoPoll
    <2> QED
      BY <1>1, <2>1 DEF AskExport, CursorInv, HasRow, ledger, consumer
  <1>2. CASE ReadTotals
    <2>1. poll'.kind = "usage" /\ poll'.at = "bounded"
      BY <1>2 DEF ReadTotals, NoPoll
    <2> QED
      BY <1>2, <2>1 DEF ReadTotals, CursorInv, HasRow, ledger, consumer
  <1>3. CASE ReadPage
    <2>1. UNCHANGED <<stage, rowid, nextId, after, delivered>>
      BY <1>3 DEF ReadPage, ledger, consumer
    <2>2. poll'.kind # "usage"
      BY <1>3, PageIsComplete DEF ReadPage, CursorInv
    <2> QED
      BY <1>3, <2>1, <2>2, PageIsComplete DEF CursorInv, HasRow
  <1>4. CASE ReadOldest
    <2>1. /\ poll'.kind = poll.kind /\ poll'.at = "bounded" /\ poll'.next = poll.next
          /\ poll'.rows = poll.rows /\ poll.at = "paged"
      BY <1>4, Sorts DEF ReadOldest, Polls
    <2> QED
      BY <1>4, <2>1 DEF ReadOldest, CursorInv, HasRow, ledger, consumer
  <1>5. CASE AnswerExport
    <2>1. /\ after' = poll.next /\ delivered' = delivered \cup poll.rows /\ poll' = NoPoll
          /\ UNCHANGED <<stage, rowid, nextId>>
          /\ poll.kind = "export" /\ poll.at = "bounded"
      BY <1>5 DEF AnswerExport, ledger
    <2> QED
      BY <1>0, <2>1 DEF CursorInv, HasRow
  <1>6. CASE ~(AskExport \/ ReadTotals \/ ReadPage \/ ReadOldest \/ AnswerExport)
    <2>1. after' = after /\ delivered' = delivered /\ poll' \in {poll, NoPoll}
      BY <1>6 DEF Next, Enqueue, WriterStep, Take, Insert, Commit, WriteFails, Done,
         Crash, AnswerStep, AnswerUsage, AnswerLost, Tick, vars, consumer
    <2> QED
      BY <2>1, QuietCursor
  <1> QED
    BY <1>1, <1>2, <1>3, <1>4, <1>5, <1>6

(***************************************************************************)
(* The watermarks.                                                         *)
(***************************************************************************)
\* A mark below the lag and the server's pending calls is below every open call.
LEMMA BelowOpen ==
    ASSUME TypeOK, WriterInv, TimeInv, NEW t \in Nat, t <= now,
           NEW mark \in Int, mark <= t - Lag,
           \A c \in pend[Server] : mark <= ts[c],
           NEW c \in Calls, Open(c)
    PROVE  mark <= ts[c]
  <1>1. CASE Home[c] = Server
    BY <1>1 DEF WriterInv
  <1>2. CASE Home[c] # Server
    <2>1. Backlog[Home[c]] <= Lag /\ Backlog[Home[c]] \in Nat /\ Lag \in Nat
      BY <1>2, ExportAssumption
    <2>2. now - ts[c] <= Backlog[Home[c]] /\ ts[c] \in Nat /\ now \in Nat
      BY DEF TimeInv, TypeOK
    <2> QED
      BY <2>1, <2>2
  <1> QED
    BY <1>1, <1>2

\* What becomes visible while an answer is put together counts as raced.
LEMMA RacedCommits ==
    ASSUME TypeOK, [Next]_vars
    PROVE  /\ raced \subseteq raced'
           /\ \A c \in Stored' : c \in Stored \/ poll.at # "bounded" \/ c \in raced'
  <1>1. CASE \E r \in Replicas : Commit(r) \/ Crash(r)
    <2>1. PICK r \in Replicas : Commit(r) \/ Crash(r)
      BY <1>1
    <2>2. CASE Commit(r)
      BY <2>2 DEF Commit, Overtaken, Stored, TypeOK
    <2>3. CASE Crash(r)
      BY <2>3 DEF Crash, Overtaken, Stored, TypeOK
    <2> QED
      BY <2>1, <2>2, <2>3
  <1>2. CASE \E r \in Replicas : Take(r) \/ Insert(r) \/ WriteFails(r) \/ Done(r)
    <2>1. PICK r \in Replicas : Take(r) \/ Insert(r) \/ WriteFails(r) \/ Done(r)
      BY <1>2
    <2>2. raced' = raced
      BY <2>1 DEF Take, Insert, WriteFails, Done
    <2>3. \A c \in Calls : stage'[c] = stage[c] \/ stage'[c] # "stored"
      BY <2>1 DEF Take, Insert, WriteFails, Done, TypeOK, ledger
    <2> QED
      BY <2>2, <2>3 DEF Stored
  <1>3. CASE \E c \in Calls : Enqueue(c)
    <2>1. raced' = raced /\ \A c \in Calls : stage'[c] = stage[c] \/ stage'[c] # "stored"
      BY <1>3 DEF Enqueue, TypeOK
    <2> QED
      BY <2>1 DEF Stored
  <1>4. CASE \/ AskExport \/ ReadTotals \/ AnswerStep \/ AnswerLost \/ Tick
             \/ UNCHANGED vars
    <2>1. raced' = raced /\ stage' = stage
      BY <1>4 DEF AskExport, ReadTotals, AnswerStep, ReadPage, ReadOldest, AnswerExport,
                  AnswerUsage, AnswerLost, Tick, vars, ledger
    <2> QED
      BY <2>1 DEF Stored
  <1> QED
    BY <1>1, <1>2, <1>3, <1>4 DEF Next, WriterStep

\* The steps that give no answer, as far as answers given are concerned.
LEMMA QuietMarks ==
    ASSUME TypeOK, TypeOK', WriterInv, TimeInv, MarkInv, [Next]_vars,
           promised' = promised, window' = window, delivered \subseteq delivered'
    PROVE  /\ \A c \in Calls : Open(c)' => ts'[c] >= promised' /\ ts'[c] >= window'.upto
           /\ WatermarkKeptUnlessRaced' /\ WindowClosedUnlessRaced'
  <1>1. ASSUME NEW c \in Calls, Open(c)'
        PROVE  ts'[c] >= promised /\ ts'[c] >= window.upto
    <2>1. CASE Open(c) /\ ts'[c] = ts[c]
      BY <2>1 DEF MarkInv, OpenMarks
    <2>2. CASE ts'[c] = now
      BY <2>2 DEF TimeInv
    <2> QED
      BY <1>1, <2>1, <2>2, Opening
  <1>2. ASSUME NEW c \in Stored'
        PROVE  /\ ts'[c] = ts[c]
               /\ c \in Stored \/ (ts[c] >= promised /\ ts[c] >= window.upto)
    <2>1. CASE stage[c] = "inserted"
      BY <2>1, Opening DEF MarkInv, OpenMarks, Open, Stored
    <2> QED
      BY <2>1, Opening
  <1>3. WatermarkKeptUnlessRaced'
    <2> SUFFICES ASSUME NEW c \in Stored', ts'[c] < promised'
                 PROVE  c \in delivered' \/ (c \in raced' /\ Home[c] = Server)
      BY DEF WatermarkKeptUnlessRaced
    <2>1. c \in Stored /\ ts[c] < promised
      BY <1>2, Sorts DEF Stored
    <2> QED
      BY <2>1, RacedCommits DEF MarkInv, WatermarkKeptUnlessRaced
  <1>4. WindowClosedUnlessRaced'
    <2> SUFFICES ASSUME NEW c \in Stored', ts'[c] < window'.upto
                 PROVE  c \in window'.counted \cup raced'
      BY DEF WindowClosedUnlessRaced
    <2>1. c \in Stored /\ ts[c] < window.upto
      BY <1>2, Sorts DEF Stored
    <2> QED
      BY <2>1, RacedCommits DEF MarkInv, WindowClosedUnlessRaced
  <1> QED
    BY <1>1, <1>3, <1>4

\* An export's answer promises no call that is open, beyond the page or unseen.
LEMMA ExportMarks ==
    ASSUME TypeOK, TypeOK', WriterInv, TimeInv, MarkInv, AnswerExport PROVE MarkInv'
  <1>1. PICK upto \in Int :
          /\ upto <= poll.stamp - Lag
          /\ \A c \in pend[Server] : upto <= ts[c]
          /\ poll.oldest # None => upto <= poll.oldest
          /\ promised' = IF upto > promised THEN upto ELSE promised
    BY ExportMark
  <1>2. /\ delivered' = delivered \cup poll.rows /\ poll' = NoPoll
        /\ UNCHANGED <<stage, ts, window, raced>>
        /\ poll.kind = "export" /\ poll.at = "bounded"
    BY DEF AnswerExport, ledger
  <1>3. poll'.kind = "export" /\ poll'.at = "idle"
    BY <1>2 DEF NoPoll
  <1>4. ASSUME NEW c \in Calls, Open(c) PROVE ts[c] >= promised'
    <2>1. upto <= ts[c]
      BY <1>1, <1>4, BelowOpen DEF TypeOK, TimeInv, Polls
    <2> QED
      BY <1>1, <1>4, <2>1 DEF MarkInv, OpenMarks
  <1>5. ASSUME NEW c \in Stored, ts[c] < promised'
        PROVE  c \in delivered \cup poll.rows \/ (c \in raced /\ Home[c] = Server)
    <2>1. CASE ts[c] < promised
      BY <2>1 DEF MarkInv, WatermarkKeptUnlessRaced
    <2>2. CASE ts[c] < upto
      <3>1. ts[c] \in Nat /\ poll.oldest \in Int /\ poll.stamp \in Nat /\ Lag \in Nat
        BY ExportAssumption DEF TypeOK, Polls, Stored
      <3>2. ~(ts[c] >= poll.stamp - Lag) /\ ~(poll.oldest # None /\ poll.oldest <= ts[c])
        BY <1>1, <2>2, <3>1
      <3> QED
        BY <1>2, <3>2 DEF MarkInv, AnswerAccounts
    <2> QED
      BY <1>1, <1>5, <2>1, <2>2
  <1>6. WatermarkKeptUnlessRaced'
    BY <1>2, <1>5 DEF WatermarkKeptUnlessRaced, Stored
  <1> QED
    <2>1. OpenMarks'
      BY <1>2, <1>4 DEF MarkInv, OpenMarks, Open
    <2>2. WindowClosedUnlessRaced'
      BY <1>2 DEF MarkInv, WindowClosedUnlessRaced, Stored
    <2>3. AnswerAccounts'
      BY <1>3 DEF AnswerAccounts
    <2> QED
      BY <1>6, <2>1, <2>2, <2>3 DEF MarkInv

\* Nor does a window's.
LEMMA UsageMarks ==
    ASSUME TypeOK, TypeOK', WriterInv, TimeInv, MarkInv, AnswerUsage PROVE MarkInv'
  <1>1. /\ window'.counted = poll.rows /\ window'.upto \in Int
        /\ window'.upto <= now - Lag
        /\ \A c \in pend[Server] : window'.upto <= ts[c]
    BY UsageMark
  <1>2. /\ poll' = NoPoll /\ UNCHANGED <<stage, ts, delivered, promised, raced>>
        /\ poll.kind = "usage"
    BY DEF AnswerUsage, ledger
  <1>3. poll'.kind = "export" /\ poll'.at = "idle"
    BY <1>2 DEF NoPoll
  <1>4. ASSUME NEW c \in Calls, Open(c) PROVE ts[c] >= window'.upto
    <2>1. now \in Nat /\ now <= now /\ ts[c] \in Nat
      BY DEF TypeOK
    <2>2. window'.upto <= ts[c]
      BY <1>1, <1>4, <2>1, BelowOpen
    <2> QED
      BY <1>1, <2>1, <2>2
  <1>5. WindowClosedUnlessRaced'
    BY <1>1, <1>2 DEF MarkInv, AnswerAccounts, WindowClosedUnlessRaced, Stored
  <1> QED
    <2>1. OpenMarks'
      BY <1>2, <1>4 DEF MarkInv, OpenMarks, Open
    <2>2. WatermarkKeptUnlessRaced'
      BY <1>2 DEF MarkInv, WatermarkKeptUnlessRaced, Stored
    <2>3. AnswerAccounts'
      BY <1>3 DEF AnswerAccounts
    <2> QED
      BY <1>5, <2>1, <2>2, <2>3 DEF MarkInv

\* The last read of an export accounts for every row it can see.
LEMMA OldestAccounts ==
    ASSUME TypeOK, CursorInv, ReadOldest
    PROVE  /\ poll'.kind = "export" /\ poll'.rows = poll.rows
           /\ \A c \in Stored : \/ c \in delivered \cup poll.rows
                                \/ poll'.oldest # None /\ poll'.oldest <= ts[c]
  <1> DEFINE rest == {ts[c] : c \in Undelivered(poll.next)}
  <1>1. PICK oldest \in IF rest = {} THEN {None} ELSE rest :
          /\ rest # {} => IsLeast(oldest, rest)
          /\ poll' = [poll EXCEPT !.at = "bounded", !.oldest = oldest]
    BY DEF ReadOldest
  <1>2. /\ poll'.kind = poll.kind /\ poll'.rows = poll.rows /\ poll'.oldest = oldest
        /\ poll.at = "paged" /\ poll.kind = "export"
    BY <1>1 DEF ReadOldest, TypeOK, Polls, CursorInv
  <1>3. ASSUME NEW c \in Stored, ~(rowid[c] <= poll.next)
        PROVE  oldest # None /\ oldest <= ts[c]
    <2>1. c \in Undelivered(poll.next)
      BY <1>3 DEF Undelivered, TypeOK, Polls, Stored
    <2>2. ts[c] \in rest /\ IsLeast(oldest, rest)
      BY <1>1, <2>1
    <2>3. oldest \in Nat
      BY <2>2 DEF IsLeast, Undelivered, Stored, TypeOK
    <2> QED
      BY <2>2, <2>3 DEF IsLeast, None
  <1>4. ASSUME NEW c \in Stored, rowid[c] <= poll.next
        PROVE  c \in delivered \cup poll.rows
    BY <1>2, <1>4 DEF CursorInv, HasRow, Stored
  <1> QED
    BY <1>2, <1>3, <1>4

\* What an answer under way has not seen was committed behind its back.
LEMMA UnderWay ==
    ASSUME TypeOK, TypeOK', WriterInv, TimeInv, MarkInv, [Next]_vars,
           poll' = poll, delivered' = delivered
    PROVE  /\ poll'.kind = "export" /\ poll'.at = "bounded" =>
                \A c \in Stored' :
                  \/ c \in delivered' \cup poll'.rows
                  \/ poll'.oldest # None /\ poll'.oldest <= ts'[c]
                  \/ c \in raced' /\ (Home[c] = Server \/ ts'[c] >= poll'.stamp - Lag)
           /\ (poll'.kind = "usage" /\ poll'.at = "bounded")
                => Stored' \subseteq poll'.rows \cup raced'
  <1>1. ASSUME NEW c \in Stored', c \notin Stored, poll.at = "bounded"
        PROVE  /\ c \in raced' /\ ts'[c] = ts[c]
               /\ Home[c] = Server \/ ts[c] >= poll.stamp - Lag
    <2>1. c \in raced' /\ ts'[c] = ts[c] /\ stage[c] = "inserted" /\ c \in Calls
      BY <1>1, RacedCommits, Opening DEF Stored
    <2>2. CASE Home[c] # Server
      <3>1. Backlog[Home[c]] <= Lag /\ Backlog[Home[c]] \in Nat /\ Lag \in Nat
        BY <2>1, <2>2, ExportAssumption
      <3>2. /\ now - ts[c] <= Backlog[Home[c]] /\ poll.stamp <= now
            /\ ts[c] \in Nat /\ now \in Nat /\ poll.stamp \in Nat
        BY <2>1 DEF TimeInv, TypeOK, Open, Polls
      <3> QED
        BY <2>1, <3>1, <3>2
    <2> QED
      BY <2>1, <2>2
  <1>2. ASSUME poll.kind = "export", poll.at = "bounded", NEW c \in Stored'
        PROVE  \/ c \in delivered \cup poll.rows
               \/ poll.oldest # None /\ poll.oldest <= ts'[c]
               \/ c \in raced' /\ (Home[c] = Server \/ ts'[c] >= poll.stamp - Lag)
    <2>1. CASE c \in Stored
      BY <1>2, <2>1, RacedCommits, Opening DEF MarkInv, AnswerAccounts
    <2>2. CASE c \notin Stored
      BY <1>1, <1>2, <2>2
    <2> QED
      BY <2>1, <2>2
  <1>3. ASSUME poll.kind = "usage", poll.at = "bounded", NEW c \in Stored'
        PROVE  c \in poll.rows \cup raced'
    BY <1>1, <1>3, RacedCommits DEF MarkInv, AnswerAccounts
  <1> QED
    BY <1>2, <1>3

\* Every step keeps the watermarks.
LEMMA MarkStepInv ==
    ASSUME TypeOK, TypeOK', WriterInv, TimeInv, CursorInv, CursorInv', MarkInv,
           [Next]_vars
    PROVE  MarkInv'
  <1>0. NoPoll.kind = "export" /\ NoPoll.at = "idle"
    BY DEF NoPoll
  <1>1. CASE ~(AnswerExport \/ AnswerUsage)
    <2>1. promised' = promised /\ window' = window /\ delivered' = delivered
      BY <1>1 DEF Next, Enqueue, WriterStep, Take, Insert, Commit, WriteFails, Done,
         Crash, AskExport, ReadTotals, AnswerStep, ReadPage, ReadOldest, AnswerLost,
         Tick, vars, consumer
    <2>2. AnswerAccounts'
      <3>1. CASE AskExport
        <4>1. poll'.kind = "export" /\ poll'.at = "asked"
          BY <3>1 DEF AskExport, NoPoll
        <4> QED
          BY <4>1 DEF AnswerAccounts
      <3>2. CASE ReadTotals
        <4>1. poll'.kind = "usage" /\ poll'.rows = Stored /\ Stored' = Stored
          BY <3>2 DEF ReadTotals, NoPoll, Stored, ledger
        <4> QED
          BY <4>1 DEF AnswerAccounts
      <3>3. CASE ReadPage
        <4>1. poll'.at = "paged" /\ poll'.kind = poll.kind /\ poll.at = "asked"
          BY <3>3, Sorts DEF ReadPage, Polls
        <4> QED
          BY <4>1 DEF CursorInv, AnswerAccounts
      <3>4. CASE ReadOldest
        <4>1. Stored' = Stored /\ ts' = ts
          BY <3>4 DEF ReadOldest, Stored, ledger
        <4> QED
          BY <2>1, <3>4, <4>1, OldestAccounts DEF AnswerAccounts
      <3>5. CASE poll' = poll
        BY <2>1, <3>5, UnderWay DEF CursorInv, AnswerAccounts
      <3>6. CASE poll' = NoPoll
        BY <1>0, <3>6 DEF AnswerAccounts
      <3>7. \/ AskExport \/ ReadTotals \/ ReadPage \/ ReadOldest
            \/ poll' = poll \/ poll' = NoPoll
        BY <1>1 DEF Next, Enqueue, WriterStep, Take, Insert, Commit, WriteFails, Done,
           Crash, AnswerStep, AnswerLost, Tick, vars
      <3> QED
        BY <3>1, <3>2, <3>3, <3>4, <3>5, <3>6, <3>7
    <2>3. /\ OpenMarks' /\ WatermarkKeptUnlessRaced' /\ WindowClosedUnlessRaced'
      <3>1. delivered \subseteq delivered'
        BY <2>1
      <3> QED
        BY <2>1, <3>1, QuietMarks DEF OpenMarks
    <2> QED
      BY <2>2, <2>3 DEF MarkInv
  <1> QED
    BY <1>1, ExportMarks, UsageMarks

(***************************************************************************)
(* The theorems.                                                           *)
(***************************************************************************)
\* The inductive invariant starts true.
LEMMA InitInv == Init => ExportInv
  <1> SUFFICES ASSUME Init PROVE ExportInv
    OBVIOUS
  <1>1. /\ \A c \in Calls : stage[c] = "none"
        /\ \A r \in Replicas : queue[r] = <<>> /\ hand[r] = NoCall
        /\ now = 0 /\ poll = NoPoll /\ promised = 0 /\ window.upto = 0 /\ after = 0
        /\ nextId = 1
    BY DEF Init
  <1>2. NoPoll.kind = "export" /\ NoPoll.at = "idle" /\ NoPoll.stamp = 0
    BY DEF NoPoll
  <1>3. Stored = {}
    BY <1>1 DEF Stored
  <1> QED
    BY <1>1, <1>2, <1>3 DEF ExportInv, WriterInv, TimeInv, RowInv, CursorInv, MarkInv,
       OpenMarks, AnswerAccounts, WatermarkKeptUnlessRaced, WindowClosedUnlessRaced, Open, HasRow

\* The inductive invariant behind the three theorems that follow.
THEOREM ExportInvariant == Spec => [](TypeOK /\ ExportInv)
  <1>1. Init => TypeOK /\ ExportInv
    BY InitType, InitInv
  <1>2. (TypeOK /\ ExportInv) /\ [Next]_vars => (TypeOK /\ ExportInv)'
    <2> SUFFICES ASSUME TypeOK, ExportInv, [Next]_vars PROVE TypeOK' /\ ExportInv'
      OBVIOUS
    <2>1. TypeOK'
      BY NextType
    <2>2. WriterInv' /\ TimeInv' /\ RowInv' /\ CursorInv'
      BY <2>1, WriterStepInv, TimeStepInv, RowStepInv, CursorStepInv DEF ExportInv
    <2>3. MarkInv'
      BY <2>1, <2>2, MarkStepInv DEF ExportInv
    <2> QED
      BY <2>1, <2>2, <2>3 DEF ExportInv
  <1> QED
    BY <1>1, <1>2, PTL DEF Spec

\* The export's cursor never passes a row that is not delivered
\* (NothingSkipped, checked by the run usage_export).
THEOREM CursorSkipsNothing == Spec => []NothingSkipped
  <1>1. TypeOK /\ ExportInv => NothingSkipped
    BY DEF ExportInv, CursorInv, NothingSkipped, HasRow, Stored
  <1> QED
    BY <1>1, ExportInvariant, PTL

\* The export's watermark promises only what is delivered, but for rows committed
\* while the answer was put together (WatermarkKeptUnlessRaced, checked by the
\* run usage_export).
THEOREM WatermarksHold == Spec => []WatermarkKeptUnlessRaced
  <1>1. TypeOK /\ ExportInv => WatermarkKeptUnlessRaced
    BY DEF ExportInv, MarkInv
  <1> QED
    BY <1>1, ExportInvariant, PTL

\* The window that /internal/usage calls closed stays as it was counted, with
\* the same exception (WindowClosedUnlessRaced, checked by the run usage_export).
THEOREM WindowsClose == Spec => []WindowClosedUnlessRaced
  <1>1. TypeOK /\ ExportInv => WindowClosedUnlessRaced
    BY DEF ExportInv, MarkInv
  <1> QED
    BY <1>1, ExportInvariant, PTL
=============================================================================

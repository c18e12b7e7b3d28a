----------------------------- MODULE Analytics -----------------------------
(***************************************************************************)
(* The hourly aggregates of the calls and the dashboards that read them:     *)
(* the scheduled job that recomputes the last hours and a stretch of older  *)
(* ones (scripts/rollup_analytics.py, host_store.py, rollup_analytics), and  *)
(* the snapshot that the viewers of one page share (auth_proxy.py,          *)
(* _snapshot_cached_compute).                                              *)
(*                                                                         *)
(* An aggregate is the set of the calls it counts.  A call reaches the store *)
(* Lag after its time stamp or later (its writer's queue), and the schedule  *)
(* starts a job at least every Period, except while it is down; nothing in   *)
(* the code enforces either, so what misses them is excused by a ghost.     *)
(***************************************************************************)
EXTENDS Integers, FiniteSets

CONSTANTS Calls, Viewers,
          Unit,     \* ticks in an hour
          Hours,    \* --hours, as ticks
          Older,    \* --backfill-hours-per-run, as ticks
          Retain,   \* --retain-days, as ticks
          Lag, Period,
          SnapTTL,  \* _SNAPSHOT_TTL_S
          MaxTime   \* bound

VARIABLES now,
          call,     \* call -> when it was made, and whether its row is in the store
          hourly,   \* hour -> the calls its aggregate counts
          covered,  \* from and until, or NoCover
          job,      \* of the run of the job that is under way: its end, or Idle
          lastRun,  \* the last one that recomputed the last hours
          excused,  \* ghost: hours of late rows, or of a schedule that was down
          snap,     \* the shared snapshot, its age, and whether its reads worked
          viewer,   \* what each request for it is at
          newest    \* ghost: all calls a snapshot ever counted

shown == <<snap, viewer, newest>>
stored == <<hourly, covered>>
vars == <<now, call, stored, job, lastRun, excused, shown>>

NotMade == [at |-> -1, landed |-> FALSE]
NoCover == <<0, 0>>
Idle    == -1
Never   == -1
NoSnap  == [at |-> -1, counts |-> {}, ok |-> TRUE]
Away    == [at |-> "away", counts |-> {}, ok |-> TRUE]

HourOf(t) == t \div Unit
AllHours  == 0..HourOf(MaxTime)

Init == /\ now = 0 /\ call = [c \in Calls |-> NotMade]
        /\ hourly = [h \in AllHours |-> {}] /\ covered = NoCover
        /\ job = Idle /\ lastRun = Never /\ excused = {}
        /\ snap = NoSnap /\ viewer = [v \in Viewers |-> Away] /\ newest = {}

(***************************************************************************)
(* The calls                                                               *)
(***************************************************************************)
Make(c) == /\ call[c] = NotMade
           /\ call' = [call EXCEPT ![c].at = now]
           /\ UNCHANGED <<now, stored, job, lastRun, excused, shown>>

Land(c) == /\ call[c].at >= 0 /\ ~call[c].landed
           /\ call' = [call EXCEPT ![c].landed = TRUE]
           /\ excused' = IF now > call[c].at + Lag THEN excused \cup {HourOf(call[c].at)}
                         ELSE excused
           /\ UNCHANGED <<now, stored, job, lastRun, shown>>

(***************************************************************************)
(* rollup_analytics: the hours from start to end are deleted and counted     *)
(* again, in one transaction under one lock                                *)
(***************************************************************************)
Floor(t) == (t \div Unit) * Unit
Ceil(t)  == ((t + Unit - 1) \div Unit) * Unit

LandedIn(from, until, h) ==
    {c \in Calls : call[c].landed /\ call[c].at \in from..(until - 1) /\ HourOf(call[c].at) = h}

\* Mutant of Rolled: what is counted again is not widened to whole hours.
RolledRaw(start, end) ==
    hourly' = [h \in AllHours |-> IF h * Unit \in Floor(start)..(Ceil(end) - 1)
                                  THEN LandedIn(start, end, h) ELSE hourly[h]]

Rolled(start, end) ==
    hourly' = [h \in AllHours |-> IF h * Unit \in Floor(start)..(Ceil(end) - 1)
                                  THEN LandedIn(Floor(start), Ceil(end), h) ELSE hourly[h]]

Lesser(a, b)  == IF a < b THEN a ELSE b
Greater(a, b) == IF a > b THEN a ELSE b

Covers(start, end) ==
    covered' = IF covered = NoCover THEN <<Floor(start), Ceil(end)>>
               ELSE <<Lesser(covered[1], Floor(start)), Greater(covered[2], Ceil(end))>>

\* The job reads the clock once; its first transaction.
RollRecent == /\ job = Idle /\ now > 0
              /\ Rolled(Greater(0, now - Hours), now) /\ Covers(Greater(0, now - Hours), now)
              /\ job' = now /\ lastRun' = now
              /\ UNCHANGED <<now, call, excused, shown>>

\* Its second: a stretch before the oldest hour that is covered.
RollOlder == /\ job # Idle /\ job' = Idle
             /\ LET target == Greater(0, job - Retain)
                    older  == Greater(target, covered[1] - Older)
                IN  /\ covered[1] > target
                    /\ Rolled(older, covered[1]) /\ Covers(older, covered[1])
             /\ UNCHANGED <<now, call, lastRun, excused, shown>>

\* The history is complete, or the job died between its transactions.
JobEnds == /\ job # Idle /\ job' = Idle
           /\ UNCHANGED <<now, call, stored, lastRun, excused, shown>>

(***************************************************************************)
(* The page: computed once for all viewers, by reads of the aggregates       *)
(***************************************************************************)
Counted == UNION {hourly[h] : h \in AllHours}
Valid   == snap.at >= 0 /\ now - snap.at < SnapTTL

Computing(v) == viewer[v].at = "computing"

\* A valid snapshot is answered at once; else the request takes the page's lock.
Ask(v) == /\ viewer[v] = Away /\ ~Valid
          /\ viewer' = [viewer EXCEPT ![v].at = "waiting"]
          /\ UNCHANGED <<now, call, stored, job, lastRun, excused, snap, newest>>

\* Mutant of Free: the lock of a page is made anew for each request.
FreeAnyway == TRUE

Free == \A v \in Viewers : ~Computing(v)

\* analytics_aggregate: when the store fails, the answer is what was read until then,
\* nothing perhaps, with the word that it is not available.
Answers == {[at |-> "computing", counts |-> Counted, ok |-> TRUE]} \cup
           [at : {"computing"}, counts : {{}, Counted}, ok : {FALSE}]

\* With the lock, the snapshot is looked for again before it is computed.
Compute(v) == /\ viewer[v].at = "waiting" /\ Free
              /\ \E answer \in IF Valid THEN {Away} ELSE Answers :
                   viewer' = [viewer EXCEPT ![v] = answer]
              /\ UNCHANGED <<now, call, stored, job, lastRun, excused, snap, newest>>

\* Whatever the answer, it is the page of all viewers until its time is over.
Put(v) == /\ Computing(v)
          /\ snap' = [viewer[v] EXCEPT !.at = now]
          /\ newest' = newest \cup viewer[v].counts
          /\ viewer' = [viewer EXCEPT ![v] = Away]
          /\ UNCHANGED <<now, call, stored, job, lastRun, excused>>

(***************************************************************************)
(* Time                                                                    *)
(***************************************************************************)
\* The hours that a run at time t still has to count.
Open(t) == {h \in AllHours : t \in ((h + 1) * Unit)..((h + 1) * Unit + Lag + Period)}

Tick == /\ now < MaxTime /\ now' = now + 1
        /\ excused' = IF lastRun # Never /\ now' - lastRun > Period
                      THEN excused \cup Open(now') ELSE excused
        /\ UNCHANGED <<call, stored, job, lastRun, shown>>

Next == \/ \E c \in Calls : Make(c) \/ Land(c)
        \/ RollRecent \/ RollOlder \/ JobEnds
        \/ \E v \in Viewers : Ask(v) \/ Compute(v) \/ Put(v)
        \/ Tick

Spec == Init /\ [][Next]_vars

(***************************************************************************)
(* What must hold                                                          *)
(***************************************************************************)
CallsOf(h) == {c \in Calls : call[c].landed /\ HourOf(call[c].at) = h}

\* An hour that is said to be covered, and that two runs of the job have had the
\* time to see after its last row landed, counts all its calls, each of them
\* once: the window that is recomputed, its rounding to whole hours and the
\* stretches of older hours leave no gap and cut no hour in half.
HoursComplete ==
    \A h \in AllHours \ excused :
        h * Unit >= covered[1] /\ (h + 1) * Unit <= covered[2]
        /\ now > (h + 1) * Unit + Lag + Period
        => hourly[h] = CallsOf(h)

\* No page that viewers share is replaced by an older one.  A page whose reads
\* failed may lack calls that were shown before; it says so, and lasts no longer
\* than any other: the next one whose reads worked counts them all again.
PageNeverGoesBack == snap.ok => newest \subseteq snap.counts
=============================================================================

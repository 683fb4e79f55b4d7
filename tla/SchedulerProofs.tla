--------------------------- MODULE SchedulerProofs ---------------------------
(***************************************************************************)
(* The two jobs that run by the clock, proved: the backup scheduler for    *)
(* weeks of any length that begin at any weekday (Backup), and the rotation*)
(* of the WeChat expiration worker for any number of attempts and any      *)
(* limits (WxBatch).                                                       *)
(***************************************************************************)
EXTENDS Backup, WxBatch, FiniteSetTheorems, TLAPS

-----------------------------------------------------------------------------
(* The calendar                                                            *)

LEMMA Division ==
    ASSUME NEW a \in Int, NEW n \in Nat \ {0}
    PROVE  /\ a % n \in 0 .. n - 1
           /\ a \div n \in Int
           /\ a = (n * (a \div n)) + (a % n)
OBVIOUS

LEMMA NoMultipleBelow ==
    ASSUME NEW n \in Nat \ {0}, NEW k \in Int, n * k < n, -n < n * k
    PROVE  k = 0
<1>1. CASE k >= 1
  <2>1. n * k >= n
    BY <1>1, Z3
  <2> QED BY <2>1, Z3
<1>2. CASE k <= -1
  <2>1. n * k <= -n
    BY <1>2, Z3
  <2> QED BY <2>1, Z3
<1> QED BY <1>1, <1>2

\* A first day is the first day of one week only: the weekday that leads there
\* from a given day is the weekday of that day.
LEMMA FirstDay ==
    ASSUME NEW n \in Nat \ {0}, NEW day \in Int, NEW weekday \in 0 .. n - 1,
           (day - weekday) % n = 0
    PROVE  weekday = day % n
<1> DEFINE q == day \div n
           p == (day - weekday) \div n
<1>1. day % n \in 0 .. n - 1 /\ q \in Int /\ day = (n * q) + (day % n)
  BY Division
<1>2. p \in Int /\ day - weekday = n * p
  BY Division
<1> HIDE DEF q, p
<1>3. n * (p - q) = n * p - n * q
  BY <1>1, <1>2, Z3
<1>4. n * (p - q) = (day % n) - weekday
  BY <1>1, <1>2, <1>3, Z3
<1>5. p - q = 0
  <2>1. p - q \in Int
    BY <1>1, <1>2
  <2>2. n * (p - q) < n /\ -n < n * (p - q)
    BY <1>1, <1>4
  <2> QED BY <2>1, <2>2, NoMultipleBelow
<1> QED BY <1>1, <1>2, <1>4, <1>5

LEMMA Calendar ==
    ASSUME NEW t \in Nat
    PROVE  Day(t) \in Nat /\ Weekday(t) \in 0 .. WeekDays - 1 /\ Week(t) \in Int
<1>1. Day(t) \in Nat
  BY DEF Day
<1>2. Weekday(t) \in 0 .. WeekDays - 1
  <2>1. Day(t) + FirstWeekday \in Int
    BY <1>1, CalendarAssumption
  <2> HIDE DEF Day
  <2>2. (Day(t) + FirstWeekday) % WeekDays \in 0 .. WeekDays - 1
    BY <2>1, CalendarAssumption, Division
  <2> QED BY <2>2 DEF Weekday
<1> QED BY <1>1, <1>2, CalendarAssumption DEF Week

\* A day of one read less the weekday of another is the name of a week only if
\* it is the week of the day.
LEMMA OwnWeek ==
    ASSUME NEW s \in Nat, NEW t \in Nat,
           (Day(t) - Weekday(s) + FirstWeekday) % WeekDays = 0
    PROVE  Week(t) = Day(t) - Weekday(s)
<1>1. /\ Day(t) \in Nat /\ Weekday(s) \in 0 .. WeekDays - 1
      /\ FirstWeekday \in Nat /\ WeekDays \in Nat \ {0}
  BY Calendar, CalendarAssumption
<1>2. Day(t) - Weekday(s) + FirstWeekday = (Day(t) + FirstWeekday) - Weekday(s)
  BY <1>1
<1>3. Day(t) + FirstWeekday \in Int
  BY <1>1
<1>4. Weekday(s) = (Day(t) + FirstWeekday) % WeekDays
  BY <1>1, <1>2, <1>3, FirstDay
<1> QED BY <1>4 DEF Week, Weekday

-----------------------------------------------------------------------------
(* The phases of the scheduler                                             *)

\* A backup that runs, or whose markers are written.
Planned == [at : {"backup"} \cup Marking, type : {"full", "diff"},
            today : Nat, week : Int, during : Int]

\* The backup a plan stands for.
Made(j) == [type |-> j.type, today |-> j.today, week |-> j.week, during |-> j.during]

LEMMA Phases ==
    ASSUME BackupTypeOK
    PROVE  /\ time \in Nat
           /\ job.at = "check" => job.since \in 0 .. time /\ job.since \in Nat
           /\ job.at \in {"backup"} \cup Marking => job \in Planned
<1>1. time \in Nat
  BY CalendarAssumption DEF BackupTypeOK
<1> QED BY <1>1 DEF BackupTypeOK, Down, Sleeping, Planned, Marking

LEMMA NextPhase ==
    ASSUME NEW j \in Planned, NEW at \in Marking
    PROVE  /\ [j EXCEPT !.at = at] \in Planned
           /\ [j EXCEPT !.at = at].at = at
           /\ [j EXCEPT !.at = at].type = j.type
           /\ [j EXCEPT !.at = at].today = j.today
           /\ [j EXCEPT !.at = at].week = j.week
           /\ [j EXCEPT !.at = at].during = j.during
           /\ Made(j) \in BackupOf
BY DEF Planned, Marking, Made, BackupOf


-----------------------------------------------------------------------------
(* The inductive invariant                                                 *)

LEMMA Initially == BackupInit => BackupInv
<1> SUFFICES ASSUME BackupInit PROVE BackupInv
  OBVIOUS
<1>1. BackupTypeOK
  <2>1. time \in 0 .. MaxTime /\ stops \in 0 .. MaxStops
    BY CalendarAssumption DEF BackupInit
  <2>2. found \in BOOLEAN /\ full = {} /\ daily = {} /\ repo = {} /\ job = Down
    BY DEF BackupInit
  <2> QED BY <2>1, <2>2 DEF BackupTypeOK
<1>2. MarkersEarned
  BY DEF BackupInit, MarkersEarned
<1>3. JobEarned
  BY DEF BackupInit, JobEarned, Down, Marking
<1> QED BY <1>1, <1>2, <1>3 DEF BackupInv

\* The clock, a stop and a check that begins leave the markers alone, and no
\* backup is under way after them that was not before.
LEMMA TickKeeps ==
    ASSUME BackupInv, Tick PROVE BackupInv'
<1>1. BackupTypeOK'
  BY CalendarAssumption DEF BackupInv, BackupTypeOK, Tick
<1>2. MarkersEarned' /\ JobEarned'
  BY DEF BackupInv, MarkersEarned, JobEarned, Tick
<1> QED BY <1>1, <1>2 DEF BackupInv

LEMMA IdleKeeps ==
    ASSUME BackupInv,
           UNCHANGED <<time, full, found, daily, repo>>,
           stops' \in 0 .. MaxStops,
           \/ job' = Down
           \/ job' = Sleeping
           \/ job' = [at |-> "check", since |-> time]
    PROVE  BackupInv'
<1>1. BackupTypeOK'
  BY Phases DEF BackupInv, BackupTypeOK
<1>2. MarkersEarned'
  BY DEF BackupInv, MarkersEarned
<1>3. JobEarned'
  BY DEF JobEarned, Down, Sleeping, Marking
<1> QED BY <1>1, <1>2, <1>3 DEF BackupInv

\* What a check plans is earned: a differential backup by the marker of its
\* week, a full one by the name of its week.
LEMMA EndCheckKeeps ==
    ASSUME BackupInv, EndCheck PROVE BackupInv'
<1> USE DEF BackupInv
<1>1. /\ time \in Nat /\ job.since \in Nat /\ job.at = "check"
  BY Phases DEF EndCheck
<1>2. PICK read \in Reads(job.since, time) :
         LET today == Day(job.since)
             week == Day(read[3]) - Weekday(read[2])
             type == Plan(today, read[1], read[2], week) IN
         job' = IF type = "none" THEN Sleeping
                ELSE [at |-> "backup", type |-> type, today |-> today,
                      week |-> week, during |-> Week(read[3])]
  BY DEF EndCheck
<1> DEFINE today == Day(job.since)
           week == Day(read[3]) - Weekday(read[2])
           type == Plan(today, read[1], read[2], week)
<1>3. read[1] \in Nat /\ read[2] \in Nat /\ read[3] \in Nat
  BY <1>1 DEF Reads
<1>4. today \in Nat /\ week \in Int /\ Week(read[3]) \in Int
  BY <1>1, <1>3, Calendar, CalendarAssumption
<1>5. CASE type = "none"
  <2>1. job' = Sleeping
    BY <1>2, <1>5
  <2> QED BY <2>1, IdleKeeps DEF EndCheck, BackupTypeOK
<1>6. CASE type # "none"
  <2>1. /\ job'.at = "backup" /\ job'.type = type
        /\ job'.today = today /\ job'.week = week /\ job'.during = Week(read[3])
        /\ job' = [at |-> "backup", type |-> type, today |-> today,
                   week |-> week, during |-> Week(read[3])]
    BY <1>2, <1>6
  <2>2. type \in {"full", "diff"} /\ (type = "diff" => week \in full)
    BY <1>6 DEF Plan
  <2>3. (week + FirstWeekday) % WeekDays = 0 => Week(read[3]) = week
    BY <1>3, OwnWeek
  <2> HIDE DEF today, week, type
  <2>4. BackupTypeOK'
    BY <2>1, <2>2, <1>4 DEF BackupTypeOK, EndCheck
  <2>5. MarkersEarned'
    BY DEF MarkersEarned, EndCheck
  <2>6. JobEarned'
    BY <2>1, <2>2, <2>3 DEF JobEarned, Marking, EndCheck
  <2> QED BY <2>4, <2>5, <2>6
<1> QED BY <1>5, <1>6


\* What a plan claims survives its steps from phase to phase.
LEMMA PhaseKeeps ==
    ASSUME BackupInv, NEW at \in Marking,
           job.at \in {"backup"} \cup Marking,
           job' = [job EXCEPT !.at = at],
           UNCHANGED <<time, stops>>, found' \in BOOLEAN,
           full' = full, repo \subseteq repo', repo' \subseteq repo \cup {Made(job)},
           Made(job) \in repo',
           daily \subseteq daily', daily' \subseteq daily \cup {job.today},
           at \in {"full", "rename"} => job.type = "full"
    PROVE  BackupInv'
<1> USE DEF BackupInv
<1>1. job \in Planned
  BY Phases
<1>2. /\ job' \in Planned /\ job'.at = at
      /\ job'.type = job.type /\ job'.today = job.today
      /\ job'.week = job.week /\ job'.during = job.during
      /\ Made(job) \in BackupOf
  BY <1>1, NextPhase
<1>3. BackupTypeOK'
  <2>1. job.today \in Nat
    BY <1>1 DEF Planned
  <2> QED BY <1>2, <2>1 DEF BackupTypeOK, Planned
<1>4. MarkersEarned'
  <2>1. ASSUME NEW day \in daily' PROVE \E b \in repo' : b.today = day
    <3>1. CASE day \in daily
      BY <3>1 DEF MarkersEarned
    <3>2. CASE day = job.today
      BY <3>2, Made(job).today = job.today DEF Made
    <3> QED BY <3>1, <3>2
  <2>2. ASSUME NEW week \in full'
        PROVE  \E b \in repo' :
                  /\ b.type = "full" /\ b.week = week
                  /\ (week + FirstWeekday) % WeekDays = 0 => b.during = week
    BY DEF MarkersEarned
  <2> QED BY <2>1, <2>2 DEF MarkersEarned
<1>5. JobEarned'
  <2>1. Made(job)' = Made(job)
    BY <1>2 DEF Made
  <2>2. (job'.at \in Marking =>
          [type |-> job'.type, today |-> job'.today,
           week |-> job'.week, during |-> job'.during] \in repo')
    BY <2>1 DEF Made
  <2>3. job.type = "full" =>
          ((job.week + FirstWeekday) % WeekDays = 0 => job.during = job.week)
    BY DEF JobEarned
  <2> QED BY <1>2, <2>2, <2>3 DEF JobEarned, Marking
<1> QED BY <1>3, <1>4, <1>5

LEMMA BackupSucceedsKeeps ==
    ASSUME BackupInv, BackupSucceeds PROVE BackupInv'
<1>1. "daily" \in Marking
  BY DEF Marking
<1>2. found' \in BOOLEAN
  BY DEF BackupSucceeds, BackupInv, BackupTypeOK
<1> QED BY <1>1, <1>2, PhaseKeeps DEF BackupSucceeds, Made

\* A step that leaves a marking phase, with or without its marker.
LEMMA LeavingDaily ==
    ASSUME BackupInv, job.at = "daily", job' = AfterDaily,
           UNCHANGED <<time, full, found, repo, stops>>,
           daily \subseteq daily', daily' \subseteq daily \cup {job.today}
    PROVE  BackupInv'
<1> USE DEF BackupInv
<1>1. job.at \in Marking /\ job \in Planned
  BY Phases DEF Marking
<1>2. Made(job) \in repo
  BY <1>1 DEF JobEarned, Made
<1>3. found' \in BOOLEAN
  BY DEF BackupTypeOK
<1>4. CASE job.type = "full"
  <2>1. job' = [job EXCEPT !.at = "full"] /\ "full" \in Marking
    BY <1>4 DEF AfterDaily, Marking
  <2> QED BY <1>1, <1>2, <1>3, <1>4, <2>1, PhaseKeeps
<1>5. CASE job.type # "full"
  <2>1. job' = Sleeping
    BY <1>5 DEF AfterDaily
  <2>2. BackupTypeOK'
    BY <1>1, <2>1 DEF BackupTypeOK, Planned
  <2>3. MarkersEarned'
    <3>1. ASSUME NEW day \in daily' PROVE \E b \in repo' : b.today = day
      BY <1>2, Made(job).today = job.today DEF MarkersEarned, Made
    <3>2. ASSUME NEW week \in full'
          PROVE  \E b \in repo' :
                  /\ b.type = "full" /\ b.week = week
                  /\ (week + FirstWeekday) % WeekDays = 0 => b.during = week
      BY DEF MarkersEarned
    <3> QED BY <3>1, <3>2 DEF MarkersEarned
  <2>4. JobEarned'
    BY <2>1 DEF JobEarned, Sleeping, Marking
  <2> QED BY <2>2, <2>3, <2>4
<1> QED BY <1>4, <1>5

LEMMA WriteFullKeeps ==
    ASSUME BackupInv, WriteFull PROVE BackupInv'
<1>1. job.at \in Marking /\ "rename" \in Marking /\ job.type = "full"
  BY DEF WriteFull, Marking, BackupInv, JobEarned
<1>2. Made(job) \in repo
  BY <1>1 DEF BackupInv, JobEarned, Made
<1> QED BY <1>1, <1>2, PhaseKeeps DEF WriteFull

\* The marker of a week: the full backup it stands for is the one just made.
LEMMA MarkFullKeeps ==
    ASSUME BackupInv, MarkFull PROVE BackupInv'
<1> USE DEF BackupInv
<1>1. job.at \in Marking /\ job \in Planned /\ job.type = "full"
  BY Phases DEF MarkFull, Marking, JobEarned
<1>2. Made(job) \in repo
  BY <1>1 DEF JobEarned, Made
<1>3. /\ Made(job).type = "full" /\ Made(job).week = job.week
      /\ (job.week + FirstWeekday) % WeekDays = 0 => Made(job).during = job.week
  BY <1>1 DEF Made, JobEarned
<1>4. BackupTypeOK'
  BY <1>1 DEF BackupTypeOK, Planned, MarkFull
<1>5. MarkersEarned'
  <2>1. ASSUME NEW week \in full'
        PROVE  \E b \in repo :
                  /\ b.type = "full" /\ b.week = week
                  /\ (week + FirstWeekday) % WeekDays = 0 => b.during = week
    <3>1. CASE week \in full
      BY <3>1 DEF MarkersEarned
    <3>2. CASE week = job.week
      BY <1>2, <1>3, <3>2
    <3> QED BY <3>1, <3>2 DEF MarkFull
  <2>2. repo' = repo /\ daily' = daily
    BY DEF MarkFull
  <2> QED BY <2>1, <2>2 DEF MarkersEarned
<1>6. JobEarned'
  BY DEF JobEarned, Sleeping, Marking, MarkFull
<1> QED BY <1>4, <1>5, <1>6

LEMMA NextKeeps ==
    ASSUME BackupInv, [BackupNext]_bvars PROVE BackupInv'
<1> USE DEF BackupInv
<1>1. stops \in 0 .. MaxStops /\ MaxStops \in Nat
  BY CalendarAssumption DEF BackupTypeOK
<1>2. CASE Tick
  BY <1>2, TickKeeps
<1>3. CASE Start \/ BeginCheck \/ BackupFails
  BY <1>1, <1>3, IdleKeeps DEF Start, BeginCheck, BackupFails
<1>4. CASE EndCheck
  BY <1>4, EndCheckKeeps
<1>5. CASE BackupSucceeds
  BY <1>5, BackupSucceedsKeeps
<1>6. CASE MarkDaily
  BY <1>6, LeavingDaily DEF MarkDaily
<1>7. CASE WriteFull
  BY <1>7, WriteFullKeeps
<1>8. CASE MarkFull
  BY <1>8, MarkFullKeeps
<1>9. CASE MarkFails
  <2>1. CASE job.at = "daily" /\ job' = AfterDaily
    BY <1>9, <2>1, LeavingDaily DEF MarkFails
  <2>2. CASE job' = Sleeping
    BY <1>1, <1>9, <2>2, IdleKeeps DEF MarkFails
  <2> QED BY <1>9, <2>1, <2>2 DEF MarkFails
<1>10. CASE Stop
  <2>1. stops' \in 0 .. MaxStops
    BY <1>1, <1>10 DEF Stop
  <2> QED BY <1>10, <2>1, IdleKeeps DEF Stop
<1>11. CASE UNCHANGED bvars
  <2>1. BackupTypeOK'
    BY <1>11 DEF bvars, BackupTypeOK
  <2>2. MarkersEarned' /\ JobEarned'
    BY <1>11 DEF bvars, MarkersEarned, JobEarned
  <2> QED BY <2>1, <2>2
<1> QED BY <1>2, <1>3, <1>4, <1>5, <1>6, <1>7, <1>8, <1>9, <1>10, <1>11 DEF BackupNext

\* A marker never stands for a backup that was not completed, nor the marker of
\* a week for a full backup of another one, whatever stops the container and
\* wherever midnight falls (pgbackrest-backup.sh:69,82-101).
THEOREM MarkersKept == BackupSpec => []BackupInv
BY Initially, NextKeeps, PTL DEF BackupSpec

\* No differential backup without the full one of its week
\* (pgbackrest-backup.sh:97).
THEOREM ChainKept == BackupSpec => ChainRestorable
<1> DEFINE Based == \A b \in repo' \ repo : b.type = "diff" =>
                       \E f \in repo : f.type = "full" /\ f.week = b.week
<1>1. ASSUME BackupInv, [BackupNext]_bvars PROVE [Based]_bvars
  <2>1. CASE BackupSucceeds
    <3>1. \A b \in repo' \ repo : b.type = job.type /\ b.week = job.week
      BY <2>1 DEF BackupSucceeds
    <3>2. job.type = "diff" => job.week \in full
      BY <1>1, <2>1 DEF BackupSucceeds, BackupInv, JobEarned
    <3>3. \A week \in full : \E f \in repo : f.type = "full" /\ f.week = week
      BY <1>1 DEF BackupInv, MarkersEarned
    <3> QED BY <3>1, <3>2, <3>3
  <2>2. CASE repo' = repo
    BY <2>2
  <2> QED BY <1>1, <2>1, <2>2 DEF BackupNext, bvars, Tick, Start, BeginCheck,
          EndCheck, BackupFails, MarkDaily, WriteFull, MarkFull, MarkFails, Stop
<1>2. BackupSpec => []BackupInv
  BY MarkersKept
<1> QED BY <1>1, <1>2, PTL DEF BackupSpec, ChainRestorable


-----------------------------------------------------------------------------
(* The rotation: sequences without repetition                              *)

LEMMA Appended ==
    ASSUME NEW s \in Seq(Attempts), IsInjective(s), NEW a \in Attempts, a \notin Range(s)
    PROVE  /\ Append(s, a) \in Seq(Attempts) /\ IsInjective(Append(s, a))
           /\ Len(Append(s, a)) = Len(s) + 1 /\ Len(s) \in Nat
           /\ \A i \in 1 .. Len(s) : Append(s, a)[i] = s[i]
           /\ Range(s) \subseteq Range(Append(s, a)) /\ a \in Range(Append(s, a))
<1> DEFINE t == Append(s, a)
<1>1. /\ t \in Seq(Attempts) /\ Len(t) = Len(s) + 1 /\ Len(s) \in Nat
      /\ \A i \in 1 .. Len(s) : t[i] = s[i]
      /\ t[Len(s) + 1] = a
      /\ DOMAIN t = 1 .. Len(s) + 1 /\ DOMAIN s = 1 .. Len(s)
  OBVIOUS
<1> HIDE DEF t
<1>2. Range(s) \subseteq Range(t) /\ a \in Range(t)
  BY <1>1 DEF Range
<1>3. IsInjective(t)
  <2>1. \A i \in 1 .. Len(s) : s[i] # a
    BY <1>1 DEF Range
  <2>2. \A i, j \in 1 .. Len(s) : s[i] = s[j] => i = j
    BY <1>1 DEF IsInjective
  <2>3. SUFFICES ASSUME NEW i \in 1 .. Len(s) + 1, NEW j \in 1 .. Len(s) + 1, t[i] = t[j]
                 PROVE  i = j
    BY <1>1 DEF IsInjective
  <2> QED BY <1>1, <2>1, <2>2, <2>3
<1> QED BY <1>1, <1>2, <1>3 DEF t

LEMMA Dequeued ==
    ASSUME NEW s \in Seq(Attempts), IsInjective(s), s # <<>>
    PROVE  /\ Head(s) = s[1] /\ Head(s) \in Attempts
           /\ Len(s) \in Nat \ {0} /\ DOMAIN s = 1 .. Len(s)
           /\ Tail(s) \in Seq(Attempts) /\ IsInjective(Tail(s))
           /\ Len(Tail(s)) = Len(s) - 1
           /\ \A i \in 1 .. Len(s) - 1 : Tail(s)[i] = s[i + 1]
           /\ Range(Tail(s)) \subseteq Range(s) \ {Head(s)}
<1> DEFINE t == Tail(s)
<1>1. /\ t \in Seq(Attempts) /\ Len(t) = Len(s) - 1 /\ Len(s) \in Nat \ {0}
      /\ \A i \in 1 .. Len(s) - 1 : t[i] = s[i + 1]
      /\ Head(s) = s[1] /\ Head(s) \in Attempts
      /\ DOMAIN t = 1 .. Len(s) - 1 /\ DOMAIN s = 1 .. Len(s)
  OBVIOUS
<1> HIDE DEF t
<1>2. \A i, j \in 1 .. Len(s) : s[i] = s[j] => i = j
  BY <1>1 DEF IsInjective
<1>3. IsInjective(t)
  BY <1>1, <1>2 DEF IsInjective
<1>4. Range(t) \subseteq Range(s) \ {Head(s)}
  BY <1>1, <1>2 DEF Range
<1> QED BY <1>1, <1>3, <1>4 DEF t


-----------------------------------------------------------------------------
(* The rotation: what a step keeps                                         *)

\* Expired stays expired: the list of orders only grows, at its end.
LEMMA DueStays ==
    ASSUME RotationInv, Next, NEW a, IsDue(a)
    PROVE  IsDue(a)'
<1> USE DEF RotationInv, TypeOK
<1>1. PICK i \in 1 .. due : placed[i] = a
  BY DEF IsDue
<1>2. due \in 0 .. Len(placed) /\ Len(placed) \in Nat
  OBVIOUS
<1>3. CASE \E b \in Attempts : Place(b)
  <2>1. PICK b \in Attempts : Place(b)
    BY <1>3
  <2>2. placed' = Append(placed, b) /\ due' = due /\ b \notin Range(placed)
    BY <2>1 DEF Place
  <2>3. placed'[i] = placed[i]
    BY <1>1, <1>2, <2>2, Appended
  <2> QED BY <1>1, <2>2, <2>3 DEF IsDue
<1>4. CASE Expire
  BY <1>1, <1>2, <1>4 DEF Expire, IsDue
<1>5. CASE UNCHANGED <<placed, due>>
  BY <1>5 DEF IsDue
<1> QED BY <1>3, <1>4, <1>5 DEF Next, Scan, Spawn, Restart, Prepare,
        PaidByNotification, Settle, Defer, DeferFails

\* The lists of orders and rows.
LEMMA ListsKept ==
    ASSUME RotationInv, Next
    PROVE  /\ placed' \in Seq(Attempts) /\ IsInjective(placed')
           /\ waiting' \subseteq Range(placed') /\ prepared' \subseteq Range(placed')
           /\ due' \in 0 .. Len(placed') /\ restarts' \in 0 .. MaxRestarts
<1> USE DEF RotationInv, TypeOK
<1>1. CASE \E a \in Attempts : Place(a)
  <2>1. PICK a \in Attempts : Place(a)
    BY <1>1
  <2>2. /\ placed' = Append(placed, a) /\ a \notin Range(placed)
        /\ waiting' = waiting \cup {a}
        /\ UNCHANGED <<due, prepared, restarts>>
    BY <2>1 DEF Place
  <2> QED BY <2>2, Appended
<1>2. CASE Expire
  BY <1>2 DEF Expire
<1>3. CASE Restart
  BY <1>3, BatchAssumption DEF Restart
<1>4. CASE \E a \in Attempts : Prepare(a)
  BY <1>4 DEF Prepare
<1>5. CASE UNCHANGED <<placed, due, prepared, restarts>> /\ waiting' \subseteq waiting
  BY <1>5
<1> QED BY <1>1, <1>2, <1>3, <1>4, <1>5 DEF Next, Scan, Spawn,
        PaidByNotification, Settle, Defer, DeferFails

\* The rows of a scan: as many as the limit, each once, in the order of the table.
LEMMA RowsScanned ==
    ASSUME RotationInv, Scan
    PROVE  /\ batch' \in Seq(Attempts) /\ IsInjective(batch') /\ Len(batch') <= BatchSize
           /\ Range(batch') \subseteq Due /\ FirstRows(batch')
<1> USE DEF RotationInv, TypeOK
<1>0. PICK n \in 1 .. BatchSize : \E rows \in [1 .. n -> Due] :
         FirstRows(rows) /\ batch' = rows
  BY DEF Scan
<1>1. PICK rows \in [1 .. n -> Due] : FirstRows(rows) /\ batch' = rows
  BY <1>0
<1>2. Due \subseteq waiting /\ Due \subseteq Attempts
  BY DEF Due, Range
<1>3. n \in Nat /\ n <= BatchSize
  BY BatchAssumption
<1>4. rows \in Seq(Attempts) /\ Len(rows) = n /\ DOMAIN rows = 1 .. n
  BY <1>2, <1>3
<1>5. Range(rows) \subseteq Due
  BY <1>4 DEF Range
<1>6. IsInjective(rows)
  <2>1. SUFFICES ASSUME NEW i \in 1 .. n, NEW j \in 1 .. n, rows[i] = rows[j], i # j
                 PROVE  FALSE
    BY <1>4 DEF IsInjective
  <2>2. rows[i] \in waiting
    BY <1>2
  <2>3. Ahead(rows[i], rows[i])
    BY <1>1, <1>4, <1>3, <2>1 DEF FirstRows
  <2> QED BY <2>2, <2>3 DEF InOneOrder
<1> QED BY <1>1, <1>3, <1>4, <1>5, <1>6

\* Rows and tasks stay within their limits and apart from each other.
LEMMA TasksKept ==
    ASSUME RotationInv, Next
    PROVE  /\ batch' \in Seq(Attempts) /\ IsInjective(batch') /\ Len(batch') <= BatchSize
           /\ tasks' \subseteq Attempts
           /\ IsFiniteSet(tasks') /\ Cardinality(tasks') <= MaxConcurrency
           /\ OneTask'
<1> USE DEF RotationInv, TypeOK
<1>1. Cardinality(tasks) \in Nat /\ MaxConcurrency \in Nat /\ BatchSize \in Nat
  BY FS_CardinalityType, BatchAssumption
<1>2. CASE Scan
  <2>1. tasks = {} /\ tasks' = {}
    BY <1>2 DEF Scan
  <2> QED BY <1>2, <2>1, RowsScanned DEF OneTask
<1>3. CASE Spawn
  <2>1. /\ batch # <<>> /\ Cardinality(tasks) < MaxConcurrency
        /\ tasks' = tasks \cup {Head(batch)} /\ batch' = Tail(batch)
    BY <1>3 DEF Spawn
  <2>2. /\ batch' \in Seq(Attempts) /\ IsInjective(batch')
        /\ Len(batch') = Len(batch) - 1 /\ Len(batch) \in Nat
        /\ Head(batch) \in Attempts
        /\ Range(batch') \subseteq Range(batch) \ {Head(batch)}
    BY <2>1, Dequeued
  <2>3. IsFiniteSet(tasks') /\ Cardinality(tasks') <= MaxConcurrency
    <3>1. IsFiniteSet(tasks)
      OBVIOUS
    <3> HIDE DEF RotationInv, TypeOK
    <3>2. /\ IsFiniteSet(tasks \cup {Head(batch)})
          /\ Cardinality(tasks \cup {Head(batch)}) \in {Cardinality(tasks), Cardinality(tasks) + 1}
      BY <3>1, FS_AddElement
    <3> QED BY <1>1, <2>1, <3>2
  <2>4. OneTask'
    BY <2>1, <2>2 DEF OneTask
  <2> QED BY <1>1, <2>1, <2>2, <2>3, <2>4
<1>4. CASE \E a \in Attempts : Settle(a) \/ Defer(a) \/ DeferFails(a)
  <2>1. PICK a \in Attempts : tasks' = tasks \ {a} /\ batch' = batch
    BY <1>4 DEF Settle, Defer, DeferFails
  <2>2. IsFiniteSet(tasks') /\ Cardinality(tasks') <= Cardinality(tasks)
    <3>1. IsFiniteSet(tasks)
      OBVIOUS
    <3> HIDE DEF RotationInv, TypeOK
    <3>2. /\ IsFiniteSet(tasks \ {a})
          /\ Cardinality(tasks \ {a}) \in {Cardinality(tasks), Cardinality(tasks) - 1}
      BY <3>1, FS_RemoveElement
    <3> QED BY <1>1, <2>1, <3>2
  <2>3. Cardinality(tasks') \in Nat
    BY <2>2, FS_CardinalityType
  <2> QED BY <1>1, <2>1, <2>2, <2>3 DEF OneTask
<1>5. CASE Restart
  <2>1. batch' = <<>> /\ tasks' = {}
    BY <1>5 DEF Restart
  <2>2. IsInjective(<<>>) /\ Range(<<>>) = {} /\ Len(<<>>) = 0
    BY DEF IsInjective, Range
  <2> QED BY <1>1, <2>1, <2>2, FS_EmptySet DEF OneTask
<1>6. CASE UNCHANGED <<batch, tasks>>
  BY <1>6 DEF OneTask
<1> QED BY <1>2, <1>3, <1>4, <1>5, <1>6 DEF Next, Expire, Place, Prepare, PaidByNotification

\* Each write of updated_at leaves one order.
LEMMA OrderKept ==
    ASSUME RotationInv, Next
    PROVE  older' \subseteq waiting' \X waiting' /\ InOneOrder'
<1> USE DEF RotationInv, TypeOK
<1>1. ASSUME NEW a \in Attempts, Place(a)
      PROVE  older' \subseteq waiting' \X waiting' /\ InOneOrder'
  <2>1. /\ waiting' = waiting \cup {a} /\ a \notin waiting
        /\ older' = older \cup (waiting \X {a})
    BY <1>1 DEF Place
  <2> QED BY <2>1 DEF InOneOrder, Ahead
<1>2. ASSUME NEW a \in waiting, waiting' = waiting, older' = Touched(a)
      PROVE  older' \subseteq waiting' \X waiting' /\ InOneOrder'
  BY <1>2 DEF InOneOrder, Ahead, Touched, Without
<1>3. ASSUME NEW a, waiting' = waiting \ {a}, older' = Without(a)
      PROVE  older' \subseteq waiting' \X waiting' /\ InOneOrder'
  BY <1>3 DEF InOneOrder, Ahead, Without
<1>4. ASSUME UNCHANGED <<waiting, older>>
      PROVE  older' \subseteq waiting' \X waiting' /\ InOneOrder'
  BY <1>4 DEF InOneOrder, Ahead
<1>5. ASSUME NEW a \in Attempts, Prepare(a) \/ Defer(a)
      PROVE  older' \subseteq waiting' \X waiting' /\ InOneOrder'
  <2>1. waiting' = waiting /\ older' = Touched(a)
    BY <1>5 DEF Prepare, Defer
  <2>2. CASE a \in waiting
    BY <1>2, <2>1, <2>2
  <2>3. CASE a \notin waiting
    BY <1>4, <2>1, <2>3 DEF Touched
  <2> QED BY <2>2, <2>3
<1> QED BY <1>1, <1>3, <1>4, <1>5 DEF Next, Scan, Spawn, Restart, Expire,
        PaidByNotification, Settle, DeferFails


\* Of two expired attempts that wait, a scan does not take the younger one
\* without the older one before it.
LEMMA OlderFirst ==
    ASSUME RotationInv, Scan, NEW a \in Due, NEW b \in Due, Ahead(a, b),
           NEW j \in 1 .. Len(batch'), batch'[j] = b
    PROVE  \E i \in 1 .. j - 1 : batch'[i] = a
<1>1. /\ batch' \in Seq(Attempts) /\ Len(batch') \in Nat
      /\ DOMAIN batch' = 1 .. Len(batch') /\ FirstRows(batch')
  BY RowsScanned
<1>2. a \in waiting /\ b \in waiting /\ a # b
  BY DEF Due, RotationInv, InOneOrder
<1>3. ~Ahead(b, a)
  BY <1>2 DEF RotationInv, InOneOrder
<1>4. a \in Range(batch')
  BY <1>1, <1>3 DEF FirstRows
<1>5. PICK i \in 1 .. Len(batch') : batch'[i] = a
  BY <1>1, <1>4 DEF Range
<1>6. ~(j < i) /\ i # j
  BY <1>1, <1>2, <1>3, <1>5 DEF FirstRows
<1> QED BY <1>1, <1>5, <1>6

\* What was deferred stays behind, unless Watched gets its turn.
LEMMA OvertakenKept ==
    ASSUME RotationInv, Next
    PROVE  overtaken' \in [Attempts -> 0 .. 2] /\ OvertakenBehind'
<1> USE DEF RotationInv, TypeOK
<1>1. CASE overtaken' = [b \in Attempts |-> 0]
  BY <1>1 DEF OvertakenBehind
<1>2. ASSUME NEW b \in Attempts, overtaken[b] >= 1
      PROVE  /\ overtaken[b] = 1 /\ b # Watched
             /\ Watched \in waiting /\ Watched \notin tasks /\ IsDue(Watched)
             /\ IsDue(Watched)'
             /\ Behind(b)
  BY <1>2, DueStays DEF OvertakenBehind, WatchedWaits
<1>3. ASSUME overtaken' = overtaken,
             Watched \in waiting => Watched \in waiting' \/ Watched \in tasks,
             Watched \in tasks' => Watched \in tasks,
             \A b \in Attempts : overtaken[b] >= 1 => Behind(b)'
      PROVE  overtaken' \in [Attempts -> 0 .. 2] /\ OvertakenBehind'
  BY <1>2, <1>3 DEF OvertakenBehind, WatchedWaits
<1>4. CASE Expire
  BY <1>3, <1>4, <1>2 DEF Expire, Behind, Ahead
<1>5. CASE Restart
  <2>1. \A b \in Attempts : overtaken[b] >= 1 => Behind(b)'
    BY <1>2, <1>5 DEF Restart, Behind, Ahead
  <2> QED BY <1>3, <1>5, <2>1 DEF Restart
<1>6. CASE Scan
  <2>1. /\ UNCHANGED <<placed, waiting, older, due, tasks, overtaken>>
        /\ tasks = {}
    BY <1>6 DEF Scan
  <2>2. ASSUME NEW b \in Attempts, overtaken[b] >= 1 PROVE Behind(b)'
    <3>1. b \in waiting => Ahead(Watched, b)
      BY <1>2, <2>2 DEF Behind
    <3>2. ASSUME NEW j \in 1 .. Len(batch'), batch'[j] = b
          PROVE  \E i \in 1 .. j - 1 : batch'[i] = Watched
      <4>1. b \in Due
        BY <1>6, <3>2, RowsScanned DEF Range
      <4>2. b \in waiting /\ Watched \in Due
        BY <1>2, <2>2, <4>1 DEF Due
      <4> QED BY <1>6, <3>1, <3>2, <4>1, <4>2, OlderFirst
    <3> QED BY <2>1, <3>1, <3>2 DEF Behind, Ahead
  <2> QED BY <1>3, <2>1, <2>2
<1>7. CASE Spawn
  <2>1. /\ batch # <<>> /\ tasks' = tasks \cup {Head(batch)} /\ batch' = Tail(batch)
        /\ overtaken' = NewTurn(Head(batch))
        /\ UNCHANGED <<placed, waiting, older, due>>
    BY <1>7 DEF Spawn
  <2>2. CASE Head(batch) = Watched
    BY <1>1, <2>1, <2>2 DEF NewTurn
  <2>3. CASE Head(batch) # Watched
    <3>1. /\ Head(batch) = batch[1] /\ Len(batch) \in Nat \ {0}
          /\ Len(batch') = Len(batch) - 1
          /\ \A i \in 1 .. Len(batch) - 1 : batch'[i] = batch[i + 1]
      BY <2>1, Dequeued
    <3>2. ASSUME NEW b \in Attempts, overtaken[b] >= 1 PROVE Behind(b)'
      <4>1. Behind(b)
        BY <1>2, <3>2
      <4>2. b # Head(batch)
        BY <3>1, <4>1 DEF Behind
      <4>3. ASSUME NEW j \in 1 .. Len(batch'), batch'[j] = b
            PROVE  \E i \in 1 .. j - 1 : batch'[i] = Watched
        <5>1. j + 1 \in 1 .. Len(batch) /\ batch[j + 1] = b
          BY <3>1, <4>3
        <5>2. PICK i \in 1 .. j : batch[i] = Watched
          BY <4>1, <5>1 DEF Behind
        <5>3. i # 1
          BY <2>3, <3>1, <5>2
        <5>4. i - 1 \in 1 .. j - 1 /\ batch'[i - 1] = Watched
          BY <3>1, <5>1, <5>2, <5>3
        <5> QED BY <5>4
      <4> QED BY <2>1, <4>1, <4>2, <4>3 DEF Behind, Ahead
    <3> QED BY <1>3, <2>1, <2>3, <3>2 DEF NewTurn
  <2> QED BY <2>2, <2>3
<1>8. CASE \E a \in Attempts : Place(a)
  <2>1. PICK a \in Attempts : Place(a)
    BY <1>8
  <2>2. ASSUME NEW b \in Attempts, overtaken[b] >= 1 PROVE Behind(b)'
    BY <1>2, <2>1, <2>2 DEF Place, Behind, Ahead
  <2> QED BY <1>3, <2>1, <2>2 DEF Place
<1>9. CASE \E a \in Attempts : Prepare(a) \/ PaidByNotification(a)
  <2>1. PICK a \in Attempts : Prepare(a) \/ PaidByNotification(a)
    BY <1>9
  <2>2. CASE a = Watched
    BY <1>1, <2>1, <2>2 DEF Prepare, PaidByNotification, NewTurn
  <2>3. CASE a # Watched
    <3>1. /\ UNCHANGED <<batch, tasks, overtaken>>
          /\ \/ waiting' = waiting /\ older' = Touched(a)
             \/ waiting' = waiting \ {a} /\ older' = Without(a)
      BY <2>1, <2>3 DEF Prepare, PaidByNotification, NewTurn
    <3>2. ASSUME NEW b \in Attempts, overtaken[b] >= 1 PROVE Behind(b)'
      BY <1>2, <2>3, <3>1, <3>2 DEF Behind, Ahead, Touched, Without
    <3> QED BY <1>3, <2>3, <3>1, <3>2
  <2> QED BY <2>2, <2>3
<1>10. CASE \E a \in Attempts : Settle(a) \/ DeferFails(a)
  <2>1. PICK a \in Attempts : Settle(a) \/ DeferFails(a)
    BY <1>10
  <2>2. /\ UNCHANGED <<batch, overtaken>> /\ tasks' = tasks \ {a} /\ a \in tasks
        /\ \/ UNCHANGED <<waiting, older>>
           \/ waiting' = waiting \ {a} /\ older' = Without(a)
    BY <2>1 DEF Settle, DeferFails
  <2>3. ASSUME NEW b \in Attempts, overtaken[b] >= 1 PROVE Behind(b)'
    BY <1>2, <2>2, <2>3 DEF Behind, Ahead, Without
  <2> QED BY <1>3, <2>2, <2>3
<1>11. CASE \E a \in Attempts : Defer(a)
  <2>1. PICK a \in Attempts : Defer(a)
    BY <1>11
  <2>2. /\ a \in tasks /\ tasks' = tasks \ {a} /\ older' = Touched(a)
        /\ UNCHANGED <<placed, waiting, due, batch>>
        /\ overtaken' = IF WatchedWaits /\ a \in waiting /\ overtaken[a] < 2
                        THEN [overtaken EXCEPT ![a] = @ + 1]
                        ELSE overtaken
    BY <2>1 DEF Defer
  <2>3. ASSUME NEW b \in Attempts, overtaken[b] >= 1 PROVE Behind(b)'
    BY <1>2, <2>2, <2>3 DEF Behind, Ahead, Touched, Without
  <2>4. CASE overtaken' = overtaken
    BY <1>3, <2>2, <2>3, <2>4
  <2>5. CASE WatchedWaits /\ a \in waiting /\ overtaken' = [overtaken EXCEPT ![a] = @ + 1]
    <3>1. overtaken[a] = 0
      BY <1>2, <2>2 DEF Behind
    <3>2. /\ overtaken' \in [Attempts -> 0 .. 2] /\ overtaken'[a] = 1
          /\ \A b \in Attempts \ {a} : overtaken'[b] = overtaken[b]
      BY <2>5, <3>1
    <3>3. a # Watched /\ WatchedWaits'
      BY <2>2, <2>5, DueStays DEF WatchedWaits
    <3>4. Behind(a)'
      <4>1. a \notin tasks'
        BY <2>2
      <4>2. Ahead(Watched, a)'
        BY <2>2, <2>5, <3>3 DEF Touched, Ahead, WatchedWaits
      <4>3. \A j \in 1 .. Len(batch') : batch'[j] # a
        <5>1. DOMAIN batch = 1 .. Len(batch)
          OBVIOUS
        <5> QED BY <2>2, <5>1 DEF OneTask, Range
      <4> QED BY <4>1, <4>2, <4>3 DEF Behind
    <3> QED BY <1>2, <2>3, <3>2, <3>3, <3>4 DEF OvertakenBehind
  <2> QED BY <2>2, <2>4, <2>5
<1> QED BY <1>4, <1>5, <1>6, <1>7, <1>8, <1>9, <1>10, <1>11 DEF Next

LEMMA RotationStarts == Init => RotationInv
<1> SUFFICES ASSUME Init PROVE RotationInv
  OBVIOUS
<1>1. /\ placed = <<>> /\ batch = <<>> /\ waiting = {} /\ older = {} /\ due = 0
      /\ prepared = {} /\ tasks = {} /\ restarts = 0
      /\ overtaken = [b \in Attempts |-> 0]
  BY DEF Init
<1>2. IsInjective(<<>>) /\ Range(<<>>) = {} /\ Len(<<>>) = 0 /\ <<>> \in Seq(Attempts)
  BY DEF IsInjective, Range
<1>3. IsFiniteSet(tasks) /\ Cardinality(tasks) = 0
  BY <1>1, FS_EmptySet
<1>4. TypeOK
  BY <1>1, <1>2, <1>3, BatchAssumption DEF TypeOK
<1>5. InOneOrder /\ OneTask
  BY <1>1 DEF InOneOrder, OneTask
<1>6. OvertakenBehind
  BY <1>1 DEF OvertakenBehind
<1>7. TurnsAreFair
  BY <1>1 DEF TurnsAreFair
<1> QED BY <1>4, <1>5, <1>6, <1>7 DEF RotationInv

LEMMA RotationStep == RotationInv /\ [Next]_vars => RotationInv'
<1> SUFFICES ASSUME RotationInv, [Next]_vars PROVE RotationInv'
  OBVIOUS
<1>1. CASE Next
  <2>1. TypeOK'
    BY <1>1, ListsKept, TasksKept, OrderKept, OvertakenKept DEF TypeOK
  <2>2. (overtaken \in [Attempts -> 0 .. 2])' /\ OvertakenBehind'
    BY <1>1, OvertakenKept
  <2>3. TurnsAreFair'
    <3>1. ASSUME NEW b \in Attempts PROVE overtaken'[b] <= 1
      <4>1. overtaken'[b] \in 0 .. 2
        BY <2>2
      <4>2. overtaken'[b] >= 1 => overtaken'[b] = 1
        BY <2>2 DEF OvertakenBehind
      <4> QED BY <4>1, <4>2
    <3> QED BY <3>1 DEF TurnsAreFair
  <2> QED BY <1>1, <2>1, <2>2, <2>3, TasksKept, OrderKept DEF RotationInv
<1>2. CASE UNCHANGED vars
  BY <1>2 DEF vars, RotationInv, TypeOK, InOneOrder, OneTask, OvertakenBehind,
     TurnsAreFair, Ahead, Behind, WatchedWaits, IsDue
<1> QED BY <1>1, <1>2

\* While an expired order waits, no other one is deferred twice before it gets
\* its turn, for any number of orders that cannot be ended, any batch and any
\* number of tasks, and although deferrals fail and the server restarts
\* (payments/expiration.rs:115-159,229-255).
THEOREM FairRotation == Spec => []RotationInv
BY RotationStarts, RotationStep, PTL DEF Spec

=============================================================================

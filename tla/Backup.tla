------------------------------- MODULE Backup -------------------------------
(***************************************************************************)
(* The backup scheduler (pgbackrest-backup.sh): a loop that looks at the   *)
(* clock and at marker files and runs a full backup for each week and a    *)
(* differential one for each other day, in a container that may stop at    *)
(* any moment.                                                             *)
(*                                                                         *)
(* Time is counted in half days: a day has the hours before the scheduled  *)
(* one and the hours from it on.  A week is named by its first day.        *)
(***************************************************************************)
EXTENDS Integers

CONSTANTS
    WeekDays,      \* days of a week
    FirstWeekday,  \* weekday of day 0
    MaxTime,       \* bound of the clock
    MaxStops       \* bound on how often the container stops

ASSUME CalendarAssumption ==
    /\ WeekDays \in Nat \ {0} /\ FirstWeekday \in 0 .. WeekDays - 1
    /\ MaxTime \in Nat /\ MaxStops \in Nat

VARIABLES
    time,   \* the clock
    full,   \* weeks with a marker file full-<first day>
    found,  \* some file is named full-*, if only a temporary one
    daily,  \* days with a marker file daily-<day>
    repo,   \* backups that pgBackRest completed
    job,    \* where the scheduler is
    stops   \* how often the container stopped so far

bvars == <<time, full, found, daily, repo, job, stops>>

Day(t) == t \div 2
HourReached(t) == t % 2 = 1
Weekday(t) == (Day(t) + FirstWeekday) % WeekDays
Week(t) == Day(t) - Weekday(t)

Down == [at |-> "down"]
Sleeping == [at |-> "sleep"]

BackupInit ==
    /\ time = 0
    /\ full = {} /\ daily = {} /\ repo = {}
    /\ found = FALSE
    /\ job = Down
    /\ stops = 0

-----------------------------------------------------------------------------

Tick ==
    /\ time < MaxTime
    /\ time' = time + 1
    /\ UNCHANGED <<full, found, daily, repo, job, stops>>

\* PostgreSQL answers and the stanza exists; the loop starts at once.
Start ==
    /\ job = Down
    /\ job' = Sleeping
    /\ UNCHANGED <<time, full, found, daily, repo, stops>>

\* "today" is read first; the hour, the weekday and the seconds follow, and
\* midnight or the scheduled hour may pass between any two of them.
BeginCheck ==
    /\ job = Sleeping
    /\ job' = [at |-> "check", since |-> time]
    /\ UNCHANGED <<time, full, found, daily, repo, stops>>

Reads(since, then) ==
    {<<since, since, since>>, <<since, since, then>>,
     <<since, then, then>>, <<then, then, then>>}

\* Mutant: the full backup belongs to the first weekday and is not made up for.
PlanByWeekday(today, hour, weekday, week) ==
    CASE ~HourReached(hour) -> "none"
      [] HourReached(hour) /\ Weekday(weekday) = 0 /\ week \notin full -> "full"
      [] HourReached(hour) /\ Weekday(weekday) # 0 /\ today \notin daily -> "diff"
      [] OTHER -> "none"

\* A repository without any full backup does not wait for the hour; a missing
\* full backup of the week comes before the differential one of the day.  The
\* search for full-* also finds the temporary file of a marker.
Plan(today, hour, weekday, week) ==
    CASE ~found -> "full"
      [] found /\ HourReached(hour) /\ week \notin full -> "full"
      [] found /\ HourReached(hour) /\ week \in full /\ today \notin daily -> "diff"
      [] OTHER -> "none"

EndCheck ==
    /\ job.at = "check"
    /\ \E read \in Reads(job.since, time) :
          LET today == Day(job.since)
              week == Day(read[3]) - Weekday(read[2])
              type == Plan(today, read[1], read[2], week) IN
          job' = IF type = "none" THEN Sleeping
                 ELSE [at |-> "backup", type |-> type, today |-> today,
                       week |-> week, during |-> Week(read[3])]
    /\ UNCHANGED <<time, full, found, daily, repo, stops>>

BackupSucceeds ==
    /\ job.at = "backup"
    /\ repo' = repo \cup {[type |-> job.type, today |-> job.today,
                           week |-> job.week, during |-> job.during]}
    /\ job' = [job EXCEPT !.at = "daily"]
    /\ UNCHANGED <<time, full, found, daily, stops>>

\* Mutant: a failed backup goes on to its markers.
BackupFailsUnnoticed ==
    /\ job.at = "backup"
    /\ job' = [job EXCEPT !.at = "daily"]
    /\ UNCHANGED <<time, full, found, daily, repo, stops>>

BackupFails ==
    /\ job.at = "backup"
    /\ job' = Sleeping
    /\ UNCHANGED <<time, full, found, daily, repo, stops>>

AfterDaily == IF job.type = "full" THEN [job EXCEPT !.at = "full"] ELSE Sleeping

MarkDaily ==
    /\ job.at = "daily"
    /\ daily' = daily \cup {job.today}
    /\ job' = AfterDaily
    /\ UNCHANGED <<time, full, found, repo, stops>>

WriteFull ==
    /\ job.at = "full"
    /\ found' = TRUE
    /\ job' = [job EXCEPT !.at = "rename"]
    /\ UNCHANGED <<time, full, daily, repo, stops>>

MarkFull ==
    /\ job.at = "rename"
    /\ full' = full \cup {job.week}
    /\ job' = Sleeping
    /\ UNCHANGED <<time, found, daily, repo, stops>>

\* The function is called with "|| true", so that a marker which cannot be
\* written does not end it: the next statement follows.
MarkFails ==
    /\ \/ job.at = "daily" /\ job' = AfterDaily
       \/ job.at \in {"full", "rename"} /\ job' = Sleeping
    /\ UNCHANGED <<time, full, found, daily, repo, stops>>

\* The container stops, or a command outside the function fails and the trap
\* ends the script.
Stop ==
    /\ job # Down
    /\ stops < MaxStops
    /\ stops' = stops + 1
    /\ job' = Down
    /\ UNCHANGED <<time, full, found, daily, repo>>

BackupNext ==
    \/ Tick \/ Start \/ BeginCheck \/ EndCheck
    \/ BackupSucceeds \/ BackupFails
    \/ MarkDaily \/ WriteFull \/ MarkFull \/ MarkFails
    \/ Stop

\* The container is restarted, the loop goes on, and neither pgBackRest nor the
\* file system fails for ever.
BackupFairness ==
    /\ WF_bvars(Start) /\ WF_bvars(BeginCheck) /\ WF_bvars(EndCheck)
    /\ WF_bvars(BackupSucceeds \/ BackupFails) /\ SF_bvars(BackupSucceeds)
    /\ WF_bvars(MarkDaily \/ WriteFull \/ MarkFull \/ MarkFails)
    /\ SF_bvars(MarkDaily) /\ SF_bvars(WriteFull) /\ SF_bvars(MarkFull)

BackupSpec == BackupInit /\ [][BackupNext]_bvars /\ BackupFairness

-----------------------------------------------------------------------------
(* Properties                                                              *)

Marking == {"daily", "full", "rename"}

BackupOf == [type : {"full", "diff"}, today : Nat, week : Int, during : Int]

\* The variables keep their types.
BackupTypeOK ==
    /\ time \in 0 .. MaxTime /\ stops \in 0 .. MaxStops /\ found \in BOOLEAN
    /\ full \subseteq Int /\ daily \subseteq Nat /\ repo \subseteq BackupOf
    /\ job \in {Down, Sleeping}
              \cup [at : {"check"}, since : 0 .. time]
              \cup [at : {"backup"} \cup Marking, type : {"full", "diff"},
                    today : Nat, week : Int, during : Int]

\* A marker stands for a completed backup, also after interruptions
\* (pgbackrest-backup.sh:69), and the marker of a week for a full backup planned
\* in this very week, wherever midnight fell between the reads of the clock: a
\* name made of two weeks is no week's name.
MarkersEarned ==
    /\ \A day \in daily : \E b \in repo : b.today = day
    /\ \A week \in full :
          \E b \in repo :
             /\ b.type = "full" /\ b.week = week
             /\ (week + FirstWeekday) % WeekDays = 0 => b.during = week

\* What runs has been planned, what is to be marked has been done.
JobEarned ==
    /\ job.at = "backup" /\ job.type = "diff" => job.week \in full
    /\ job.at \in Marking =>
          [type |-> job.type, today |-> job.today,
           week |-> job.week, during |-> job.during] \in repo
    /\ job.at \in {"full", "rename"} => job.type = "full"
    /\ job.at \in {"backup"} \cup Marking /\ job.type = "full" =>
          ((job.week + FirstWeekday) % WeekDays = 0 => job.during = job.week)

\* The inductive invariant: markers are earned, and those to be written next
\* will be (pgbackrest-backup.sh:69,97).
BackupInv ==
    /\ BackupTypeOK
    /\ MarkersEarned /\ JobEarned

\* A differential backup always has a full one of the same week before it
\* (pgbackrest-backup.sh:97).
ChainRestorable ==
    [][\A b \in repo' \ repo : b.type = "diff" =>
          \E f \in repo : f.type = "full" /\ f.week = b.week]_bvars

\* A day whose hour has come gets its backup, and its week the full one, unless
\* the day ends before: whatever was missed is made up for (README.md:136,
\* pgbackrest-backup.sh:5).
CatchUp ==
    \A day \in 0 .. Day(MaxTime) :
        Day(time) = day /\ HourReached(time)
            ~> (day \in daily /\ Week(2 * day) \in full) \/ Day(time) # day
=============================================================================

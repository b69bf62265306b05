------------------------------- MODULE MCMkfs -------------------------------
(***************************************************************************)
(* Sizes at full scale: every size up to 2 MB, in which the block size     *)
(* doubles twice and both floppies lie, some larger ones, and the sizes    *)
(* around which a sector number first needs 17 bits.  One volume is        *)
(* looked at every day from 1904 until its dates run out.                  *)
(***************************************************************************)
EXTENDS Mkfs, Timestamp

MCSizes == (190 .. 4100) \cup {65535, 65536, 524288, 1048577, 4194303, 4194304}
             \cup (4194290 .. 4194320) \cup {5000000, 6553600, 8388607}

\* Clocks around both ends of what 32 bits hold, and far beyond.
Clocks ==
  [day : {n - EpochDays : n \in {-1000000, -1, 0, 1, 24107, 49709, 49710, 49711, 1000000}},
   sec : {0, 1, 23294, 23295, 23296, DaySeconds - 1}]

\* A clock that cannot be told in 32 bits is told as the nearer end of them, never
\* as a time that has wrapped around; from_unix says so instead.
ASSUME ClockSaturates ==
  \A u, v \in Clocks :
    /\ ToUnix(Now(u)) = u <=> FromUnix(u) # None
    /\ FromUnix(ToUnix(Now(u))) = Now(u)
    /\ ~Before(v, u) => ~Before(Now(v), Now(u))

\* Every second of a day is shown as a time of day, and as one of its own.
ASSUME TimesDiffer ==
  \A s \in 0 .. DaySeconds - 1 :
    LET hms == TimeOfDay([day |-> 0, sec |-> s])
    IN  /\ hms \in (0 .. 23) \X (0 .. 59) \X (0 .. 59)
        /\ (hms[1] * 60 + hms[2]) * 60 + hms[3] = s

DatedInit == Init /\ CalendarInit

DatedNext ==
  \/ Next /\ UNCHANGED calendar
  \/ pc = "done" /\ sectors = 800 /\ whole /\ kind = "raw" /\ Midnight /\ UNCHANGED vars

DatedSpec ==
  DatedInit /\ [][DatedNext]_<<vars, calendar>> /\ WF_vars(Next)
=============================================================================

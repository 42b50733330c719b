------------------------------ MODULE LogFile -------------------------------
(***************************************************************************)
(* The files of a log (log/LogFile.cpp): LogFile appends to a file and     *)
(* opens the next one when the file has grown too large or a new day has   *)
(* begun.  A file's name is the second in which it was opened, and fopen   *)
(* appends to a file that exists.                                          *)
(*                                                                         *)
(* The clock is looked at only by append_unlocked and rollFile, so it      *)
(* advances there; it is not set back.                                     *)
(***************************************************************************)
EXTENDS Integers, Sequences

CONSTANTS
  RollSize,        \* rollSize_
  CheckEveryN,     \* checkEveryN_
  FlushInterval,   \* flushInterval_
  RollPerSeconds,  \* kRollPerSeconds_, a day
  MaxTime          \* bound on the clock

ASSUME LogFileAssumption ==
  /\ RollSize \in Nat /\ CheckEveryN \in Nat \ {0} /\ FlushInterval \in Nat
  /\ RollPerSeconds \in Nat \ {0} /\ MaxTime \in Nat \ {0}

VARIABLES
  time,           \* the clock
  opened,         \* the names of the files, in the order they were opened
  size,           \* writtenBytes_ of the last one
  count,          \* count_
  startOfPeriod,  \* startOfPeriod_
  lastRoll,       \* lastRoll_
  lastFlush,      \* lastFlush_
  late            \* appends to the last file on a later day than its own (history)

fvars == <<time, opened, size, count, startOfPeriod, lastRoll, lastFlush, late>>

Period(t) == (t \div RollPerSeconds) * RollPerSeconds

(* The constructor opens the first file.                                   *)
FInit ==
  /\ time \in 1 .. MaxTime
  /\ opened = <<time>> /\ lastRoll = time /\ lastFlush = time
  /\ startOfPeriod = Period(time)
  /\ size = 0 /\ count = 0 /\ late = 0

(* An append at a moment, with n bytes.                                    *)
Appended(n, now) ==
  /\ size' = size + n
  /\ late' = IF Period(now) = startOfPeriod THEN late ELSE late + 1

\* Mutant: the second the last file was opened in will do.
RollFileAgain(n, now, at) ==
  IF at >= lastRoll
    THEN /\ lastRoll' = at /\ lastFlush' = at /\ startOfPeriod' = Period(at)
         /\ opened' = Append(opened, at)
         /\ size' = 0 /\ late' = 0
    ELSE Appended(n, now) /\ UNCHANGED <<opened, startOfPeriod, lastRoll, lastFlush>>

(* rollFile: once in a second, at most.                                    *)
RollFile(n, now, at) ==
  IF at > lastRoll
    THEN /\ lastRoll' = at /\ lastFlush' = at /\ startOfPeriod' = Period(at)
         /\ opened' = Append(opened, at)
         /\ size' = 0 /\ late' = 0
    ELSE Appended(n, now) /\ UNCHANGED <<opened, startOfPeriod, lastRoll, lastFlush>>

\* Mutant: the flush goes before the new day.
CheckPeriodLast(n, now, at) ==
  IF now - lastFlush > FlushInterval
    THEN /\ Appended(n, now) /\ lastFlush' = now
         /\ UNCHANGED <<opened, startOfPeriod, lastRoll>>
  ELSE IF Period(now) # startOfPeriod THEN RollFile(n, now, at)
  ELSE Appended(n, now) /\ UNCHANGED <<opened, startOfPeriod, lastRoll, lastFlush>>

(* What every CheckEveryN-th append does.                                  *)
CheckPeriod(n, now, at) ==
  IF Period(now) # startOfPeriod THEN RollFile(n, now, at)
  ELSE /\ Appended(n, now)
       /\ lastFlush' = IF now - lastFlush > FlushInterval THEN now ELSE lastFlush
       /\ UNCHANGED <<opened, startOfPeriod, lastRoll>>

(* append_unlocked.  rollFile reads the clock again.                       *)
AppendUnlocked(n) ==
  \E now \in time .. MaxTime : \E at \in now .. MaxTime :
    /\ time' = at
    /\ IF size + n > RollSize
         THEN RollFile(n, now, at) /\ UNCHANGED count
       ELSE IF count + 1 < CheckEveryN
         THEN /\ Appended(n, now) /\ count' = count + 1
              /\ UNCHANGED <<opened, startOfPeriod, lastRoll, lastFlush>>
       ELSE CheckPeriod(n, now, at) /\ count' = 0

FSpec == FInit /\ [][\E n \in Nat : AppendUnlocked(n)]_fvars

-----------------------------------------------------------------------------
(* No file is opened twice: however sizes and days make it roll, two files *)
(* never have the same name (LogFile.cpp:103-118, 134).                    *)
OneFilePerName == \A i, j \in DOMAIN opened : opened[i] = opened[j] => i = j

(* A file gets fewer than CheckEveryN appends of a later day than the day  *)
(* in its name, whatever rolling by size does to the count                 *)
(* (LogFile.cpp:109-118).                                                  *)
OneDayPerFile == late < CheckEveryN

=============================================================================

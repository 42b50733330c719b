----------------------------- MODULE LogOutput ------------------------------
(***************************************************************************)
(* The asynchronous log down to its files: the appender of AsyncLog writes *)
(* to the LogFile it owns, a buffer at a time.                             *)
(***************************************************************************)
EXTENDS AsyncLog, LogFile

ovars == <<vars, fvars>>

OutInit == Init /\ FInit

(* A batch that is too large leaves a line in the file about it.           *)
FlushLimitToFile ==
  /\ FlushLimit
  /\ IF Len(buffersToWrite) > MaxBuffers THEN AppendUnlocked(1) ELSE UNCHANGED fvars

WriteBufferToFile ==
  WriteBuffer /\ AppendUnlocked(Len(buffersToWrite[written + 1]))

OutLoggerStep ==
  \/ FlushLimitToFile \/ WriteBufferToFile
  \/ (CheckRunning \/ WaitEnds \/ FlushSwap \/ FlushRecycle) /\ UNCHANGED fvars

OutNext ==
  \/ (AppendToCurrent \/ AppendToFresh \/ Stop) /\ UNCHANGED fvars
  \/ OutLoggerStep

OutSpec == OutInit /\ [][OutNext]_ovars /\ WF_ovars(OutLoggerStep)

=============================================================================

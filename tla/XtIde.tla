--------------------------------- MODULE XtIde ---------------------------------
(***************************************************************************)
(* XTIDE.MPD: a SCSI miniport for an XT-CF card that has no interrupt.     *)
(*                                                                         *)
(* SCSIPORT calls XtStartIo with one SRB, XtTimer from the timer interrupt *)
(* and XtResetBus.  XtStartIo polls the data phase through inline; a write *)
(* whose flash commit outlasts the polling is left open in dxSrb, and      *)
(* XtTimer completes it (build option XT_YIELD_COMMIT, which the released  *)
(* build has).  SCSIPORT, its timer and the drive are external.  XtStartIo *)
(* gives way at each wait for the drive: there the drive moves on and the  *)
(* timer interrupt may come in.                                            *)
(***************************************************************************)
EXTENDS Naturals, FiniteSets

CONSTANTS
  Srbs,             \* SRBs SCSIPORT uses
  NoSrb,            \* dxSrb = 0
  Present,          \* ATA units that answered the probe (0 master, 1 slave)
  Capacity,         \* Capacity[u]: sectors of unit u
  UnitTotal,        \* XTIDE_UnitTotal[u]: its LBA28 capacity, 0 if CHS-only
  Reach,            \* Reach[u]: sectors a taskfile address of u tells apart
  Versions,         \* what can be written to one sector
  NoData,           \* a sector of a read buffer that nothing arrived in
  Word,             \* 2^32: the width of LBA + count
  MaxSectors,       \* bound: most sectors of one request
  XT_MAX_CHUNK,     \* sectors one taskfile command carries (128)
  XT_COMMIT_WAKES   \* timer wakes before a commit is declared failed (100)

Unit == 0 .. 2      \* 2 stands for every target or LUN that cannot exist

ASSUME XtAssumption ==
  /\ NoSrb \notin Srbs
  /\ Present \in {{0}, {0, 1}}
  /\ Capacity \in [Present -> 1 .. Word - 1]
  /\ \A u \in Present : /\ UnitTotal[u] \in {0, Capacity[u]}
                         /\ Reach[u] \in Capacity[u] .. Word
  /\ Word \in Nat \ {0}
  /\ MaxSectors \in Nat \ {0} /\ MaxSectors < Word
  /\ XT_MAX_CHUNK \in Nat \ {0}
  /\ XT_COMMIT_WAKES \in Nat \ {0}

VARIABLES
  active,           \* the SRB SCSIPORT waits for
  ready,            \* NextRequest: SCSIPORT may call XtStartIo
  srb,              \* what the latest SRB with a transfer asks for
  status,           \* SrbStatus of the SRB completed last
  stray,            \* history: an SRB was completed that nobody waits for
  timer,            \* a RequestTimerCall is outstanding
  late,             \* a cancelled timer call may still come
  buf,              \* the buffer of the latest read
  pc,               \* where XtStartIo is
  dxSrb, dxWakes,   \* the device extension
  TryUnit, TotalSec,
  ReqLba, ReqCount, ReqBuf,
  rest,             \* sectors of the request after this chunk
  left,             \* sectors of this chunk still to move
  CommitPending,
  BSY, DRQ, ERR,    \* the drive's status register
  dOp, dUnit, dLba, dLeft,  \* the command it is at
  dCache,           \* sectors it has taken but not committed
  media             \* media[<<u, l>>]: sector l of unit u

portVars  == <<active, ready, status, stray>>
timerVars == <<timer, late>>
extVars   == <<dxSrb, dxWakes>>
unitVars  == <<TryUnit, TotalSec>>
runVars   == <<ReqLba, ReqCount, ReqBuf, rest>>
driveVars == <<BSY, DRQ, ERR, dOp, dUnit, dLba, dLeft, dCache>>
vars == <<portVars, srb, timerVars, buf, pc, extVars, unitVars, runVars, left,
          CommitPending, driveVars, media>>

Lba  == 0 .. Word - 1
Disk == {a \in Present \X Lba : a[2] < Capacity[a[1]]}

(* What is in a sector names the address it was meant for, and a version.  *)
Cells == (Present \X (0 .. 2 * Word)) \X Versions

(* What an SRB can ask for: reads and writes, commands that are answered   *)
(* from a table ("reply"), commands and functions with nothing to do.      *)
Transfer ==
  [op : {"read"}, unit : Unit, lba : Lba, n : 0 .. MaxSectors,
   v : {NoData}, mapped : BOOLEAN]
  \cup
  [op : {"write"}, unit : Unit, lba : Lba, n : 0 .. MaxSectors,
   v : Versions, mapped : BOOLEAN]

Other ==
  [op : {"reply", "nothing", "unknown", "function", "badFunction"},
   unit : Unit, mapped : BOOLEAN]

TypeOK ==
  /\ active \in Srbs \cup {NoSrb} /\ dxSrb \in Srbs \cup {NoSrb}
  /\ ready \in BOOLEAN /\ stray \in BOOLEAN
  /\ srb \in Transfer
  /\ status \in {"none", "success", "error", "timeout", "busReset", "invalid",
                 "selection", "badFunction"}
  /\ timer \in BOOLEAN /\ late \in BOOLEAN
  /\ buf \in [0 .. MaxSectors - 1 -> Cells \cup {NoData}]
  /\ pc \in {"idle", "program", "sector", "commit"}
  /\ dxWakes \in 0 .. XT_COMMIT_WAKES
  /\ TryUnit \in Present /\ TotalSec \in 0 .. Word - 1
  /\ ReqLba \in Lba /\ ReqCount \in 0 .. MaxSectors
  /\ ReqBuf \in 0 .. MaxSectors
  /\ rest \in 0 .. MaxSectors /\ left \in 0 .. MaxSectors
  /\ CommitPending \in BOOLEAN
  /\ BSY \in BOOLEAN /\ DRQ \in BOOLEAN /\ ERR \in BOOLEAN
  /\ dOp \in {"none", "read", "write"} /\ dUnit \in Present
  /\ dLba \in 0 .. 2 * Word /\ dLeft \in 0 .. MaxSectors
  /\ dCache \subseteq Disk \X Cells
  /\ media \in [Disk -> Cells]

Init ==
  /\ active = NoSrb /\ ready = TRUE /\ status = "none" /\ stray = FALSE
  /\ srb = [op |-> "read", unit |-> 0, lba |-> 0, n |-> 0,
             v |-> NoData, mapped |-> FALSE]
  /\ timer = FALSE /\ late = FALSE
  /\ buf = [i \in 0 .. MaxSectors - 1 |-> NoData]
  /\ pc = "idle" /\ dxSrb = NoSrb /\ dxWakes = 0
  /\ TryUnit = 0 /\ TotalSec = UnitTotal[0]
  /\ ReqLba = 0 /\ ReqCount = 0 /\ ReqBuf = 0 /\ rest = 0 /\ left = 0
  /\ CommitPending = FALSE
  /\ BSY = FALSE /\ DRQ = FALSE /\ ERR = FALSE
  /\ dOp = "none" /\ dUnit = 0 /\ dLba = 0 /\ dLeft = 0 /\ dCache = {}
  /\ \E v \in Versions : media = [a \in Disk |-> <<a, v>>]

-----------------------------------------------------------------------------
(***************************************************************************)
(* Completion.                                                             *)
(***************************************************************************)
(* XtFinish: RequestComplete for SRB s, then NextRequest. *)
XtFinish(s, st) ==
  /\ status' = st
  /\ active' = IF s = active THEN NoSrb ELSE active
  /\ stray' = (stray \/ s # active)
  /\ ready' = TRUE

RequestTimerCall == timer' = TRUE /\ UNCHANGED late

(* Mutants of Yield: no timer is started; the next request is asked for at *)
(* once.                                                                   *)
YieldUntimed ==
  /\ dxSrb' = active
  /\ dxWakes' = 0
  /\ UNCHANGED <<timerVars, portVars>>

YieldAndAsk ==
  /\ dxSrb' = active
  /\ dxWakes' = 0
  /\ RequestTimerCall
  /\ ready' = TRUE
  /\ UNCHANGED <<active, status, stray>>

(* XtStartIo's xsi_yield: no completion, the SRB waits for its commit. *)
Yield ==
  /\ dxSrb' = active
  /\ dxWakes' = 0
  /\ RequestTimerCall
  /\ UNCHANGED portVars

(* The end of XTIDE_XferRun and of XtStartIo with it. *)
EndRun(st) ==
  /\ XtFinish(active, st)
  /\ pc' = "idle"
  /\ UNCHANGED <<extVars, timerVars, runVars>>

-----------------------------------------------------------------------------
(***************************************************************************)
(* XtStartIo: dispatch, up to the first wait for the drive.                *)
(***************************************************************************)
(* Mutant of SelectUnit: the geometry of the unit selected before. *)
SelectUnitLate(u) == TryUnit' = u /\ TotalSec' = UnitTotal[TryUnit]

(* XTIDE_SelectUnit *)
SelectUnit(u) == TryUnit' = u /\ TotalSec' = UnitTotal[u]

Executes(r) == r.op \notin {"function", "badFunction"}
Selects(r)  == Executes(r) /\ r.unit \in Present

(* Mutant of OutOfBounds: the carry of the addition is not looked at. *)
OutOfBoundsNoCarry(r, total) == total # 0 /\ (r.lba + r.n) % Word > total

(* Past the end of the medium, in XtStartIo's 32-bit arithmetic. *)
OutOfBounds(r, total) ==
  total # 0 /\ \/ r.lba + r.n >= Word
               \/ (r.lba + r.n) % Word > total

(* The status of an SRB that needs no transfer, or "transfer". *)
Answer(r, total) ==
  IF Executes(r) /\ ~Selects(r) THEN "selection"
  ELSE CASE r.op = "badFunction"             -> "badFunction"
         [] r.op \in {"function", "nothing"} -> "success"
         [] r.op = "unknown"                 -> "invalid"
         [] r.op = "reply"                   -> IF r.mapped THEN "success" ELSE "invalid"
         [] r.op \in {"read", "write"} ->
              IF r.n = 0 THEN "success"
              ELSE IF OutOfBounds(r, total) \/ ~r.mapped THEN "invalid"
              ELSE "transfer"

(* The next chunk of n sectors: XTIDE_XferRun's xfr_chunk. *)
Chunk(n) ==
  LET c == IF n <= XT_MAX_CHUNK THEN n ELSE XT_MAX_CHUNK IN
  ReqCount' = c /\ rest' = n - c

XtStartIo(s, r) ==
  /\ ready
  /\ pc = "idle"
  /\ IF Selects(r) THEN SelectUnit(r.unit) ELSE UNCHANGED unitVars
  /\ LET answer == Answer(r, TotalSec') IN
     IF answer = "transfer"
       THEN /\ active' = s /\ ready' = FALSE
            /\ pc' = "program"
            /\ ReqLba' = r.lba /\ ReqBuf' = 0 /\ Chunk(r.n)
            /\ CommitPending' = FALSE
            /\ srb' = r
            /\ buf' = [i \in 0 .. MaxSectors - 1 |-> NoData]
            /\ UNCHANGED <<status, stray>>
       ELSE /\ status' = answer            \* XtFinish at once
            /\ UNCHANGED <<active, ready, stray, pc, runVars, CommitPending,
                           srb, buf>>
  /\ UNCHANGED <<timerVars, extVars, left, driveVars, media>>

-----------------------------------------------------------------------------
(***************************************************************************)
(* XTIDE_XferRun, one chunk at a time.                                     *)
(***************************************************************************)
IsWrite == srb.op = "write"
Index   == ReqBuf + ReqCount - left     \* sector of the request at hand

(* Sector i of what the request has in its buffer, to be written. *)
Wanted(i) == <<<<srb.unit, srb.lba + i>>, srb.v>>

(* Mutant of DeferOk: any chunk's commit may be left running. *)
DeferAny == TRUE

(* Only the last chunk's commit may be left running. *)
DeferOk == rest = 0

(* Mutant of Advance: the buffer pointer stays. *)
AdvanceLbaOnly == ReqLba' = (ReqLba + ReqCount) % Word /\ UNCHANGED ReqBuf

(* Past the chunk that has moved. *)
Advance ==
  /\ ReqLba' = (ReqLba + ReqCount) % Word
  /\ ReqBuf' = ReqBuf + ReqCount

(* A chunk has moved: on to the next, or out of XTIDE_XferRun. *)
EndChunk ==
  IF rest > 0
    THEN /\ Advance
         /\ Chunk(rest)
         /\ pc' = "program"
         /\ UNCHANGED <<portVars, extVars, timerVars>>
  ELSE IF CommitPending'
    THEN Yield /\ pc' = "idle" /\ UNCHANGED runVars
  ELSE EndRun("success")

ioRest == <<srb, unitVars, media>>

(* XTIDE_ProgramTaskfile.  A drive too long busy, before or after the       *)
(* select, or without usable geometry, fails the request.                  *)
ProgramTaskfile ==
  /\ pc = "program"
  /\ \/ /\ ~BSY
        /\ BSY' = TRUE /\ DRQ' = FALSE /\ ERR' = FALSE
        /\ dOp' = srb.op /\ dUnit' = TryUnit
        /\ dLba' = ReqLba % Reach[TryUnit] /\ dLeft' = ReqCount /\ dCache' = {}
        /\ left' = ReqCount
        /\ pc' = "sector"
        /\ UNCHANGED <<portVars, timerVars, extVars, runVars>>
     \/ EndRun("error") /\ UNCHANGED <<left, driveVars>>
  /\ UNCHANGED <<ioRest, buf, CommitPending>>

(* The drive is at no command. *)
DriveIdle == dOp' = "none" /\ dUnit' = 0 /\ dLba' = 0 /\ dLeft' = 0

DataReady == ~BSY /\ ~ERR /\ DRQ        \* XTIDE_WaitDrq: CF = 0

ReadData ==
  /\ pc = "sector" /\ ~IsWrite
  /\ DataReady
  /\ buf' = [buf EXCEPT ![Index] = media[<<dUnit, dLba>>]]
  /\ DRQ' = FALSE
  /\ IF dLeft > 1
       THEN /\ BSY' = TRUE
            /\ dLba' = dLba + 1 /\ dLeft' = dLeft - 1
            /\ UNCHANGED <<dOp, dUnit>>
       ELSE BSY' = FALSE /\ DriveIdle
  /\ left' = left - 1
  /\ UNCHANGED CommitPending
  /\ IF left > 1 THEN UNCHANGED <<pc, portVars, extVars, timerVars, runVars>>
                 ELSE EndChunk
  /\ UNCHANGED <<ioRest, ERR, dCache>>

WriteData ==
  /\ pc = "sector" /\ IsWrite
  /\ DataReady
  /\ dCache' = dCache \cup {<<<<dUnit, dLba>>, Wanted(Index)>>}
  /\ DRQ' = FALSE /\ BSY' = TRUE
  /\ dLba' = dLba + 1 /\ dLeft' = dLeft - 1
  /\ left' = left - 1
  /\ pc' = IF left > 1 THEN "sector" ELSE "commit"
  /\ UNCHANGED <<ioRest, portVars, extVars, timerVars, runVars, buf,
                 CommitPending, ERR, dOp, dUnit>>

NoDrq ==
  /\ pc = "sector"
  /\ ~DataReady
  /\ EndRun("error")
  /\ left' = 0
  /\ UNCHANGED <<ioRest, buf, CommitPending, driveVars>>

(* The end of XTIDE_WriteSectors. *)
Committed ==
  /\ pc = "commit"
  /\ ~BSY
  /\ UNCHANGED CommitPending
  /\ IF ERR THEN EndRun("error") ELSE EndChunk
  /\ UNCHANGED <<ioRest, buf, left, driveVars>>

StillCommitting ==
  /\ pc = "commit"
  /\ BSY
  /\ IF DeferOk THEN CommitPending' = TRUE /\ EndChunk
                ELSE UNCHANGED CommitPending /\ EndRun("error")
  /\ UNCHANGED <<ioRest, buf, left, driveVars>>

Run ==
  \/ ProgramTaskfile \/ ReadData \/ WriteData \/ NoDrq
  \/ Committed \/ StillCommitting

-----------------------------------------------------------------------------
(***************************************************************************)
(* XtTimer and XtResetBus.                                                 *)
(***************************************************************************)
callRest == <<srb, buf, pc, unitVars, runVars, left, driveVars, media>>

(* Mutant of LastWake: one wake too many. *)
LastWakeLate == dxWakes >= XT_COMMIT_WAKES

LastWake == dxWakes + 1 >= XT_COMMIT_WAKES

(* Mutant of DropPending: the SRB stays in dxSrb. *)
DropFlagOnly == CommitPending' = FALSE /\ UNCHANGED dxSrb

(* The SRB is no longer waiting for its commit. *)
DropPending == CommitPending' = FALSE /\ dxSrb' = NoSrb

(* XTIDE_CommitPoll, and what XtTimer makes of it; "other" says whether a  *)
(* timer call besides this one is outstanding.                             *)
Poll(other) ==
  \/ /\ BSY
     /\ ~LastWake
     /\ dxWakes' = dxWakes + 1
     /\ timer' = TRUE
     /\ UNCHANGED <<portVars, dxSrb, CommitPending>>
  \/ /\ BSY
     /\ LastWake
     /\ dxWakes' = dxWakes + 1
     /\ DropPending
     /\ XtFinish(dxSrb, "timeout")
     /\ timer' = other
  \/ /\ ~BSY
     /\ DropPending
     /\ XtFinish(dxSrb, IF ERR THEN "error" ELSE "success")
     /\ timer' = other
     /\ UNCHANGED dxWakes

HwTimer(other) ==
  IF dxSrb = NoSrb
    THEN timer' = other /\ UNCHANGED <<portVars, extVars, CommitPending>>
    ELSE Poll(other)

XtTimer ==
  /\ timer
  /\ HwTimer(FALSE)
  /\ UNCHANGED <<late, callRest>>

(* The call that RequestTimerCall(0) came too late for. *)
LateTimer ==
  /\ late
  /\ late' = FALSE
  /\ HwTimer(timer)
  /\ UNCHANGED callRest

XtResetBus ==
  /\ pc = "idle"
  /\ dxSrb # NoSrb
  /\ DropPending
  /\ timer' = FALSE /\ late' \in {late, late \/ timer}
  /\ XtFinish(dxSrb, "busReset")
  /\ UNCHANGED <<dxWakes, callRest>>

-----------------------------------------------------------------------------
(***************************************************************************)
(* The drive.  It may take any time over anything, or for ever.            *)
(***************************************************************************)
driveRest == <<portVars, srb, timerVars, buf, pc, extVars, unitVars, runVars,
               left, CommitPending>>

DriveAsks ==
  /\ BSY /\ dLeft > 0 /\ <<dUnit, dLba>> \in Disk
  /\ BSY' = FALSE /\ DRQ' = TRUE
  /\ UNCHANGED <<driveRest, ERR, dOp, dUnit, dLba, dLeft, dCache, media>>

DriveCommits ==
  /\ BSY
  /\ \E c \in dCache :
       /\ media' = [media EXCEPT ![c[1]] = c[2]]
       /\ dCache' = dCache \ {c}
  /\ UNCHANGED <<driveRest, BSY, DRQ, ERR, dOp, dUnit, dLba, dLeft>>

DriveFinishes ==
  /\ BSY /\ dOp = "write" /\ dLeft = 0 /\ dCache = {}
  /\ BSY' = FALSE /\ DriveIdle
  /\ UNCHANGED <<driveRest, DRQ, ERR, dCache, media>>

DriveFails ==
  /\ BSY
  /\ BSY' = FALSE /\ ERR' = TRUE /\ DRQ' = FALSE
  /\ DriveIdle /\ dCache' = {}
  /\ UNCHANGED <<driveRest, media>>

Drive == DriveAsks \/ DriveCommits \/ DriveFinishes \/ DriveFails

-----------------------------------------------------------------------------
Next ==
  \/ \E s \in Srbs, r \in Transfer \cup Other : XtStartIo(s, r)
  \/ Run
  \/ XtTimer \/ LateTimer \/ XtResetBus
  \/ Drive

Spec == Init /\ [][Next]_vars

(* The processor runs XtStartIo on, and a requested timer call comes.      *)
(* Nothing is assumed of the drive.                                        *)
Fairness == WF_vars(Run) /\ WF_vars(XtTimer)

FairSpec == Spec /\ Fairness
-----------------------------------------------------------------------------
(***************************************************************************)
(* Properties.                                                             *)
(***************************************************************************)
(* SCSIPORT hears of every SRB once: nothing is completed that it does not *)
(* wait for, and it may send the next one exactly when it waits for none   *)
(* (XtStartIo, XtTimer and XtResetBus all lead to XtFinish).               *)
CompletedOnce ==
  /\ ~stray
  /\ ready <=> active = NoSrb

(* The data phase is never interrupted by anything that touches the drive  *)
(* (the comment of XTIDE_ReadData): a timer call that comes while XtStartIo *)
(* is at a transfer finds no SRB to poll for, and the transport's globals  *)
(* are that transfer's alone.                                              *)
DataPhaseAlone == pc # "idle" => dxSrb = NoSrb /\ active # NoSrb

(* On a unit with an LBA28 capacity no command reaches past the end of the *)
(* medium, and commands go to the unit the SRB names: bounds are checked   *)
(* against the geometry of that unit, not of the one selected before.      *)
CommandOnMedium ==
  pc = "sector" /\ dOp # "none" /\ UnitTotal[dUnit] # 0 =>
    /\ dUnit = srb.unit
    /\ dLba + dLeft <= Capacity[dUnit]

(* No sector ends up where it does not belong, whatever fails or is reset. *)
(* A CHS-only unit has no bound, so there a request past the end of the    *)
(* medium may wrap round to a sector of it (xsi_nobound).                  *)
NothingMisplaced ==
  \A a \in Disk :
    LET home == media[a][1] IN
    \/ home = a
    \/ UnitTotal[a[1]] = 0 /\ home[1] = a[1] /\ home[2] >= Capacity[a[1]]

Completes(op) ==
  active # NoSrb /\ active' = NoSrb /\ srb.op = op /\ status' = "success"

(* A write reported as done is on the medium, whole: over several chunks,  *)
(* whether XtStartIo saw the commit end or left it to XtTimer, and also    *)
(* when a call cancelled by a reset arrives late.                          *)
WriteSuccessIsDurable ==
  [][Completes("write") =>
       \A i \in 0 .. srb.n - 1 :
         Wanted(i)[1] \in Disk => media'[Wanted(i)[1]] = Wanted(i)]_vars

(* A read reported as done filled the buffer with the request's sectors,   *)
(* each in its place, over several chunks.                                 *)
ReadSuccessIsMedia ==
  [][Completes("read") =>
       \A i \in 0 .. srb.n - 1 :
         LET a == <<srb.unit, srb.lba + i>> IN
         a \in Disk => buf'[i] = media[a]]_vars

(* Every SRB is answered, whatever the drive does or fails to do: a wait   *)
(* in XtStartIo gives up, and XtTimer polls XT_COMMIT_WAKES times at most. *)
Answered == \A s \in Srbs : active = s ~> active # s
=============================================================================

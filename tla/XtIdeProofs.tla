------------------------------ MODULE XtIdeProofs ------------------------------
(***************************************************************************)
(* The SRB protocol of XtIde: every SRB is completed once, and the timer   *)
(* never polls the card while XtStartIo transfers.                         *)
(*                                                                         *)
(* Neither property is inductive alone.  What joins them is that dxSrb,    *)
(* when set, is the very SRB SCSIPORT waits for (SrbInv): then XtTimer,    *)
(* the late timer call and XtResetBus complete that one, and XtStartIo,    *)
(* which runs only when SCSIPORT waits for none, finds dxSrb clear.        *)
(***************************************************************************)
EXTENDS XtIde, Integers, TLAPS

SrbInv ==
  /\ CompletedOnce
  /\ DataPhaseAlone
  /\ dxSrb # NoSrb => dxSrb = active

(* What SrbInv is about. *)
srbVars == <<active, ready, stray, pc, dxSrb>>

USE DEF portVars, timerVars, extVars

LEMMA SrbInit == Init => SrbInv
BY DEF Init, SrbInv, CompletedOnce, DataPhaseAlone

LEMMA SrbStutter ==
  ASSUME SrbInv, UNCHANGED srbVars
  PROVE  SrbInv'
BY DEF SrbInv, CompletedOnce, DataPhaseAlone, srbVars

(* XtFinish for the SRB that is waited for. *)
LEMMA FinishActive ==
  ASSUME SrbInv, NEW st, XtFinish(active, st), dxSrb' = NoSrb, pc' = "idle"
  PROVE  SrbInv'
BY DEF SrbInv, CompletedOnce, DataPhaseAlone, XtFinish

(* The end of a run, and of a chunk. *)
LEMMA EndRunKeeps ==
  ASSUME SrbInv, pc # "idle", NEW st, EndRun(st)
  PROVE  SrbInv'
BY FinishActive DEF EndRun, SrbInv, DataPhaseAlone

LEMMA EndChunkKeeps ==
  ASSUME SrbInv, pc # "idle", EndChunk
  PROVE  SrbInv'
<1>1. CASE rest > 0
  BY <1>1 DEF EndChunk, SrbInv, CompletedOnce, DataPhaseAlone
<1>2. CASE ~(rest > 0) /\ CommitPending'
  BY <1>2 DEF EndChunk, Yield, RequestTimerCall, SrbInv, CompletedOnce, DataPhaseAlone
<1>3. CASE ~(rest > 0) /\ ~CommitPending'
  BY <1>3, EndRunKeeps DEF EndChunk
<1> QED BY <1>1, <1>2, <1>3

LEMMA StartIoKeeps ==
  ASSUME SrbInv, NEW s \in Srbs, NEW r, XtStartIo(s, r)
  PROVE  SrbInv'
<1>1. s # NoSrb BY XtAssumption DEF XtAssumption
<1>2. dxSrb = NoSrb
  BY DEF XtStartIo, SrbInv, CompletedOnce
<1> QED BY <1>1, <1>2 DEF XtStartIo, SrbInv, CompletedOnce, DataPhaseAlone

LEMMA RunKeeps ==
  ASSUME SrbInv, Run
  PROVE  SrbInv'
<1>1. CASE ProgramTaskfile
  <2>1. CASE EndRun("error")
    BY <1>1, <2>1, EndRunKeeps DEF ProgramTaskfile
  <2> QED BY <1>1, <2>1
            DEF ProgramTaskfile, SrbInv, CompletedOnce, DataPhaseAlone
<1>2. CASE ReadData
  <2>1. CASE left > 1
    BY <1>2, <2>1 DEF ReadData, SrbInv, CompletedOnce, DataPhaseAlone
  <2> QED BY <1>2, <2>1, EndChunkKeeps DEF ReadData
<1>3. CASE WriteData
  BY <1>3 DEF WriteData, SrbInv, CompletedOnce, DataPhaseAlone
<1>4. CASE NoDrq
  BY <1>4, EndRunKeeps DEF NoDrq
<1>5. CASE Committed
  BY <1>5, EndRunKeeps, EndChunkKeeps DEF Committed
<1>6. CASE StillCommitting
  BY <1>6, EndRunKeeps, EndChunkKeeps DEF StillCommitting
<1> QED BY <1>1, <1>2, <1>3, <1>4, <1>5, <1>6 DEF Run

(* A timer call, whether it comes in time or late. *)
LEMMA TimerKeeps ==
  ASSUME SrbInv, NEW other, HwTimer(other), UNCHANGED pc
  PROVE  SrbInv'
<1>1. CASE dxSrb = NoSrb
  BY <1>1, SrbStutter DEF HwTimer, srbVars
<1>2. CASE dxSrb # NoSrb
  <2>1. pc = "idle" /\ dxSrb = active
    BY <1>2 DEF SrbInv, DataPhaseAlone
  <2>2. Poll(other) BY <1>2 DEF HwTimer
  <2>3. CASE UNCHANGED <<portVars, dxSrb>>
    BY <2>3, SrbStutter DEF srbVars
  <2>4. CASE DropPending /\ \E st : XtFinish(dxSrb, st)
    BY <2>1, <2>4, FinishActive DEF DropPending
  <2> QED BY <2>2, <2>3, <2>4 DEF Poll
<1> QED BY <1>1, <1>2

LEMMA ResetKeeps ==
  ASSUME SrbInv, XtResetBus
  PROVE  SrbInv'
<1>1. dxSrb = active BY DEF XtResetBus, SrbInv
<1> QED BY <1>1, FinishActive DEF XtResetBus, DropPending, callRest

LEMMA DriveKeeps ==
  ASSUME SrbInv, Drive
  PROVE  SrbInv'
<1>1. UNCHANGED srbVars
  BY DEF Drive, DriveAsks, DriveCommits, DriveFinishes, DriveFails, driveRest,
         srbVars
<1> QED BY <1>1, SrbStutter

LEMMA SrbStep ==
  ASSUME SrbInv, [Next]_vars
  PROVE  SrbInv'
<1>1. ASSUME NEW s \in Srbs, NEW r \in Transfer \cup Other, XtStartIo(s, r)
      PROVE  SrbInv'
  BY <1>1, StartIoKeeps
<1>2. CASE Run
  BY <1>2, RunKeeps
<1>3. CASE XtTimer
  BY <1>3, TimerKeeps DEF XtTimer, callRest
<1>4. CASE LateTimer
  BY <1>4, TimerKeeps DEF LateTimer, callRest
<1>5. CASE XtResetBus
  BY <1>5, ResetKeeps
<1>6. CASE Drive
  BY <1>6, DriveKeeps
<1>7. CASE UNCHANGED vars
  BY <1>7, SrbStutter DEF vars, srbVars
<1> QED BY <1>1, <1>2, <1>3, <1>4, <1>5, <1>6, <1>7 DEF Next

LEMMA SrbAlways == Spec => []SrbInv
BY SrbInit, SrbStep, PTL DEF Spec

(* Whatever SCSIPORT sends and whenever the timer and the reset come, no   *)
(* SRB is completed twice or out of turn (XtFinish and its callers).       *)
THEOREM EverySrbOnce == Spec => []CompletedOnce
<1>1. SrbInv => CompletedOnce BY DEF SrbInv
<1> QED BY <1>1, SrbAlways, PTL

(* The timer interrupt never touches the card during a data phase.         *)
THEOREM TimerKeepsOff == Spec => []DataPhaseAlone
<1>1. SrbInv => DataPhaseAlone BY DEF SrbInv
<1> QED BY <1>1, SrbAlways, PTL

-----------------------------------------------------------------------------
(***************************************************************************)
(* What XtIde moves: every sector to and from its own place on the medium, *)
(* and a success that means what it says.                                  *)
(*                                                                         *)
(* The address arithmetic of the chunks wraps (ReqLba at 2^32, the         *)
(* taskfile at Reach); Request says where ReqLba is.  Drives and Sector    *)
(* keep the driver's count and the drive's in step; Homes, Read and        *)
(* Written are about the sectors themselves.                               *)
(***************************************************************************)

InHand == pc # "idle" \/ dxSrb # NoSrb

(* Sectors of the request moved so far.                                    *)
Moved == IF pc = "program" THEN ReqBuf ELSE Index

(* The request in hand, and how far its chunks have come.                  *)
Request ==
  /\ TotalSec = UnitTotal[TryUnit]
  /\ InHand =>
       /\ srb.unit = TryUnit
       /\ ReqCount > 0 /\ ReqBuf + ReqCount + rest = srb.n
       /\ ReqLba = srb.lba + ReqBuf \/ ReqLba + Word = srb.lba + ReqBuf
       /\ TotalSec # 0 => srb.lba + srb.n <= TotalSec

(* The drive is at a command while it is busy or wants data.               *)
Drives ==
  /\ dOp # "none" <=> BSY \/ DRQ
  /\ ~(BSY /\ DRQ)
  /\ DRQ => dLeft > 0 /\ <<dUnit, dLba>> \in Disk
  /\ dCache # {} => dOp = "write"

(* The driver's count and the drive's.                                     *)
Start == ReqLba % Reach[TryUnit]

Sector ==
  /\ pc = "sector" => left > 0 /\ left <= ReqCount
  /\ pc = "sector" /\ dOp # "none" =>
       /\ dOp = srb.op /\ dUnit = TryUnit
       /\ dLeft = left /\ dLba = Start + ReqCount - left
  /\ pc = "commit" \/ dxSrb # NoSrb => left = 0 /\ dLeft = 0 /\ IsWrite
  /\ dxSrb # NoSrb => rest = 0 /\ dxWakes < XT_COMMIT_WAKES
  /\ pc # "idle" => ~CommitPending

(* Where a sector's contents may be found.                                 *)
Belongs(a, home) ==
  \/ home = a
  \/ UnitTotal[a[1]] = 0 /\ home[1] = a[1] /\ home[2] >= Capacity[a[1]]

Homes ==
  /\ \A a \in Disk : Belongs(a, media[a][1])
  /\ \A c \in dCache : Belongs(c[1], c[2][1])

XInv == SrbInv /\ TypeOK /\ Request /\ Drives /\ Sector /\ Homes

(* What a read has put into its buffer.                                    *)
At(i) == <<srb.unit, srb.lba + i>>

Read ==
  InHand /\ ~IsWrite =>
    /\ pc # "program" \/ ReqBuf > 0 => dCache = {} \/ ~BSY
    /\ \A i \in 0 .. Moved - 1 : At(i) \in Disk => buf[i] = media[At(i)]

(* What a write has on the medium or in the drive, unless the drive failed;*)
(* and what the drive has is of this chunk.                                *)
Kept(i) == media[At(i)] = Wanted(i) \/ <<At(i), Wanted(i)>> \in dCache

Written ==
  InHand /\ IsWrite =>
    /\ pc = "program" /\ ReqBuf > 0 => ~BSY /\ ~ERR /\ dCache = {}
    /\ ERR \/ \A i \in 0 .. Moved - 1 : At(i) \in Disk => Kept(i)
    /\ pc # "program" =>
         \A c \in dCache : \E k \in 0 .. ReqCount - left - 1 :
           c = <<<<TryUnit, Start + k>>, Wanted(ReqBuf + k)>>

(* A CHS-only unit is larger than any one request.                         *)
SmallRequests == \A u \in Present : MaxSectors <= Reach[u]
-----------------------------------------------------------------------------
(* Arithmetic.                                                             *)
LEMMA ModRange ==
  ASSUME NEW x \in Nat, NEW y \in Nat \ {0}
  PROVE  x % y \in Nat /\ x % y < y /\ x % y <= x
BY SMT

LEMMA ModSmall ==
  ASSUME NEW x \in Nat, NEW y \in Nat \ {0}, x < y
  PROVE  x % y = x
BY SMT

LEMMA ModOnce ==
  ASSUME NEW x \in Nat, NEW y \in Nat \ {0}, y <= x, x < y + y
  PROVE  x % y = x - y
BY SMT

LEMMA ModLarge ==
  ASSUME NEW x \in Nat, NEW y \in Nat \ {0}, y <= x
  PROVE  x % y <= x - y
BY SMT

LEMMA UnitFacts ==
  ASSUME NEW u \in Present
  PROVE  /\ Capacity[u] \in Nat /\ 0 < Capacity[u] /\ Capacity[u] < Word
         /\ UnitTotal[u] \in {0, Capacity[u]}
         /\ Reach[u] \in Nat \ {0} /\ Capacity[u] <= Reach[u] /\ Reach[u] <= Word
BY XtAssumption DEF XtAssumption

LEMMA BoundFacts == /\ Word \in Nat \ {0}
                    /\ MaxSectors \in Nat \ {0} /\ MaxSectors < Word
                    /\ XT_MAX_CHUNK \in Nat \ {0} /\ XT_COMMIT_WAKES \in Nat \ {0}
                    /\ 0 \in Present /\ Present \subseteq Unit
                    /\ NoSrb \notin Srbs
BY XtAssumption DEF XtAssumption, Unit

LEMMA SrbFacts ==
  ASSUME NEW r \in Transfer
  PROVE  /\ r.unit \in Unit /\ r.lba \in 0 .. Word - 1 /\ r.n \in 0 .. MaxSectors
         /\ r.op \in {"read", "write"}
         /\ r.op = "write" => r.v \in Versions
BY DEF Transfer, Lba

LEMMA DiskFacts ==
  ASSUME NEW u, NEW l
  PROVE  /\ <<u, l>> \in Disk <=> u \in Present /\ l \in 0 .. Word - 1 /\ l < Capacity[u]
BY DEF Disk, Lba

LEMMA CellFacts ==
  ASSUME NEW u \in Present, NEW l \in 0 .. 2 * Word, NEW v \in Versions
  PROVE  <<<<u, l>>, v>> \in Cells
BY DEF Cells

-----------------------------------------------------------------------------
(* Addresses.                                                              *)
LEMMA StartFacts ==
  ASSUME TypeOK, Request, InHand
  PROVE  /\ Start \in Nat /\ Start < Reach[TryUnit] /\ Start <= ReqLba
         /\ srb.lba + ReqBuf < Reach[TryUnit] => Start = srb.lba + ReqBuf
         /\ UnitTotal[TryUnit] # 0 => srb.lba + srb.n <= Capacity[TryUnit]
<1>1. /\ TryUnit \in Present /\ ReqLba \in Nat /\ ReqBuf \in Nat /\ srb \in Transfer
      /\ ReqLba < Word
  BY BoundFacts DEF TypeOK, Lba
<1>2. Start \in Nat /\ Start < Reach[TryUnit] /\ Start <= ReqLba
  BY <1>1, UnitFacts, ModRange DEF Start
<1>3. ASSUME srb.lba + ReqBuf < Reach[TryUnit] PROVE Start = srb.lba + ReqBuf
  <2>1. srb.lba \in Nat BY <1>1, SrbFacts, BoundFacts
  <2>2. ReqLba = srb.lba + ReqBuf
    BY <1>1, <1>3, <2>1, UnitFacts, BoundFacts DEF Request
  <2> QED BY <1>1, <1>3, <2>2, UnitFacts, ModSmall DEF Start
<1>4. UnitTotal[TryUnit] # 0 => srb.lba + srb.n <= Capacity[TryUnit]
  BY <1>1, UnitFacts DEF Request
<1> QED BY <1>2, <1>3, <1>4

(* The sector a taskfile address reaches is the one meant, or the one meant *)
(* is past the end of a unit without bounds.                                *)
LEMMA RightPlace ==
  ASSUME TypeOK, Request, InHand, NEW k \in 0 .. ReqCount - 1,
         <<TryUnit, Start + k>> \in Disk
  PROVE  /\ Belongs(<<TryUnit, Start + k>>, At(ReqBuf + k))
         /\ At(ReqBuf + k) \in Disk => At(ReqBuf + k) = <<TryUnit, Start + k>>
<1>1. /\ TryUnit \in Present /\ ReqBuf \in Nat /\ ReqCount \in Nat /\ srb \in Transfer
      /\ srb.unit = TryUnit /\ k \in Nat /\ rest \in Nat
      /\ ReqBuf + ReqCount + rest = srb.n
  BY BoundFacts DEF TypeOK, Request
<1>2. srb.lba \in Nat /\ srb.n \in Nat BY <1>1, SrbFacts, BoundFacts
<1>3. CASE srb.lba + ReqBuf < Reach[TryUnit]
  <2>1. Start = srb.lba + ReqBuf BY <1>3, StartFacts
  <2>2. At(ReqBuf + k) = <<TryUnit, Start + k>>
    BY <1>1, <1>2, <2>1 DEF At
  <2> QED BY <2>2 DEF Belongs
<1>4. CASE ~(srb.lba + ReqBuf < Reach[TryUnit])
  <2>1. srb.lba + (ReqBuf + k) >= Capacity[TryUnit]
    BY <1>1, <1>2, <1>4, UnitFacts
  <2>2. UnitTotal[TryUnit] = 0
    BY <1>1, <1>2, <1>4, StartFacts, UnitFacts DEF Request
  <2>3. At(ReqBuf + k) \notin Disk
    BY <1>1, <1>2, <2>1, DiskFacts, UnitFacts DEF At
  <2> QED BY <1>1, <2>1, <2>2, <2>3 DEF Belongs, At
<1> QED BY <1>3, <1>4

(* No chunk comes round to a sector of the request that has moved before.  *)
LEMMA NotTwice ==
  ASSUME TypeOK, Request, InHand, SmallRequests, NEW k \in 0 .. ReqCount - 1,
         NEW i \in Nat, At(i) = <<TryUnit, Start + k>>
  PROVE  i = ReqBuf + k
<1>1. /\ TryUnit \in Present /\ ReqBuf \in Nat /\ ReqCount \in Nat /\ srb \in Transfer
      /\ k \in Nat /\ rest \in Nat /\ i \in Nat /\ ReqLba \in Nat
      /\ ReqBuf + ReqCount + rest = srb.n
  BY BoundFacts DEF TypeOK, Request, Lba
<1>2. srb.lba \in Nat /\ srb.n \in Nat /\ srb.n <= MaxSectors
  BY <1>1, SrbFacts, BoundFacts
<1>3. srb.lba + i = Start + k BY DEF At
<1>4. CASE srb.lba + ReqBuf < Reach[TryUnit]
  BY <1>1, <1>2, <1>3, <1>4, StartFacts
<1>5. CASE ~(srb.lba + ReqBuf < Reach[TryUnit])
  <2>1. CASE ReqLba = srb.lba + ReqBuf
    <3>1. Reach[TryUnit] \in Nat \ {0} /\ Reach[TryUnit] <= ReqLba
      BY <1>1, <1>2, <1>5, <2>1, UnitFacts
    <3>2. Start <= ReqLba - Reach[TryUnit] /\ Start \in Nat
      BY <1>1, <3>1, ModLarge, ModRange DEF Start
    <3>3. MaxSectors <= Reach[TryUnit] BY <1>1 DEF SmallRequests
    <3> QED BY <1>1, <1>2, <1>3, <2>1, <3>1, <3>2, <3>3, BoundFacts
  <2>2. CASE ReqLba + Word = srb.lba + ReqBuf
    BY <1>1, <1>2, <1>3, <2>2, StartFacts, BoundFacts
  <2> QED BY <2>1, <2>2 DEF Request
<1> QED BY <1>4, <1>5
-----------------------------------------------------------------------------
(* Out of a run: nothing is in hand.                                        *)
LEMMA OutOfHand ==
  ASSUME Request, pc' = "idle", dxSrb' = NoSrb, UNCHANGED unitVars
  PROVE  Request' /\ Sector' /\ Read' /\ Written'
BY DEF Request, Sector, Read, Written, InHand, unitVars

LEMMA EndRunFrees ==
  ASSUME SrbInv, Request, pc # "idle", NEW st, EndRun(st), UNCHANGED unitVars
  PROVE  Request' /\ Sector' /\ Read' /\ Written'
<1>1. pc' = "idle" /\ dxSrb' = NoSrb
  BY DEF EndRun, SrbInv, DataPhaseAlone, extVars
<1> QED BY <1>1, OutOfHand

Driver == <<active, ready, stray, status, timer, late, pc, dxSrb, dxWakes,
            ReqLba, ReqCount, ReqBuf, rest>>

DriverOK ==
  /\ active \in Srbs \cup {NoSrb} /\ dxSrb \in Srbs \cup {NoSrb}
  /\ ready \in BOOLEAN /\ stray \in BOOLEAN
  /\ status \in {"none", "success", "error", "timeout", "busReset", "invalid",
                 "selection", "badFunction"}
  /\ timer \in BOOLEAN /\ late \in BOOLEAN
  /\ pc \in {"idle", "program", "sector", "commit"}
  /\ dxWakes \in 0 .. XT_COMMIT_WAKES
  /\ ReqLba \in Lba /\ ReqCount \in 0 .. MaxSectors
  /\ ReqBuf \in 0 .. MaxSectors /\ rest \in 0 .. MaxSectors

RestOK ==
  /\ srb \in Transfer
  /\ buf \in [0 .. MaxSectors - 1 -> Cells \cup {NoData}]
  /\ TryUnit \in Present /\ TotalSec \in 0 .. Word - 1
  /\ left \in 0 .. MaxSectors
  /\ CommitPending \in BOOLEAN
  /\ BSY \in BOOLEAN /\ DRQ \in BOOLEAN /\ ERR \in BOOLEAN
  /\ dOp \in {"none", "read", "write"} /\ dUnit \in Present
  /\ dLba \in 0 .. 2 * Word /\ dLeft \in 0 .. MaxSectors
  /\ dCache \subseteq Disk \X Cells
  /\ media \in [Disk -> Cells]

LEMMA Halves ==
  /\ TypeOK <=> DriverOK /\ RestOK
  /\ TypeOK' <=> DriverOK' /\ RestOK'
BY DEF TypeOK, DriverOK, RestOK

LEMMA FinishTypes ==
  ASSUME DriverOK, SrbInv, NEW s, XtFinish(s, status'), s = active
  PROVE  active' = NoSrb /\ ready' \in BOOLEAN /\ stray' \in BOOLEAN
<1>1. stray' = FALSE
  BY DEF XtFinish, SrbInv, CompletedOnce
<1> QED BY <1>1 DEF XtFinish

LEMMA EndRunTypes ==
  ASSUME DriverOK, SrbInv, NEW st \in {"error", "success"}, EndRun(st)
  PROVE  DriverOK'
<1>1. status' = st /\ XtFinish(active, status') BY DEF EndRun, XtFinish
<1>2. active' = NoSrb /\ ready' \in BOOLEAN /\ stray' \in BOOLEAN
  BY <1>1, FinishTypes
<1>3. pc' = "idle" /\ UNCHANGED <<timer, late, dxSrb, dxWakes, ReqLba, ReqCount, ReqBuf, rest>>
  BY DEF EndRun, runVars, timerVars, extVars
<1> QED BY <1>1, <1>2, <1>3 DEF DriverOK

LEMMA ChunkTypes ==
  ASSUME NEW m \in 1 .. MaxSectors, Chunk(m)
  PROVE  /\ ReqCount' \in 1 .. MaxSectors /\ rest' \in 0 .. MaxSectors
         /\ ReqCount' + rest' = m
<1>1. CASE m <= XT_MAX_CHUNK BY <1>1, BoundFacts DEF Chunk
<1>2. CASE ~(m <= XT_MAX_CHUNK) BY <1>2, BoundFacts DEF Chunk
<1> QED BY <1>1, <1>2

(* On to the next chunk: the address moves on, and wraps at most once.      *)
LEMMA NextChunk ==
  ASSUME TypeOK, Request, InHand, rest > 0, Advance, Chunk(rest), UNCHANGED <<srb, unitVars>>
  PROVE  /\ ReqLba' \in Lba /\ ReqBuf' \in 0 .. MaxSectors
         /\ ReqBuf' = ReqBuf + ReqCount
         /\ ReqCount' \in 1 .. MaxSectors /\ rest' \in 0 .. MaxSectors
         /\ Request'
<1>1. /\ ReqBuf \in Nat /\ ReqCount \in Nat /\ ReqLba \in Nat /\ ReqLba < Word
      /\ srb \in Transfer /\ rest \in 1 .. MaxSectors
  BY BoundFacts DEF TypeOK, Lba
<1>2. srb.lba \in Nat /\ srb.lba < Word /\ srb.n \in Nat /\ srb.n <= MaxSectors
  BY <1>1, SrbFacts, BoundFacts
<1>3. ReqCount' \in 1 .. MaxSectors /\ rest' \in 0 .. MaxSectors /\ ReqCount' + rest' = rest
  BY <1>1, ChunkTypes
<1>4. ReqBuf' = ReqBuf + ReqCount /\ ReqLba' = (ReqLba + ReqCount) % Word
  BY DEF Advance
<1>5. ReqBuf + ReqCount + rest = srb.n BY DEF Request
<1>6. ReqLba' \in Lba BY <1>1, <1>4, ModRange, BoundFacts DEF Lba
<1>7. ReqLba + ReqCount \in Nat /\ ReqLba + ReqCount < Word + Word
  BY <1>1, <1>2, <1>5, BoundFacts
<1>8. \/ ReqLba' = ReqLba + ReqCount
      \/ ReqLba' + Word = ReqLba + ReqCount /\ Word <= ReqLba + ReqCount
  <2>1. CASE ReqLba + ReqCount < Word
    <3>1. (ReqLba + ReqCount) % Word = ReqLba + ReqCount
      BY ONLY <1>7, <2>1, ModSmall, BoundFacts
    <3> QED BY <1>4, <3>1
  <2>2. CASE Word <= ReqLba + ReqCount
    <3>1. (ReqLba + ReqCount) % Word = ReqLba + ReqCount - Word
      <4>1. Word \in Nat \ {0} BY BoundFacts
      <4>2. \A x \in Nat : Word <= x /\ x < Word + Word => x % Word = x - Word
        BY ONLY <4>1, ModOnce
      <4> QED BY <1>1, <1>7, <2>2, <4>1, <4>2
    <3> QED BY <1>1, <1>4, <1>6, <2>2, <3>1, BoundFacts DEF Lba
  <2> QED BY <1>7, <2>1, <2>2, BoundFacts
<1>9. ReqLba' = srb.lba + ReqBuf' \/ ReqLba' + Word = srb.lba + ReqBuf'
  <2>1. CASE ReqLba = srb.lba + ReqBuf
    BY <1>1, <1>2, <1>4, <1>6, <1>8, <2>1, BoundFacts DEF Lba
  <2>2. CASE ReqLba + Word = srb.lba + ReqBuf
    BY <1>1, <1>2, <1>4, <1>5, <1>6, <1>8, <2>2, BoundFacts DEF Lba
  <2> QED BY <2>1, <2>2 DEF Request
<1>10. Request'
  <2>1. TryUnit' = TryUnit /\ TotalSec' = TotalSec /\ srb' = srb BY DEF unitVars
  <2>2. ReqCount' > 0 /\ ReqBuf' + ReqCount' + rest' = srb.n
    <3>1. MaxSectors \in Nat BY BoundFacts
    <3>2. ReqCount' \in Nat /\ rest' \in Nat /\ ReqCount' > 0
      BY ONLY <1>3, <3>1
    <3>3. ReqBuf' = ReqBuf + ReqCount BY <1>4
    <3>4. ReqBuf \in Nat /\ ReqCount \in Nat /\ rest \in Nat BY <1>1, <3>1
    <3>5. ReqCount' + rest' = rest BY <1>3
    <3>6. ReqBuf' \in Nat /\ ReqBuf' + (ReqCount' + rest') = srb.n
      BY ONLY <1>5, <3>3, <3>4, <3>5
    <3> QED BY ONLY <3>2, <3>6
  <2> QED BY <1>9, <2>1, <2>2 DEF Request
<1>11. ReqBuf' \in 0 .. MaxSectors
  BY <1>1, <1>2, <1>4, <1>5, BoundFacts
<1> QED BY <1>3, <1>4, <1>6, <1>10, <1>11
(* Out of a chunk: to the next one, to the timer, or to the end.            *)
LEMMA EndChunkNext ==
  ASSUME XInv, pc \in {"sector", "commit"}, EndChunk, left' = 0, UNCHANGED <<srb, unitVars>>,
         CommitPending' => dLeft' = 0 /\ IsWrite /\ rest = 0
  PROVE  DriverOK' /\ Request' /\ Sector'
<1>1. TypeOK /\ DriverOK /\ SrbInv /\ Request /\ InHand
  BY Halves DEF XInv, InHand
<1>2. dxSrb = NoSrb /\ active # NoSrb
  BY <1>1 DEF SrbInv, DataPhaseAlone
<1>3. CASE rest > 0
  <2>1. Advance /\ Chunk(rest) /\ pc' = "program" /\ UNCHANGED <<portVars, extVars, timerVars>>
    BY <1>3 DEF EndChunk
  <2>2. /\ ReqLba' \in Lba /\ ReqBuf' \in 0 .. MaxSectors
        /\ ReqCount' \in 1 .. MaxSectors /\ rest' \in 0 .. MaxSectors /\ Request'
    BY <1>1, <1>3, <2>1, NextChunk
  <2>3. DriverOK' BY <1>1, <2>1, <2>2, BoundFacts DEF DriverOK, portVars, extVars, timerVars
  <2>4. ~CommitPending' BY <1>1, <1>3, BoundFacts DEF TypeOK
  <2> QED BY <1>2, <2>1, <2>2, <2>3, <2>4 DEF Sector, extVars
<1>4. CASE ~(rest > 0) /\ CommitPending'
  <2>1. Yield /\ pc' = "idle" /\ UNCHANGED runVars
    BY <1>4 DEF EndChunk
  <2>2. DriverOK'
    BY <1>1, <2>1, BoundFacts DEF DriverOK, Yield, RequestTimerCall, portVars, runVars
  <2>3. Request'
    BY <1>1, <2>1 DEF Request, runVars, unitVars
  <2>4. rest' = 0 BY <1>1, <1>4, <2>1, BoundFacts DEF DriverOK, runVars
  <2>5. IsWrite' /\ dxWakes' < XT_COMMIT_WAKES
    BY <1>4, <2>1, BoundFacts DEF IsWrite, Yield
  <2> QED BY <1>4, <2>1, <2>2, <2>3, <2>4, <2>5 DEF Sector
<1>5. CASE ~(rest > 0) /\ ~CommitPending'
  <2>1. EndRun("success") BY <1>5 DEF EndChunk
  <2> QED BY <1>1, <2>1, EndRunTypes, EndRunFrees
<1> QED BY <1>3, <1>4, <1>5

-----------------------------------------------------------------------------
(* The actions, one by one.                                                 *)
LEMMA AnswerFacts ==
  ASSUME NEW r \in Transfer \cup Other, NEW t
  PROVE  /\ Answer(r, t) \in {"success", "invalid", "selection", "badFunction", "transfer"}
         /\ Answer(r, t) = "transfer" =>
              /\ r \in Transfer /\ Selects(r) /\ r.n # 0 /\ ~OutOfBounds(r, t)
<1>1. r.op \in {"read", "write", "reply", "nothing", "unknown", "function", "badFunction"}
  BY DEF Transfer, Other
<1>2. CASE Executes(r) /\ ~Selects(r)
  BY <1>2 DEF Answer
<1>3. CASE r.op \in {"read", "write"} /\ Selects(r)
  <2>1. r \in Transfer BY <1>3 DEF Other
  <2> QED BY <1>3, <2>1 DEF Answer, Selects
<1>4. CASE r.op \notin {"read", "write"} /\ ~(Executes(r) /\ ~Selects(r))
  BY <1>1, <1>4 DEF Answer
<1> QED BY <1>1, <1>2, <1>3, <1>4 DEF Executes

LEMMA StartIoStep ==
  ASSUME XInv, NEW s \in Srbs, NEW r \in Transfer \cup Other, XtStartIo(s, r)
  PROVE  TypeOK' /\ Request' /\ Drives' /\ Sector' /\ Homes'
<1>1. TypeOK /\ DriverOK /\ RestOK /\ SrbInv /\ Request /\ Drives /\ Sector /\ Homes
  BY Halves DEF XInv
<1>2. dxSrb = NoSrb /\ dxSrb' = NoSrb /\ pc = "idle"
  BY <1>1 DEF XtStartIo, SrbInv, CompletedOnce, extVars
<1>3. TryUnit' \in Present /\ TotalSec' = UnitTotal[TryUnit']
  BY <1>1 DEF XtStartIo, SelectUnit, Selects, Request, TypeOK, unitVars
<1>4. TotalSec' \in 0 .. Word - 1
  BY <1>3, UnitFacts, BoundFacts
<1>5. Drives' /\ Homes'
  BY <1>1 DEF XtStartIo, Drives, Homes, driveVars
<1>6. CASE Answer(r, TotalSec') = "transfer"
  <2>1. /\ active' = s /\ ready' = FALSE /\ pc' = "program"
        /\ ReqLba' = r.lba /\ ReqBuf' = 0 /\ Chunk(r.n)
        /\ CommitPending' = FALSE /\ srb' = r
        /\ buf' = [i \in 0 .. MaxSectors - 1 |-> NoData]
        /\ UNCHANGED <<status, stray, timerVars, extVars, left, driveVars, media>>
    BY <1>6 DEF XtStartIo
  <2>2. /\ r \in Transfer /\ r.unit \in Present /\ r.n # 0 /\ ~OutOfBounds(r, TotalSec')
        /\ Selects(r)
    BY <1>6, AnswerFacts DEF Selects
  <2>3. r.lba \in Nat /\ r.lba < Word /\ r.n \in 1 .. MaxSectors
    BY <2>2, SrbFacts, BoundFacts
  <2>4. TryUnit' = r.unit
    BY <2>2 DEF XtStartIo, SelectUnit
  <2>5. ReqCount' \in 1 .. MaxSectors /\ rest' \in 0 .. MaxSectors /\ ReqCount' + rest' = r.n
    BY <2>1, <2>3, ChunkTypes
  <2>6. TotalSec' # 0 => r.lba + r.n <= TotalSec'
    <3>1. r.lba + r.n \in Nat /\ Word \in Nat \ {0} BY <2>3, BoundFacts
    <3>2. r.lba + r.n < Word => (r.lba + r.n) % Word = r.lba + r.n
      BY ONLY <3>1, ModSmall
    <3>3. (r.lba + r.n) % Word \in Nat BY ONLY <3>1, ModRange
    <3> QED BY <1>4, <2>2, <3>1, <3>2, <3>3 DEF OutOfBounds
  <2>7. Request'
    BY <1>3, <2>1, <2>3, <2>4, <2>5, <2>6, BoundFacts DEF Request
  <2>8. Sector' BY <1>2, <2>1 DEF Sector
  <2>9. DriverOK'
    <3>1. ReqLba' \in Lba /\ ReqBuf' \in 0 .. MaxSectors /\ ReqCount' \in 0 .. MaxSectors
      BY <2>1, <2>3, <2>5, BoundFacts DEF Lba
    <3>2. UNCHANGED <<status, stray, timer, late, dxSrb, dxWakes>>
      BY <2>1 DEF timerVars, extVars
    <3> QED BY <1>1, <2>1, <2>5, <3>1, <3>2 DEF DriverOK
  <2>10. RestOK'
    BY <1>1, <1>3, <1>4, <2>1, <2>2 DEF RestOK, driveVars
  <2> QED BY <1>5, <2>7, <2>8, <2>9, <2>10, Halves
<1>7. CASE Answer(r, TotalSec') # "transfer"
  <2>1. /\ status' = Answer(r, TotalSec')
        /\ UNCHANGED <<active, ready, stray, pc, runVars, CommitPending, srb, buf,
                       timerVars, extVars, left, driveVars, media>>
    BY <1>7 DEF XtStartIo
  <2>2. status' \in {"success", "invalid", "selection", "badFunction"}
    BY <1>7, <2>1, AnswerFacts
  <2>3. Request' /\ Sector' BY <1>2, <1>3, <2>1 DEF Request, Sector, InHand
  <2>4. DriverOK' BY <1>1, <2>1, <2>2 DEF DriverOK, timerVars, extVars, runVars
  <2>5. RestOK' BY <1>1, <1>3, <1>4, <2>1 DEF RestOK, driveVars
  <2> QED BY <1>5, <2>3, <2>4, <2>5, Halves
<1> QED BY <1>6, <1>7

LEMMA ProgramStep ==
  ASSUME XInv, ProgramTaskfile
  PROVE  TypeOK' /\ Request' /\ Drives' /\ Sector' /\ Homes'
<1>1. TypeOK /\ DriverOK /\ RestOK /\ SrbInv /\ Request /\ Drives /\ Sector /\ Homes
  BY Halves DEF XInv
<1>2. pc = "program" /\ InHand /\ UNCHANGED <<srb, unitVars, media, buf, CommitPending>>
  BY DEF ProgramTaskfile, InHand, ioRest
<1>3. CASE EndRun("error") /\ UNCHANGED <<left, driveVars>>
  <2>1. DriverOK' BY <1>1, <1>3, EndRunTypes
  <2>2. Request' /\ Sector' BY <1>1, <1>2, <1>3, EndRunFrees
  <2>3. Drives' /\ Homes' /\ RestOK'
    BY <1>1, <1>2, <1>3 DEF Drives, Homes, RestOK, driveVars, unitVars
  <2> QED BY <2>1, <2>2, <2>3, Halves
<1>4. CASE ~EndRun("error") \/ ~UNCHANGED <<left, driveVars>>
  <2>1. /\ BSY' = TRUE /\ DRQ' = FALSE /\ ERR' = FALSE
        /\ dOp' = srb.op /\ dUnit' = TryUnit
        /\ dLba' = Start /\ dLeft' = ReqCount /\ dCache' = {}
        /\ left' = ReqCount /\ pc' = "sector"
        /\ UNCHANGED <<portVars, timerVars, extVars, runVars>>
    BY <1>4 DEF ProgramTaskfile, Start
  <2>2. Start \in Nat /\ Start < Reach[TryUnit] /\ TryUnit \in Present
    BY <1>1, <1>2, StartFacts DEF TypeOK
  <2>3. Start \in 0 .. 2 * Word BY <2>2, UnitFacts, BoundFacts
  <2>4. srb.op \in {"read", "write"} BY <1>1, SrbFacts DEF RestOK
  <2>5. DriverOK'
    BY <1>1, <2>1 DEF DriverOK, portVars, timerVars, extVars, runVars
  <2>6. RestOK'
    BY <1>1, <1>2, <2>1, <2>2, <2>3, <2>4 DEF RestOK, DriverOK, unitVars
  <2>7. Request'
    BY <1>1, <1>2, <2>1 DEF Request, runVars, unitVars
  <2>8. Drives' /\ Homes' BY <1>1, <1>2, <2>1, <2>4 DEF Drives, Homes
  <2>9. dxSrb' = NoSrb
    BY <1>1, <1>2, <2>1 DEF SrbInv, DataPhaseAlone, extVars
  <2>10. Start' + ReqCount' - left' = Start /\ ReqCount' = ReqCount /\ ReqCount > 0
    BY <1>1, <1>2, <2>1, <2>2, BoundFacts DEF Start, runVars, unitVars, DriverOK, Request
  <2>11. ~CommitPending' BY <1>1, <1>2 DEF Sector
  <2>12. Sector'
    BY <1>1, <1>2, <2>1, <2>9, <2>10, <2>11, BoundFacts DEF Sector, DriverOK, unitVars
  <2> QED BY <2>5, <2>6, <2>7, <2>8, <2>12, Halves
<1> QED BY <1>3, <1>4

(* The sector at hand: where the drive is, and where it belongs.            *)
LEMMA AtHand ==
  ASSUME XInv, pc = "sector", DRQ
  PROVE  /\ left \in 1 .. MaxSectors /\ left <= ReqCount /\ dLeft = left /\ dOp = srb.op
         /\ ReqCount - left \in 0 .. ReqCount - 1
         /\ <<dUnit, dLba>> = <<TryUnit, Start + (ReqCount - left)>>
         /\ <<dUnit, dLba>> \in Disk
         /\ dUnit \in Present /\ dLba \in 0 .. Word - 1
         /\ Index = ReqBuf + (ReqCount - left)
         /\ Index \in 0 .. srb.n - 1 /\ srb.n <= MaxSectors
<1>1. TypeOK /\ Request /\ Drives /\ Sector /\ InHand BY DEF XInv, InHand
<1>2. /\ dOp # "none" /\ <<dUnit, dLba>> \in Disk
  BY <1>1 DEF Drives
<1>3. /\ left \in 1 .. MaxSectors /\ left <= ReqCount
      /\ ReqCount \in Nat /\ ReqBuf \in Nat /\ rest \in Nat
  BY <1>1, BoundFacts DEF Sector, TypeOK
<1>4. /\ dOp = srb.op /\ dUnit = TryUnit /\ dLeft = left /\ dLba = Start + ReqCount - left
  BY <1>1, <1>2 DEF Sector
<1>5. Start \in Nat BY <1>1, StartFacts
<1>6. dLba = Start + (ReqCount - left) /\ ReqCount - left \in 0 .. ReqCount - 1
  BY <1>3, <1>4, <1>5, BoundFacts
<1>7. dUnit \in Present /\ dLba \in 0 .. Word - 1 BY <1>2, DiskFacts
<1>8. ReqBuf + ReqCount + rest = srb.n /\ srb.n \in Nat /\ srb.n <= MaxSectors
  BY <1>1, SrbFacts, BoundFacts DEF Request, TypeOK
<1>9. Index = ReqBuf + (ReqCount - left) /\ Index \in 0 .. srb.n - 1
  BY <1>3, <1>8, BoundFacts DEF Index
<1> QED BY <1>2, <1>3, <1>4, <1>6, <1>7, <1>8, <1>9

(* A sector has moved, and more of the chunk are to come.                   *)
LEMMA MidChunk ==
  ASSUME XInv, pc = "sector", DRQ, left > 1, pc' = "sector", left' = left - 1,
         dLeft' = dLeft - 1, dLba' = dLba + 1,
         UNCHANGED <<srb, unitVars, runVars, extVars, CommitPending, dOp, dUnit>>
  PROVE  Request' /\ Sector'
<1>1. TypeOK /\ Request /\ Sector /\ InHand /\ SrbInv BY DEF XInv, InHand
<1>2. /\ left \in 1 .. MaxSectors /\ left <= ReqCount /\ dLeft = left /\ dOp = srb.op
      /\ dUnit = TryUnit /\ dLba = Start + (ReqCount - left)
  BY AtHand
<1>3. Request' BY <1>1 DEF Request, runVars, unitVars
<1>4. Start' = Start /\ ReqCount' = ReqCount /\ ReqCount \in Nat /\ Start \in Nat
  BY <1>1, StartFacts, BoundFacts DEF Start, runVars, unitVars, TypeOK
<1>5. dxSrb' = NoSrb /\ ~CommitPending'
  BY <1>1 DEF SrbInv, DataPhaseAlone, extVars, Sector
<1>6. /\ left' > 0 /\ left' <= ReqCount' /\ dLeft' = left'
      /\ dLba' = Start' + ReqCount' - left'
  BY <1>2, <1>4, BoundFacts
<1> QED BY <1>2, <1>3, <1>5, <1>6 DEF Sector, unitVars

LEMMA ReadStep ==
  ASSUME XInv, ReadData
  PROVE  TypeOK' /\ Request' /\ Drives' /\ Sector' /\ Homes'
<1>1. TypeOK /\ DriverOK /\ RestOK /\ SrbInv /\ Request /\ Drives /\ Sector /\ Homes
  BY Halves DEF XInv
<1>2. /\ pc = "sector" /\ DRQ /\ ~BSY /\ DRQ' = FALSE /\ left' = left - 1
      /\ UNCHANGED <<srb, unitVars, media, ERR, dCache, CommitPending>>
  BY DEF ReadData, DataReady, ioRest
<1>3. /\ left \in 1 .. MaxSectors /\ dLeft = left /\ dOp = srb.op
      /\ <<dUnit, dLba>> \in Disk /\ dUnit \in Present /\ dLba \in 0 .. Word - 1
  BY <1>2, AtHand
<1>4. buf' \in [0 .. MaxSectors - 1 -> Cells \cup {NoData}]
  <2>1. media[<<dUnit, dLba>>] \in Cells BY <1>1, <1>3 DEF RestOK
  <2> QED BY <1>1, <2>1 DEF ReadData, RestOK
<1>5. left' \in 0 .. MaxSectors BY <1>2, <1>3, BoundFacts
<1>6. ~IsWrite /\ dOp \in {"read", "write"} /\ dOp # "none"
  BY <1>1, <1>3, SrbFacts DEF ReadData, RestOK
<1>7. Homes' BY <1>1, <1>2 DEF Homes
<1>8. CASE left > 1
  <2>1. /\ BSY' = TRUE /\ dLba' = dLba + 1 /\ dLeft' = dLeft - 1 /\ UNCHANGED <<dOp, dUnit>>
        /\ UNCHANGED <<pc, portVars, extVars, timerVars, runVars>>
    BY <1>3, <1>8 DEF ReadData
  <2>2. Request' /\ Sector' BY <1>2, <1>8, <2>1, MidChunk
  <2>3. DriverOK' BY <1>1, <2>1 DEF DriverOK, portVars, extVars, timerVars, runVars
  <2>4. dLba' \in 0 .. 2 * Word /\ dLeft' \in 0 .. MaxSectors
    BY <1>3, <1>8, <2>1, BoundFacts
  <2>5. RestOK' BY <1>1, <1>2, <1>4, <1>5, <2>1, <2>4 DEF RestOK, unitVars
  <2>6. Drives' BY <1>1, <1>2, <1>6, <2>1 DEF Drives
  <2> QED BY <1>7, <2>2, <2>3, <2>5, <2>6, Halves
<1>9. CASE ~(left > 1)
  <2>1. BSY' = FALSE /\ DriveIdle /\ EndChunk
    BY <1>3, <1>9 DEF ReadData
  <2>2. left' = 0 BY <1>2, <1>3, <1>9, BoundFacts
  <2>3. ~CommitPending' BY <1>1, <1>2 DEF Sector
  <2>4. DriverOK' /\ Request' /\ Sector' BY <1>2, <2>1, <2>2, <2>3, EndChunkNext
  <2>5. RestOK'
    <3>1. /\ dOp' = "none" /\ dUnit' \in Present
          /\ dLba' \in 0 .. 2 * Word /\ dLeft' \in 0 .. MaxSectors
      BY <2>1, BoundFacts DEF DriveIdle
    <3> QED BY <1>1, <1>2, <1>4, <1>5, <2>1, <3>1 DEF RestOK, unitVars
  <2>6. Drives' BY <1>1, <1>2, <1>3, <1>6, <2>1 DEF Drives, DriveIdle, IsWrite
  <2> QED BY <1>7, <2>4, <2>5, <2>6, Halves
<1> QED BY <1>8, <1>9

LEMMA WriteStep ==
  ASSUME XInv, WriteData
  PROVE  TypeOK' /\ Request' /\ Drives' /\ Sector' /\ Homes'
<1>1. TypeOK /\ DriverOK /\ RestOK /\ SrbInv /\ Request /\ Drives /\ Sector /\ Homes
      /\ InHand
  BY Halves DEF XInv, InHand, WriteData
<1>2. /\ pc = "sector" /\ DRQ /\ IsWrite /\ BSY' = TRUE /\ DRQ' = FALSE
      /\ dCache' = dCache \cup {<<<<dUnit, dLba>>, Wanted(Index)>>}
      /\ left' = left - 1 /\ dLba' = dLba + 1 /\ dLeft' = dLeft - 1
      /\ pc' = IF left > 1 THEN "sector" ELSE "commit"
      /\ UNCHANGED <<srb, unitVars, media, portVars, extVars, timerVars, runVars, buf,
                     CommitPending, ERR, dOp, dUnit>>
  BY DEF WriteData, DataReady, ioRest
<1>3. /\ left \in 1 .. MaxSectors /\ left <= ReqCount /\ dLeft = left /\ dOp = srb.op
      /\ ReqCount - left \in 0 .. ReqCount - 1
      /\ <<dUnit, dLba>> = <<TryUnit, Start + (ReqCount - left)>>
      /\ <<dUnit, dLba>> \in Disk /\ dUnit \in Present /\ dLba \in 0 .. Word - 1
      /\ Index = ReqBuf + (ReqCount - left)
      /\ Index \in 0 .. srb.n - 1 /\ srb.n <= MaxSectors
  BY <1>2, AtHand
<1>4. srb.unit = dUnit /\ srb.lba \in 0 .. Word - 1 /\ srb.v \in Versions /\ srb.n \in Nat
      /\ dOp = "write"
  BY <1>1, <1>2, <1>3, SrbFacts, BoundFacts DEF RestOK, Request, IsWrite
<1>5. srb.lba + Index \in 0 .. 2 * Word BY <1>3, <1>4, BoundFacts
<1>6. Wanted(Index) \in Cells BY <1>3, <1>4, <1>5, CellFacts DEF Wanted
<1>7. /\ left' \in 0 .. MaxSectors /\ dLeft' \in 0 .. MaxSectors /\ dLba' \in 0 .. 2 * Word
  BY <1>2, <1>3, BoundFacts
<1>8. DriverOK'
  BY <1>1, <1>2 DEF DriverOK, portVars, extVars, timerVars, runVars
<1>9. RestOK'
  <2>1. dCache' \subseteq Disk \X Cells
    BY <1>1, <1>2, <1>3, <1>6 DEF RestOK
  <2> QED BY <1>1, <1>2, <1>7, <2>1 DEF RestOK, unitVars
<1>10. Drives' BY <1>1, <1>2, <1>4 DEF Drives
<1>11. Belongs(<<dUnit, dLba>>, At(Index))
  BY <1>1, <1>3, RightPlace
<1>12. Homes'
  BY <1>1, <1>2, <1>11 DEF Homes, Wanted, At
<1>13. Request' /\ Sector'
  <2>1. CASE left > 1 BY <1>2, <2>1, MidChunk
  <2>2. CASE ~(left > 1)
    <3>1. Request' BY <1>1, <1>2 DEF Request, runVars, unitVars
    <3>2. pc' = "commit" /\ left' = 0 /\ dLeft' = 0 BY <1>2, <1>3, <2>2, BoundFacts
    <3>3. dxSrb' = NoSrb /\ ~CommitPending'
      BY <1>1, <1>2 DEF SrbInv, DataPhaseAlone, extVars, Sector
    <3> QED BY <1>2, <3>1, <3>2, <3>3 DEF Sector, IsWrite
  <2> QED BY <2>1, <2>2
<1> QED BY <1>8, <1>9, <1>10, <1>12, <1>13, Halves

LEMMA NoDrqStep ==
  ASSUME XInv, NoDrq
  PROVE  TypeOK' /\ Request' /\ Drives' /\ Sector' /\ Homes'
<1>1. TypeOK /\ DriverOK /\ RestOK /\ SrbInv /\ Request /\ Drives /\ Homes
  BY Halves DEF XInv
<1>2. /\ pc = "sector" /\ EndRun("error") /\ left' = 0
      /\ UNCHANGED <<srb, unitVars, media, buf, CommitPending, driveVars>>
  BY DEF NoDrq, ioRest
<1>3. DriverOK' BY <1>1, <1>2, EndRunTypes
<1>4. Request' /\ Sector' BY <1>1, <1>2, EndRunFrees
<1>5. RestOK' BY <1>1, <1>2, BoundFacts DEF RestOK, unitVars, driveVars
<1>6. Drives' /\ Homes' BY <1>1, <1>2 DEF Drives, Homes, driveVars
<1> QED BY <1>3, <1>4, <1>5, <1>6, Halves

LEMMA CommitStep ==
  ASSUME XInv, Committed \/ StillCommitting
  PROVE  TypeOK' /\ Request' /\ Drives' /\ Sector' /\ Homes'
<1>1. TypeOK /\ DriverOK /\ RestOK /\ SrbInv /\ Request /\ Drives /\ Sector /\ Homes
  BY Halves DEF XInv
<1>2. /\ pc = "commit"
      /\ EndRun("error") \/ EndChunk
      /\ CommitPending' = CommitPending \/ (CommitPending' = TRUE /\ DeferOk)
      /\ UNCHANGED <<srb, unitVars, media, buf, left, driveVars>>
  BY DEF Committed, StillCommitting, ioRest
<1>3. left' = 0 /\ dLeft' = 0 /\ IsWrite /\ ~CommitPending
  BY <1>1, <1>2 DEF Sector, driveVars
<1>4. DriverOK' /\ Request' /\ Sector'
  <2>1. CASE EndRun("error") BY <1>1, <1>2, <2>1, EndRunTypes, EndRunFrees
  <2>2. CASE EndChunk
    <3>1. CommitPending' => rest = 0 BY <1>2, <1>3 DEF DeferOk
    <3> QED BY <1>2, <1>3, <2>2, <3>1, EndChunkNext
  <2> QED BY <1>2, <2>1, <2>2
<1>5. CommitPending' \in BOOLEAN BY <1>1, <1>2 DEF RestOK
<1>6. RestOK' BY <1>1, <1>2, <1>5 DEF RestOK, unitVars, driveVars
<1>7. Drives' /\ Homes' BY <1>1, <1>2 DEF Drives, Homes, driveVars
<1> QED BY <1>4, <1>6, <1>7, Halves

(* The timer and the reset let go of the SRB that is waiting, at most.      *)
LEMMA LetGo ==
  ASSUME XInv, dxSrb' \in {dxSrb, NoSrb}, UNCHANGED callRest, CommitPending' \in BOOLEAN,
         CommitPending' => CommitPending, DriverOK', dxSrb' # NoSrb => dxWakes' < XT_COMMIT_WAKES
  PROVE  TypeOK' /\ Request' /\ Drives' /\ Sector' /\ Homes'
<1>1. TypeOK /\ DriverOK /\ RestOK /\ Request /\ Drives /\ Sector /\ Homes
  BY Halves DEF XInv
<1>2. RestOK' BY <1>1 DEF RestOK, callRest, unitVars, driveVars
<1>3. Request' BY <1>1 DEF Request, InHand, callRest, unitVars, runVars
<1>4. Drives' /\ Homes' BY <1>1 DEF Drives, Homes, callRest, driveVars
<1>5. Sector'
  <2>1. Start' = Start BY DEF Start, callRest, unitVars, runVars
  <2> QED BY <1>1, <2>1 DEF Sector, IsWrite, callRest, unitVars, runVars, driveVars
<1> QED BY <1>2, <1>3, <1>4, <1>5, Halves

LEMMA TimerStep ==
  ASSUME XInv, NEW other \in BOOLEAN, HwTimer(other), UNCHANGED callRest, late' \in BOOLEAN
  PROVE  TypeOK' /\ Request' /\ Drives' /\ Sector' /\ Homes'
<1>1. TypeOK /\ DriverOK /\ RestOK /\ SrbInv BY Halves DEF XInv
<1>2. UNCHANGED <<pc, ReqLba, ReqCount, ReqBuf, rest>> BY DEF callRest, runVars
<1>3. CASE dxSrb = NoSrb
  <2>1. timer' = other /\ UNCHANGED <<active, ready, status, stray, dxSrb, dxWakes, CommitPending>>
    BY <1>3 DEF HwTimer, portVars, extVars
  <2>2. DriverOK' BY <1>1, <1>2, <2>1 DEF DriverOK
  <2> QED BY <1>1, <1>3, <2>1, <2>2, LetGo DEF RestOK
<1>4. CASE dxSrb # NoSrb
  <2>1. dxSrb = active BY <1>1, <1>4 DEF SrbInv
  <2>2. CASE BSY /\ ~LastWake /\ dxWakes' = dxWakes + 1 /\ timer' = TRUE
             /\ UNCHANGED <<portVars, dxSrb, CommitPending>>
    <3>1. dxWakes' \in 0 .. XT_COMMIT_WAKES /\ dxWakes' < XT_COMMIT_WAKES
      BY <1>1, <2>2, BoundFacts DEF DriverOK, LastWake
    <3>2. DriverOK' BY <1>1, <1>2, <2>2, <3>1 DEF DriverOK, portVars
    <3> QED BY <1>1, <2>2, <3>1, <3>2, LetGo DEF RestOK
  <2>3. CASE /\ dxWakes' \in 0 .. XT_COMMIT_WAKES /\ DropPending
             /\ \E st \in {"timeout", "error", "success"} : XtFinish(dxSrb, st)
             /\ timer' = other
    <3>1. PICK st \in {"timeout", "error", "success"} : XtFinish(dxSrb, st) BY <2>3
    <3>2. status' = st /\ XtFinish(active, status') BY <2>1, <3>1 DEF XtFinish
    <3>3. active' = NoSrb /\ ready' \in BOOLEAN /\ stray' \in BOOLEAN
      BY <1>1, <3>2, FinishTypes
    <3>4. DriverOK' BY <1>1, <1>2, <2>3, <3>2, <3>3 DEF DriverOK, DropPending
    <3> QED BY <2>3, <3>4, LetGo DEF DropPending
  <2>4. dxWakes \in 0 .. XT_COMMIT_WAKES /\ dxWakes + 1 \in 0 .. XT_COMMIT_WAKES
    BY <1>1, <1>4, BoundFacts DEF DriverOK, XInv, Sector
  <2>5. Poll(other) BY <1>4 DEF HwTimer
  <2> QED BY <2>2, <2>3, <2>4, <2>5 DEF Poll
<1> QED BY <1>3, <1>4

LEMMA ResetStep ==
  ASSUME XInv, XtResetBus
  PROVE  TypeOK' /\ Request' /\ Drives' /\ Sector' /\ Homes'
<1>1. TypeOK /\ DriverOK /\ RestOK /\ SrbInv BY Halves DEF XInv
<1>2. /\ DropPending /\ timer' = FALSE /\ late' \in BOOLEAN
      /\ status' = "busReset" /\ XtFinish(active, status')
      /\ UNCHANGED <<dxWakes, callRest>>
  BY <1>1 DEF XtResetBus, SrbInv, XtFinish, DriverOK
<1>3. active' = NoSrb /\ ready' \in BOOLEAN /\ stray' \in BOOLEAN
  BY <1>1, <1>2, FinishTypes
<1>4. DriverOK' BY <1>1, <1>2, <1>3 DEF DriverOK, DropPending, callRest, runVars
<1> QED BY <1>2, <1>4, LetGo DEF DropPending

LEMMA DriveStep ==
  ASSUME XInv, Drive
  PROVE  TypeOK' /\ Request' /\ Drives' /\ Sector' /\ Homes'
<1>1. TypeOK /\ DriverOK /\ RestOK /\ Request /\ Drives /\ Sector /\ Homes
  BY Halves DEF XInv
<1>2. UNCHANGED <<portVars, srb, timerVars, buf, pc, extVars, unitVars, runVars, left,
                  CommitPending>>
  BY DEF Drive, DriveAsks, DriveCommits, DriveFinishes, DriveFails, driveRest
<1>3. DriverOK' BY <1>1, <1>2 DEF DriverOK, portVars, timerVars, extVars, runVars
<1>4. Request' BY <1>1, <1>2 DEF Request, InHand, extVars, unitVars, runVars
<1>5. Start' = Start /\ ReqCount' = ReqCount BY <1>2 DEF Start, unitVars, runVars
<1>6. CASE DriveAsks
  <2>1. /\ BSY /\ dLeft > 0 /\ <<dUnit, dLba>> \in Disk /\ BSY' = FALSE /\ DRQ' = TRUE
        /\ UNCHANGED <<ERR, dOp, dUnit, dLba, dLeft, dCache, media>>
    BY <1>6 DEF DriveAsks
  <2>2. RestOK' BY <1>1, <1>2, <2>1 DEF RestOK, unitVars
  <2>3. Drives' /\ Homes' BY <1>1, <2>1 DEF Drives, Homes
  <2>4. Sector' BY <1>1, <1>2, <1>5, <2>1 DEF Sector, IsWrite, extVars, unitVars, runVars
  <2> QED BY <1>3, <1>4, <2>2, <2>3, <2>4, Halves
<1>7. CASE DriveCommits
  <2>1. BSY /\ UNCHANGED <<BSY, DRQ, ERR, dOp, dUnit, dLba, dLeft>>
    BY <1>7 DEF DriveCommits
  <2>2. PICK c \in dCache : /\ media' = [media EXCEPT ![c[1]] = c[2]]
                            /\ dCache' = dCache \ {c}
    BY <1>7 DEF DriveCommits
  <2>3. c[1] \in Disk /\ c[2] \in Cells /\ media \in [Disk -> Cells]
    BY <1>1 DEF RestOK
  <2>4. media' \in [Disk -> Cells] /\ dCache' \subseteq Disk \X Cells
    BY <1>1, <2>2, <2>3 DEF RestOK
  <2>5. RestOK' BY <1>1, <1>2, <2>1, <2>4 DEF RestOK, unitVars
  <2>6. Drives' BY <1>1, <2>1, <2>2 DEF Drives
  <2>7. Homes' BY <1>1, <2>2, <2>3 DEF Homes
  <2>8. Sector' BY <1>1, <1>2, <1>5, <2>1 DEF Sector, IsWrite, extVars, unitVars, runVars
  <2> QED BY <1>3, <1>4, <2>5, <2>6, <2>7, <2>8, Halves
<1>8. CASE DriveFinishes \/ DriveFails
  <2>1. /\ BSY' = FALSE /\ DriveIdle /\ UNCHANGED media
        /\ ERR' \in {ERR, TRUE} /\ DRQ' \in {DRQ, FALSE} /\ dCache' \in {dCache, {}}
        /\ BSY
    BY <1>8 DEF DriveFinishes, DriveFails, driveRest
  <2>2. /\ dOp' = "none" /\ dUnit' \in Present
        /\ dLba' \in 0 .. 2 * Word /\ dLeft' \in 0 .. MaxSectors
    BY <2>1, BoundFacts DEF DriveIdle
  <2>3. ERR' \in BOOLEAN /\ DRQ' = FALSE /\ dCache' = {}
    BY <1>1, <1>8, <2>1 DEF RestOK, Drives, DriveFinishes, DriveFails
  <2>4. RestOK' BY <1>1, <1>2, <2>1, <2>2, <2>3 DEF RestOK, unitVars
  <2>5. Drives' /\ Homes' BY <1>1, <2>1, <2>2, <2>3 DEF Drives, Homes
  <2>6. Sector'
    <3>1. pc = "sector" => left' = left BY <1>2
    <3>2. dLeft' = 0 BY <2>1 DEF DriveIdle
    <3> QED BY <1>1, <1>2, <2>2, <3>2 DEF Sector, IsWrite, extVars, unitVars, runVars
  <2> QED BY <1>3, <1>4, <2>4, <2>5, <2>6, Halves
<1> QED BY <1>6, <1>7, <1>8 DEF Drive

LEMMA XInit == Init => XInv
<1> SUFFICES ASSUME Init PROVE XInv
  OBVIOUS
<1>1. TypeOK
  <2>0. 0 \in Lba /\ 0 \in 0 .. MaxSectors /\ 0 \in 0 .. XT_COMMIT_WAKES /\ 0 \in 0 .. 2 * Word
    BY BoundFacts DEF Lba
  <2>1. DriverOK BY <2>0 DEF Init, DriverOK
  <2>2. UnitTotal[0] \in 0 .. Word - 1 BY UnitFacts, BoundFacts
  <2>3. media \in [Disk -> Cells]
    <3>1. PICK v \in Versions : media = [a \in Disk |-> <<a, v>>] BY DEF Init
    <3>2. \A a \in Disk : <<a, v>> \in Cells
      <4>1. Lba \subseteq 0 .. 2 * Word BY BoundFacts DEF Lba
      <4> QED BY <4>1 DEF Disk, Cells
    <3> QED BY <3>1, <3>2
  <2>4. srb \in Transfer BY BoundFacts DEF Init, Transfer, Lba, Unit
  <2>5. buf \in [0 .. MaxSectors - 1 -> Cells \cup {NoData}] /\ dCache \subseteq Disk \X Cells
    BY DEF Init
  <2>6. /\ TryUnit \in Present /\ TotalSec \in 0 .. Word - 1 /\ dUnit \in Present
        /\ left \in 0 .. MaxSectors /\ dLba \in 0 .. 2 * Word /\ dLeft \in 0 .. MaxSectors
    BY <2>0, <2>2, BoundFacts DEF Init
  <2>7. RestOK BY <2>3, <2>4, <2>5, <2>6 DEF Init, RestOK
  <2> QED BY <2>1, <2>7, Halves
<1>2. SrbInv BY SrbInit
<1>3. Request /\ Drives /\ Sector BY BoundFacts DEF Init, Request, Drives, Sector, InHand
<1>4. Homes BY DEF Init, Homes, Belongs
<1> QED BY <1>1, <1>2, <1>3, <1>4 DEF XInv

LEMMA XStep ==
  ASSUME XInv, [Next]_vars
  PROVE  XInv'
<1>1. SrbInv' BY SrbStep DEF XInv
<1>2. TypeOK' /\ Request' /\ Drives' /\ Sector' /\ Homes'
  <2>1. ASSUME NEW s \in Srbs, NEW r \in Transfer \cup Other, XtStartIo(s, r)
        PROVE  TypeOK' /\ Request' /\ Drives' /\ Sector' /\ Homes'
    BY <2>1, StartIoStep
  <2>2. CASE Run
    BY <2>2, ProgramStep, ReadStep, WriteStep, NoDrqStep, CommitStep DEF Run
  <2>3. CASE XtTimer
    <3>1. HwTimer(FALSE) /\ UNCHANGED callRest /\ late' \in BOOLEAN
      BY <2>3 DEF XtTimer, XInv, TypeOK
    <3> QED BY <3>1, TimerStep
  <2>4. CASE LateTimer
    <3>1. HwTimer(timer) /\ UNCHANGED callRest /\ late' \in BOOLEAN /\ timer \in BOOLEAN
      BY <2>4 DEF LateTimer, XInv, TypeOK
    <3> QED BY <3>1, TimerStep
  <2>5. CASE XtResetBus BY <2>5, ResetStep
  <2>6. CASE Drive BY <2>6, DriveStep
  <2>7. CASE UNCHANGED vars
    <3>1. TypeOK' BY <2>7 DEF XInv, TypeOK, vars, portVars, timerVars, extVars, unitVars, runVars, driveVars
    <3>2. Request' /\ Sector'
      BY <2>7 DEF XInv, Request, Sector, InHand, Start, IsWrite, vars, extVars, unitVars, runVars, driveVars
    <3>3. Drives' /\ Homes' BY <2>7 DEF XInv, Drives, Homes, vars, driveVars
    <3> QED BY <3>1, <3>2, <3>3
  <2> QED BY <2>1, <2>2, <2>3, <2>4, <2>5, <2>6, <2>7 DEF Next
<1> QED BY <1>1, <1>2 DEF XInv

LEMMA XAlways == Spec => []XInv
BY XInit, XStep, PTL DEF Spec

-----------------------------------------------------------------------------
(* Every variable stays in its range; the drive's address never runs past  *)
(* the sum of a wrapped LBA and a chunk (XTIDETR.ASM:1653-1711).           *)
THEOREM XtTyped == Spec => []TypeOK
<1>1. XInv => TypeOK BY DEF XInv
<1> QED BY <1>1, XAlways, PTL

(* On a unit with an LBA28 capacity every command stays on the medium and   *)
(* on the unit the SRB names (XtStartIo's bound, XTIDE_SelectUnit).         *)
THEOREM OnMedium == Spec => []CommandOnMedium
<1>1. ASSUME XInv PROVE CommandOnMedium
  <2>1. TypeOK /\ Request /\ Sector BY <1>1 DEF XInv
  <2>2. SUFFICES ASSUME pc = "sector", dOp # "none", UnitTotal[dUnit] # 0
                 PROVE  dUnit = srb.unit /\ dLba + dLeft <= Capacity[dUnit]
    BY DEF CommandOnMedium
  <2>3. InHand BY <2>2 DEF InHand
  <2>4. dUnit = TryUnit /\ dLeft = left /\ dLba = Start + ReqCount - left
    BY <2>1, <2>2 DEF Sector
  <2>5. /\ TryUnit \in Present /\ left \in Nat /\ ReqCount \in Nat /\ ReqCount > 0
        /\ ReqBuf \in Nat /\ rest \in Nat /\ srb.lba \in Nat
        /\ ReqBuf + ReqCount + rest = srb.n
    BY <2>1, <2>3, SrbFacts, BoundFacts DEF TypeOK, Request
  <2>6. srb.lba + srb.n <= Capacity[TryUnit] /\ Start \in Nat
    BY <2>1, <2>2, <2>3, <2>4, StartFacts
  <2>7. srb.lba + ReqBuf < Reach[TryUnit] BY <2>5, <2>6, UnitFacts
  <2>8. Start = srb.lba + ReqBuf BY <2>1, <2>3, <2>7, StartFacts
  <2>9. dUnit = srb.unit BY <2>1, <2>3, <2>4 DEF Request
  <2>10. dLba + dLeft = Start + ReqCount BY <2>4, <2>5, <2>6
  <2>11. Capacity[TryUnit] \in Nat BY <2>5, UnitFacts
  <2> QED BY <2>4, <2>5, <2>6, <2>8, <2>9, <2>10, <2>11
<1> QED BY <1>1, XAlways, PTL

(* Nothing is written where it does not belong, whatever fails, times out   *)
(* or is reset (XTIDE_XferRun's chunks, xsi_nobound).                       *)
THEOREM InPlace == Spec => []NothingMisplaced
<1>1. XInv => NothingMisplaced BY DEF XInv, Homes, Belongs, NothingMisplaced
<1> QED BY <1>1, XAlways, PTL

-----------------------------------------------------------------------------
(* Reads.                                                                   *)
LEMMA ReadMoves ==
  ASSUME XInv, Read, ReadData
  PROVE  /\ \A i \in 0 .. Index : At(i) \in Disk => buf'[i] = media[At(i)]
         /\ dCache = {} /\ Index \in Nat /\ left \in Nat
<1>1. pc = "sector" /\ DRQ /\ ~IsWrite /\ InHand
      /\ buf' = [buf EXCEPT ![Index] = media[<<dUnit, dLba>>]]
  BY DEF ReadData, DataReady, InHand
<1>2. TypeOK /\ Request /\ Drives BY DEF XInv
<1>3. /\ ReqCount - left \in 0 .. ReqCount - 1 /\ Index = ReqBuf + (ReqCount - left)
      /\ <<dUnit, dLba>> = <<TryUnit, Start + (ReqCount - left)>> /\ <<dUnit, dLba>> \in Disk
      /\ Index \in 0 .. srb.n - 1 /\ srb.n <= MaxSectors /\ dOp = srb.op /\ left \in 1 .. MaxSectors
  BY <1>1, AtHand
<1>4. At(Index) \in Disk => At(Index) = <<dUnit, dLba>>
  BY <1>1, <1>2, <1>3, RightPlace
<1>5. /\ srb.n \in Nat /\ Index \in Nat /\ left \in Nat /\ Index \in 0 .. MaxSectors - 1
  BY <1>2, <1>3, SrbFacts, BoundFacts DEF TypeOK
<1>6. Moved = Index BY <1>1 DEF Moved
<1>7. \A i \in 0 .. Index - 1 : At(i) \in Disk => buf[i] = media[At(i)]
  BY <1>1, <1>6 DEF Read
<1>8. buf \in [0 .. MaxSectors - 1 -> Cells \cup {NoData}] BY <1>2 DEF TypeOK
<1>9. ASSUME NEW i \in 0 .. Index, At(i) \in Disk PROVE buf'[i] = media[At(i)]
  <2>1. CASE i = Index BY <1>1, <1>4, <1>5, <1>8, <1>9, <2>1
  <2>2. CASE i # Index
    <3>1. i \in 0 .. Index - 1 /\ i \in 0 .. MaxSectors - 1 BY <1>5, <2>2, BoundFacts
    <3> QED BY <1>1, <1>7, <1>8, <1>9, <2>2, <3>1
  <2> QED BY <2>1, <2>2
<1>10. dCache = {}
  BY <1>1, <1>2, <1>3 DEF Drives, IsWrite
<1> QED BY <1>5, <1>9, <1>10

LEMMA ReadStay ==
  ASSUME Read, InHand' => InHand /\ Moved' = Moved, UNCHANGED <<srb, buf, media>>,
         InHand /\ ~IsWrite /\ (pc' # "program" \/ ReqBuf' > 0) => dCache' = {} \/ ~BSY'
  PROVE  Read'
BY DEF Read, At, IsWrite

(* One more sector moved, and it is what the medium holds: the read is     *)
(* still a read of the medium.                                             *)
LEMMA ReadGrows ==
  ASSUME Index \in Int, Moved' = Index + 1, UNCHANGED <<srb, media>>, dCache' = {},
         \A i \in 0 .. Index : At(i) \in Disk => buf'[i] = media[At(i)]
  PROVE  Read'
<1>1. \A i : At(i)' = At(i) BY DEF At
<1>2. 0 .. Moved' - 1 = 0 .. Index BY ONLY Index \in Int, Moved' = Index + 1
<1>3. \A i \in 0 .. Moved' - 1 : At(i)' \in Disk => buf'[i] = media'[At(i)']
  BY <1>1, <1>2
<1> QED BY <1>3 DEF Read

LEMMA ReadKept ==
  ASSUME XInv, Read, [Next]_vars
  PROVE  Read'
<1>1. TypeOK /\ SrbInv /\ Request /\ Drives /\ Sector BY DEF XInv
<1>2. ASSUME NEW s \in Srbs, NEW r \in Transfer \cup Other, XtStartIo(s, r)
      PROVE  Read'
  <2>1. dxSrb' = NoSrb /\ pc = "idle"
    BY <1>1, <1>2 DEF XtStartIo, SrbInv, CompletedOnce, extVars
  <2>2. pc' = "idle" \/ (pc' = "program" /\ ReqBuf' = 0)
    BY <1>2, <2>1 DEF XtStartIo
  <2> QED BY <2>1, <2>2 DEF Read, InHand, Moved
<1>3. CASE ProgramTaskfile
  <2>1. CASE EndRun("error") BY <1>1, <1>3, <2>1, EndRunFrees DEF ProgramTaskfile, ioRest
  <2>2. CASE ~EndRun("error")
    <3>1. /\ pc = "program" /\ pc' = "sector" /\ left' = ReqCount /\ dCache' = {}
          /\ UNCHANGED <<srb, buf, media, runVars>>
      BY <1>3, <2>2 DEF ProgramTaskfile, ioRest
    <3>2. Moved' = Moved
      BY <1>1, <3>1, BoundFacts DEF Moved, Index, runVars, TypeOK
    <3> QED BY <3>1, <3>2, ReadStay DEF InHand
  <2> QED BY <2>1, <2>2
<1>4. CASE ReadData
  <2>1. /\ \A i \in 0 .. Index : At(i) \in Disk => buf'[i] = media[At(i)]
        /\ dCache = {} /\ Index \in Nat /\ left \in Nat
    BY <1>4, ReadMoves
  <2>2. /\ pc = "sector" /\ left' = left - 1 /\ UNCHANGED <<srb, unitVars, media, dCache, CommitPending>>
    BY <1>4 DEF ReadData, ioRest
  <2>3. CASE left > 1
    <3>1. pc' = "sector" /\ UNCHANGED runVars BY <1>4, <2>2, <2>3 DEF ReadData
    <3>2. Moved' = Index'
      BY ONLY <3>1 DEF Moved, Index
    <3>3. ReqBuf \in Nat /\ ReqCount \in Nat
      BY <1>1, BoundFacts DEF TypeOK
    <3>4. Moved' = Index + 1
      BY ONLY <2>1, <2>2, <3>1, <3>2, <3>3 DEF Index, runVars
    <3>5. Index \in Int BY <2>1
    <3> QED BY <2>1, <2>2, <3>4, <3>5, ReadGrows
  <2>4. CASE ~(left > 1)
    <3>1. EndChunk /\ left > 0 BY <1>1, <1>4, <2>2, <2>4 DEF ReadData, Sector
    <3>2. CASE rest > 0
      <4>1. pc' = "program" /\ ReqBuf' = ReqBuf + ReqCount
        BY <3>1, <3>2 DEF EndChunk, Advance
      <4>2. Moved' = Index + 1
        BY <1>1, <2>1, <2>4, <3>1, <4>1, BoundFacts DEF Moved, Index, TypeOK
      <4>3. Index \in Int BY <2>1
      <4> QED BY <2>1, <2>2, <4>2, <4>3, ReadGrows
    <3>3. CASE ~(rest > 0)
      <4>1. EndRun("success") BY <1>1, <2>2, <3>1, <3>3 DEF EndChunk, Sector
      <4> QED BY <1>1, <2>2, <4>1, EndRunFrees
    <3> QED BY <3>2, <3>3
  <2> QED BY <2>3, <2>4
<1>5. CASE WriteData \/ Committed \/ StillCommitting
  <2>1. IsWrite /\ srb' = srb
    BY <1>1, <1>5 DEF WriteData, Committed, StillCommitting, Sector, ioRest
  <2> QED BY <2>1 DEF Read, IsWrite
<1>6. CASE NoDrq
  BY <1>1, <1>6, EndRunFrees DEF NoDrq, ioRest
<1>7. CASE XtTimer \/ LateTimer \/ XtResetBus
  <2>1. UNCHANGED callRest /\ dxSrb' \in {dxSrb, NoSrb}
    BY <1>7 DEF XtTimer, LateTimer, XtResetBus, HwTimer, Poll, DropPending, extVars
  <2>2. Moved' = Moved /\ (InHand' => InHand)
    BY <2>1 DEF Moved, Index, InHand, callRest, runVars
  <2> QED BY <2>1, <2>2, ReadStay DEF Read, callRest, runVars, driveVars
<1>8. CASE Drive
  <2>1. /\ UNCHANGED <<srb, buf, pc, extVars, runVars, left>> /\ BSY
    BY <1>8 DEF Drive, DriveAsks, DriveCommits, DriveFinishes, DriveFails, driveRest
  <2>2. Moved' = Moved /\ InHand' = InHand
    BY <2>1 DEF Moved, Index, InHand, runVars, extVars
  <2>3. CASE DriveAsks \/ DriveFinishes \/ DriveFails
    <3>1. BSY' = FALSE /\ UNCHANGED media
      BY <2>3 DEF DriveAsks, DriveFinishes, DriveFails, driveRest
    <3> QED BY <2>1, <2>2, <3>1, ReadStay
  <2>4. CASE DriveCommits
    <3>1. dCache # {} BY <2>4 DEF DriveCommits
    <3>2. InHand /\ ~IsWrite => pc = "program" /\ ~(ReqBuf > 0)
      BY <2>1, <3>1 DEF Read
    <3>3. InHand /\ ~IsWrite => Moved = 0
      BY <1>1, <3>2, BoundFacts DEF Moved, TypeOK
    <3> QED BY <2>1, <2>2, <3>2, <3>3 DEF Read, IsWrite, runVars
  <2> QED BY <1>8, <2>3, <2>4 DEF Drive
<1>9. CASE UNCHANGED vars
  <2>1. Moved' = Moved /\ InHand' = InHand
    BY <1>9 DEF Moved, Index, InHand, vars, runVars, extVars
  <2> QED BY <1>9, <2>1, ReadStay DEF Read, vars, runVars, driveVars
<1> QED BY <1>2, <1>3, <1>4, <1>5, <1>6, <1>7, <1>8, <1>9 DEF Next, Run

(* A read that succeeds filled its buffer, over however many chunks         *)
(* (XTIDE_XferRun, XTIDE_ReadSectors).                                      *)
THEOREM ReadsFilled == Spec => ReadSuccessIsMedia
<1> DEFINE Filled == Completes("read") =>
      \A i \in 0 .. srb.n - 1 :
        LET a == <<srb.unit, srb.lba + i>> IN a \in Disk => buf'[i] = media[a]
<1>1. ASSUME XInv, Read, [Next]_vars PROVE Filled
  <2>1. TypeOK /\ SrbInv /\ Request /\ Sector BY <1>1 DEF XInv
  <2>2. SUFFICES ASSUME Completes("read")
                 PROVE  \A i \in 0 .. srb.n - 1 : At(i) \in Disk => buf'[i] = media[At(i)]
    BY DEF At
  <2>3. active # NoSrb /\ active' = NoSrb /\ ~IsWrite /\ status' = "success"
    BY <2>2 DEF Completes, IsWrite
  <2>4. ~ready /\ dxSrb = NoSrb
    BY <2>1, <2>3 DEF SrbInv, CompletedOnce, Sector
  <2>5. ReadData
    <3>1. \A s \in Srbs, r \in Transfer \cup Other : ~XtStartIo(s, r) BY <2>4 DEF XtStartIo
    <3>2. ~(ProgramTaskfile \/ NoDrq)
      BY <2>3 DEF ProgramTaskfile, NoDrq, EndRun, XtFinish, portVars
    <3>3. ~(WriteData \/ Committed \/ StillCommitting)
      BY <2>1, <2>3 DEF WriteData, Committed, StillCommitting, Sector
    <3>4. ~(XtTimer \/ LateTimer \/ XtResetBus)
      BY <2>3, <2>4 DEF XtTimer, LateTimer, XtResetBus, HwTimer, portVars
    <3>5. ~Drive /\ ~UNCHANGED vars
      BY <2>3 DEF Drive, DriveAsks, DriveCommits, DriveFinishes, DriveFails, driveRest, vars, portVars
    <3> QED BY <1>1, <3>1, <3>2, <3>3, <3>4, <3>5 DEF Next, Run
  <2>6. /\ \A i \in 0 .. Index : At(i) \in Disk => buf'[i] = media[At(i)]
        /\ left \in Nat /\ Index \in Nat
    BY <1>1, <2>5, ReadMoves
  <2>7. ~(left > 1) /\ EndChunk /\ pc = "sector" BY <2>3, <2>5 DEF ReadData, portVars
  <2>8. ~(rest > 0) BY <2>3, <2>7 DEF EndChunk, portVars
  <2>9. Index = srb.n - 1
    <3>1. left = 1 BY <2>1, <2>6, <2>7 DEF Sector
    <3>2. /\ rest = 0 /\ ReqBuf \in Nat /\ ReqCount \in Nat /\ ReqBuf + ReqCount + rest = srb.n
      BY <2>1, <2>7, <2>8, BoundFacts DEF TypeOK, Request, InHand
    <3> QED BY <3>1, <3>2 DEF Index
  <2> QED BY <2>6, <2>9
<1>2. Init => Read BY DEF Init, Read, InHand
<1>3. Spec => []Read BY <1>2, XAlways, ReadKept, PTL DEF Spec
<1>4. Spec => [][Filled]_vars
  <2>1. XInv /\ Read /\ [Next]_vars => [Filled]_vars BY <1>1
  <2> QED BY <2>1, <1>3, XAlways, PTL DEF Spec
<1> QED BY <1>4 DEF ReadSuccessIsMedia

-----------------------------------------------------------------------------
(* Writes.                                                                  *)
LEMMA WrittenStay ==
  ASSUME Written, InHand' => InHand /\ Moved' = Moved,
         UNCHANGED <<srb, media, dCache, ReqCount, left, ReqBuf, Start, TryUnit>>,
         InHand' /\ IsWrite /\ pc' = "program" => pc = "program",
         InHand' /\ IsWrite /\ pc' # "program" => pc # "program",
         ERR => ERR', BSY \/ ~BSY', ERR' => ERR \/ BSY
  PROVE  Written'
<1> SUFFICES ASSUME InHand', IsWrite PROVE Written'
  BY DEF Written, IsWrite
<1>1. InHand /\ Moved' = Moved OBVIOUS
<1>2. \A i : At(i)' = At(i) /\ Wanted(i)' = Wanted(i) /\ Kept(i)' = Kept(i)
  BY DEF At, Wanted, Kept
<1>3. pc' = "program" /\ ReqBuf' > 0 => ~BSY' /\ ~ERR' /\ dCache' = {}
  BY <1>1 DEF Written
<1>4. ERR' \/ \A i \in 0 .. Moved' - 1 : At(i)' \in Disk => Kept(i)'
  BY <1>1, <1>2 DEF Written
<1>5. pc' # "program" =>
        \A c \in dCache' : \E k \in 0 .. ReqCount' - left' - 1 :
          c = <<<<TryUnit', Start' + k>>, Wanted(ReqBuf' + k)>>
  BY <1>1 DEF Written
<1> QED BY <1>1, <1>2, <1>3, <1>4, <1>5 DEF Written, At, Wanted, Kept

LEMMA WriteMoves ==
  ASSUME XInv, Written, WriteData
  PROVE  Written'
<1>1. /\ pc = "sector" /\ DRQ /\ IsWrite /\ InHand /\ ~ERR /\ ERR' = ERR
      /\ dCache' = dCache \cup {<<<<dUnit, dLba>>, Wanted(Index)>>}
      /\ left' = left - 1 /\ pc' \in {"sector", "commit"}
      /\ UNCHANGED <<srb, media, ReqCount, ReqBuf, TryUnit>> /\ Start' = Start
  BY DEF WriteData, DataReady, InHand, ioRest, unitVars, runVars, Start
<1>2. TypeOK /\ Request BY DEF XInv
<1>3. /\ ReqCount - left \in 0 .. ReqCount - 1 /\ Index = ReqBuf + (ReqCount - left)
      /\ <<dUnit, dLba>> = <<TryUnit, Start + (ReqCount - left)>> /\ <<dUnit, dLba>> \in Disk
      /\ left \in 1 .. MaxSectors
  BY <1>1, AtHand
<1>4. At(Index) \in Disk => At(Index) = <<dUnit, dLba>>
  BY <1>1, <1>2, <1>3, RightPlace
<1>5. ReqBuf \in Nat /\ ReqCount \in Nat /\ left \in Nat /\ Index \in Nat
  BY <1>2, <1>3, BoundFacts DEF TypeOK
<1>6. Moved = Index /\ Moved' = Index + 1
  BY <1>1, <1>3, <1>5 DEF Moved, Index
<1>7. \A i \in 0 .. Index - 1 : At(i) \in Disk => Kept(i)
  BY <1>1, <1>6 DEF Written
<1>8. ASSUME NEW i \in 0 .. Index, At(i) \in Disk
      PROVE  media[At(i)] = Wanted(i) \/ <<At(i), Wanted(i)>> \in dCache'
  <2>1. CASE i = Index BY <1>1, <1>4, <1>8, <2>1
  <2>2. CASE i # Index
    <3>1. i \in 0 .. Index - 1 BY <1>5, <2>2
    <3> QED BY <1>1, <1>7, <1>8, <3>1 DEF Kept
  <2> QED BY <2>1, <2>2
<1>9. ASSUME NEW c \in dCache'
      PROVE  \E k \in 0 .. ReqCount - left' - 1 :
               c = <<<<TryUnit, Start + k>>, Wanted(ReqBuf + k)>>
  <2>1. CASE c \in dCache
    <3>1. PICK k \in 0 .. ReqCount - left - 1 :
                 c = <<<<TryUnit, Start + k>>, Wanted(ReqBuf + k)>>
      BY <1>1, <2>1 DEF Written
    <3>2. k \in 0 .. ReqCount - left' - 1 BY <1>1, <1>5
    <3> QED BY <3>1, <3>2
  <2>2. CASE c = <<<<dUnit, dLba>>, Wanted(Index)>>
    <3>1. ReqCount - left \in 0 .. ReqCount - left' - 1 BY <1>1, <1>3, <1>5
    <3>2. c = <<<<TryUnit, Start + (ReqCount - left)>>, Wanted(ReqBuf + (ReqCount - left))>>
      BY <1>3, <2>2
    <3> QED BY <3>1, <3>2
  <2> QED BY <1>1, <1>9, <2>1, <2>2
<1>10. ERR' \/ \A i \in 0 .. Moved' - 1 : (At(i) \in Disk => Kept(i))'
  <2>1. \A i \in 0 .. Moved' - 1 : i \in 0 .. Index BY <1>5, <1>6
  <2> QED BY <1>1, <1>8, <2>1 DEF Kept, At, Wanted
<1>11. \A c \in dCache' : \E k \in 0 .. ReqCount' - left' - 1 :
         c = <<<<TryUnit', Start' + k>>, Wanted(ReqBuf' + k)>>
  BY <1>1, <1>9
<1>12. (\A c \in dCache : \E k \in 0 .. ReqCount - left - 1 :
          c = <<<<TryUnit, Start + k>>, Wanted(ReqBuf + k)>>)'
  BY <1>1, <1>11 DEF Wanted
<1>13. ~(pc' = "program") BY <1>1
<1> QED BY <1>10, <1>12, <1>13 DEF Written

LEMMA WrittenCommit ==
  ASSUME XInv, Written, Committed \/ StillCommitting
  PROVE  Written'
<1>1. TypeOK /\ SrbInv /\ Request /\ Drives /\ Sector BY DEF XInv
<1>2. /\ pc = "commit" /\ InHand /\ left = 0 /\ dLeft = 0 /\ IsWrite /\ ~CommitPending
      /\ UNCHANGED <<srb, unitVars, media, left, driveVars>>
  BY <1>1 DEF Committed, StillCommitting, ioRest, InHand, Sector
<1>3. CASE EndRun("error") BY <1>1, <1>2, <1>3, EndRunFrees
<1>4. CASE Committed /\ ~ERR /\ EndChunk
  <2>1. ~BSY /\ ~CommitPending' BY <1>2, <1>4 DEF Committed
  <2>2. dCache = {} BY <1>1, <1>2, <2>1 DEF Drives
  <2>3. CASE rest > 0
    <3>1. pc' = "program" /\ ReqBuf' = ReqBuf + ReqCount
      BY <2>3, <1>4 DEF EndChunk, Advance
    <3>2. Moved' = Moved
      BY <1>1, <1>2, <3>1, BoundFacts DEF Moved, Index, TypeOK
    <3>3. \A i : At(i)' = At(i) /\ Kept(i)' = Kept(i)
      BY <1>2 DEF At, Wanted, Kept, driveVars
    <3>4. \A i \in 0 .. Moved' - 1 : At(i)' \in Disk => Kept(i)'
      BY <1>2, <1>4, <3>2, <3>3 DEF Written
    <3> QED BY <1>2, <1>4, <2>1, <2>2, <3>1, <3>4 DEF Written, driveVars
  <2>4. CASE ~(rest > 0)
    <3>1. EndRun("success") BY <1>4, <2>1, <2>4 DEF EndChunk
    <3> QED BY <1>1, <1>2, <3>1, EndRunFrees
  <2> QED BY <2>3, <2>4
<1>5. CASE StillCommitting /\ DeferOk /\ CommitPending' /\ EndChunk
  <2>1. pc' = "idle" /\ UNCHANGED runVars BY <1>5, BoundFacts DEF EndChunk, DeferOk
  <2>2. Moved' = Moved /\ Start' = Start
    BY <1>2, <2>1 DEF Moved, Index, Start, runVars, unitVars
  <2> QED BY <1>2, <2>1, <2>2, WrittenStay DEF runVars, unitVars, driveVars
<1> QED BY <1>3, <1>4, <1>5 DEF Committed, StillCommitting

LEMMA WrittenDrive ==
  ASSUME SmallRequests, XInv, Written, Drive
  PROVE  Written'
<1>1. TypeOK /\ SrbInv /\ Request /\ Drives /\ Sector BY DEF XInv
<1>2. /\ UNCHANGED <<srb, pc, dxSrb, TryUnit, ReqCount, ReqBuf, left>> /\ BSY
      /\ Start' = Start
  BY DEF Drive, DriveAsks, DriveCommits, DriveFinishes, DriveFails, driveRest, extVars,
         runVars, unitVars, Start
<1>3. Moved' = Moved /\ InHand' = InHand
  BY <1>2 DEF Moved, Index, InHand
<1>4. \A i : At(i)' = At(i) /\ Wanted(i)' = Wanted(i)
  BY <1>2 DEF At, Wanted
<1>5. CASE DriveAsks
  BY <1>2, <1>3, <1>5, WrittenStay DEF DriveAsks
<1>6. CASE DriveFinishes
  <2>1. dCache' = dCache BY <1>6 DEF DriveFinishes
  <2> QED BY <1>2, <1>3, <1>6, <2>1, WrittenStay DEF DriveFinishes, driveRest
<1>7. CASE DriveFails
  <2>1. ERR' = TRUE /\ dCache' = {} /\ BSY' = FALSE BY <1>7 DEF DriveFails
  <2> QED BY <1>2, <1>3, <2>1 DEF Written, IsWrite
<1>8. CASE DriveCommits
  <2>1. PICK c \in dCache : media' = [media EXCEPT ![c[1]] = c[2]] /\ dCache' = dCache \ {c}
    BY <1>8 DEF DriveCommits
  <2>2. UNCHANGED <<BSY, ERR>> BY <1>8 DEF DriveCommits
  <2>3. SUFFICES ASSUME InHand, IsWrite PROVE Written'
    BY <1>2, <1>3 DEF Written, IsWrite
  <2>4. pc = "program" => ReqBuf = 0 /\ Moved = 0
    BY <1>1, <1>2, <2>3, BoundFacts DEF Written, Moved, TypeOK
  <2>5. CASE pc = "program"
    BY <1>2, <1>3, <2>4, <2>5 DEF Written
  <2>6. CASE pc # "program"
    <3>1. PICK k \in 0 .. ReqCount - left - 1 :
                 c = <<<<TryUnit, Start + k>>, Wanted(ReqBuf + k)>>
      BY <2>3, <2>6 DEF Written
    <3>2. c[1] \in Disk /\ media \in [Disk -> Cells] BY <1>1 DEF TypeOK
    <3>3. /\ ReqBuf \in Nat /\ ReqCount \in Nat /\ left \in Nat /\ k \in 0 .. ReqCount - 1
      BY <1>1, BoundFacts DEF TypeOK
    <3>4. ASSUME NEW i \in 0 .. Moved - 1, At(i) \in Disk, Kept(i)
          PROVE  media'[At(i)] = Wanted(i) \/ <<At(i), Wanted(i)>> \in dCache'
      <4>1. CASE At(i) = c[1]
        <5>1. i \in Nat BY <3>4
        <5>2. i = ReqBuf + k
          BY <1>1, <2>3, <3>1, <3>3, <4>1, <5>1, NotTwice
        <5> QED BY <2>1, <3>1, <3>2, <4>1, <5>2
      <4>2. CASE At(i) # c[1]
        <5>1. media'[At(i)] = media[At(i)] BY <2>1, <3>2, <3>4, <4>2
        <5>2. <<At(i), Wanted(i)>> # c BY <4>2
        <5> QED BY <2>1, <3>4, <5>1, <5>2 DEF Kept
      <4> QED BY <4>1, <4>2
    <3>5. (ERR \/ \A i \in 0 .. Moved - 1 : At(i) \in Disk => Kept(i))'
      BY <1>3, <1>4, <2>2, <2>3, <3>4 DEF Written, Kept
    <3>6. (\A d \in dCache : \E j \in 0 .. ReqCount - left - 1 :
             d = <<<<TryUnit, Start + j>>, Wanted(ReqBuf + j)>>)'
      <4>1. \A d \in dCache' : \E j \in 0 .. ReqCount - left - 1 :
              d = <<<<TryUnit, Start + j>>, Wanted(ReqBuf + j)>>
        BY <2>1, <2>3, <2>6 DEF Written
      <4> QED BY <1>2, <1>4, <4>1
    <3>7. ~(pc' = "program") BY <1>2, <2>6
    <3> QED BY <3>5, <3>6, <3>7 DEF Written
  <2> QED BY <2>5, <2>6
<1> QED BY <1>5, <1>6, <1>7, <1>8 DEF Drive

LEMMA WrittenKept ==
  ASSUME SmallRequests, XInv, Written, [Next]_vars
  PROVE  Written'
<1>1. TypeOK /\ SrbInv /\ Request /\ Drives /\ Sector BY DEF XInv
<1>2. ASSUME NEW s \in Srbs, NEW r \in Transfer \cup Other, XtStartIo(s, r)
      PROVE  Written'
  <2>1. dxSrb' = NoSrb /\ pc = "idle"
    BY <1>1, <1>2 DEF XtStartIo, SrbInv, CompletedOnce, extVars
  <2>2. pc' = "idle" \/ (pc' = "program" /\ ReqBuf' = 0)
    BY <1>2, <2>1 DEF XtStartIo
  <2> QED BY <2>1, <2>2 DEF Written, InHand, Moved
<1>3. CASE ProgramTaskfile
  <2>1. CASE EndRun("error") BY <1>1, <1>3, <2>1, EndRunFrees DEF ProgramTaskfile, ioRest
  <2>2. CASE ~EndRun("error")
    <3>1. /\ pc = "program" /\ pc' = "sector" /\ left' = ReqCount /\ dCache' = {} /\ InHand
          /\ UNCHANGED <<srb, media, runVars>>
      BY <1>3, <2>2 DEF ProgramTaskfile, ioRest, InHand
    <3>2. Moved = ReqBuf /\ Moved' = ReqBuf /\ ReqBuf \in Nat
      BY <1>1, <3>1, BoundFacts DEF Moved, Index, runVars, TypeOK
    <3>3. SUFFICES ASSUME IsWrite PROVE Written'
      BY <3>1 DEF Written, IsWrite
    <3>4. \A i \in 0 .. Moved - 1 : At(i) \in Disk => media[At(i)] = Wanted(i)
      <4>1. CASE ReqBuf > 0 BY <3>1, <3>3, <4>1 DEF Written, Kept
      <4>2. CASE ~(ReqBuf > 0) BY <3>2, <4>2
      <4> QED BY <4>1, <4>2
    <3>5. (\A i \in 0 .. Moved - 1 : At(i) \in Disk => Kept(i))'
      BY <3>1, <3>2, <3>4 DEF Kept, At, Wanted
    <3> QED BY <3>1, <3>5 DEF Written
  <2> QED BY <2>1, <2>2
<1>4. CASE ReadData
  BY <1>4 DEF ReadData, Written, IsWrite, ioRest
<1>5. CASE WriteData BY <1>5, WriteMoves
<1>6. CASE NoDrq BY <1>1, <1>6, EndRunFrees DEF NoDrq, ioRest
<1>7. CASE Committed \/ StillCommitting BY <1>7, WrittenCommit
<1>8. CASE XtTimer \/ LateTimer \/ XtResetBus
  <2>1. UNCHANGED callRest /\ dxSrb' \in {dxSrb, NoSrb}
    BY <1>8 DEF XtTimer, LateTimer, XtResetBus, HwTimer, Poll, DropPending, extVars
  <2>2. Moved' = Moved /\ Start' = Start /\ (InHand' => InHand)
    BY <2>1 DEF Moved, Index, Start, InHand, callRest, runVars, unitVars
  <2> QED BY <2>1, <2>2, WrittenStay DEF callRest, runVars, unitVars, driveVars
<1>9. CASE Drive BY <1>9, WrittenDrive
<1>10. CASE UNCHANGED vars
  <2>1. Moved' = Moved /\ Start' = Start /\ InHand' = InHand
    BY <1>10 DEF Moved, Index, Start, InHand, vars, runVars, unitVars, extVars
  <2> QED BY <1>10, <2>1, WrittenStay DEF vars, runVars, unitVars, driveVars
<1> QED BY <1>2, <1>3, <1>4, <1>5, <1>6, <1>7, <1>8, <1>9, <1>10 DEF Next, Run

(* A request that has all moved is on the medium once the drive is idle.    *)
LEMMA AllOnMedium ==
  ASSUME XInv, Written, InHand, IsWrite, pc = "commit" \/ dxSrb # NoSrb, rest = 0, ~BSY, ~ERR
  PROVE  \A i \in 0 .. srb.n - 1 : At(i) \in Disk => media[At(i)] = Wanted(i)
<1>1. TypeOK /\ SrbInv /\ Request /\ Drives /\ Sector BY DEF XInv
<1>2. left = 0 /\ dLeft = 0 /\ pc # "program"
  BY <1>1 DEF Sector, SrbInv, DataPhaseAlone
<1>3. dCache = {} BY <1>1, <1>2 DEF Drives
<1>4. Moved = srb.n
  BY <1>1, <1>2, BoundFacts DEF Moved, Index, TypeOK, Request
<1> QED BY <1>3, <1>4 DEF Written, Kept

(* A write that succeeds is on the medium whole, whether XtStartIo saw the  *)
(* commit end or XtTimer did, however late (XTIDE_XferRun, XtTimer).  Only  *)
(* a request larger than a CHS-only unit could come round on itself.        *)
THEOREM WritesDurable == SmallRequests => (Spec => WriteSuccessIsDurable)
<1> SUFFICES ASSUME SmallRequests PROVE Spec => WriteSuccessIsDurable
  OBVIOUS
<1> DEFINE Durable == Completes("write") =>
      \A i \in 0 .. srb.n - 1 : Wanted(i)[1] \in Disk => media'[Wanted(i)[1]] = Wanted(i)
<1>1. ASSUME XInv, Written, [Next]_vars PROVE Durable
  <2>1. TypeOK /\ SrbInv /\ Request /\ Sector BY <1>1 DEF XInv
  <2>2. SUFFICES ASSUME Completes("write")
                 PROVE  \A i \in 0 .. srb.n - 1 : At(i) \in Disk => media'[At(i)] = Wanted(i)
    BY DEF At, Wanted
  <2>3. active # NoSrb /\ active' = NoSrb /\ IsWrite /\ status' = "success"
    BY <2>2 DEF Completes, IsWrite
  <2>4. ~ready BY <2>1, <2>3 DEF SrbInv, CompletedOnce
  <2>5. \A s \in Srbs, r \in Transfer \cup Other : ~XtStartIo(s, r) BY <2>4 DEF XtStartIo
  <2>6. ~(ProgramTaskfile \/ NoDrq)
    BY <2>3 DEF ProgramTaskfile, NoDrq, EndRun, XtFinish, portVars
  <2>7. ~(ReadData \/ WriteData)
    BY <2>3 DEF ReadData, WriteData, portVars
  <2>8. ~Drive /\ ~UNCHANGED vars
    BY <2>3 DEF Drive, DriveAsks, DriveCommits, DriveFinishes, DriveFails, driveRest, vars, portVars
  <2>9. CASE Committed \/ StillCommitting
    <3>1. /\ pc = "commit" /\ ~EndRun("error") /\ EndChunk /\ UNCHANGED media
      BY <2>3, <2>9 DEF Committed, StillCommitting, EndRun, XtFinish, ioRest
    <3>2. ~(rest > 0) /\ ~CommitPending'
      BY <2>3, <3>1 DEF EndChunk, Yield, portVars
    <3>3. Committed /\ ~BSY /\ ~ERR
      BY <2>9, <3>1, <3>2 DEF Committed, StillCommitting
    <3>4. rest = 0 /\ InHand BY <2>1, <3>1, <3>2, BoundFacts DEF TypeOK, InHand
    <3> QED BY <1>1, <2>3, <3>1, <3>3, <3>4, AllOnMedium
  <2>10. CASE XtTimer \/ LateTimer \/ XtResetBus
    <3>1. dxSrb # NoSrb /\ ~BSY /\ ~ERR /\ UNCHANGED media
      BY <2>3, <2>10 DEF XtTimer, LateTimer, XtResetBus, HwTimer, Poll, XtFinish, callRest, portVars
    <3>2. rest = 0 /\ InHand BY <2>1, <3>1 DEF Sector, InHand
    <3> QED BY <1>1, <2>3, <3>1, <3>2, AllOnMedium
  <2> QED BY <1>1, <2>5, <2>6, <2>7, <2>8, <2>9, <2>10 DEF Next, Run
<1>2. Init => Written BY DEF Init, Written, InHand
<1>3. XInv /\ Written /\ [Next]_vars => Written' BY WrittenKept
<1>4. XInv /\ Written /\ [Next]_vars => [Durable]_vars BY <1>1
<1>5. Spec => [][Durable]_vars BY <1>2, <1>3, <1>4, XAlways, PTL DEF Spec
<1> QED BY <1>5 DEF WriteSuccessIsDurable
=============================================================================

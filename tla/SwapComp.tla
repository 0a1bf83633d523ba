------------------------------- MODULE SwapComp -------------------------------
(***************************************************************************)
(* SWAPCOMP.VXD: LZ4-compress pages on their way to WIN386.SWP.            *)
(*                                                                         *)
(* The VxD hooks PageFile_Read_Or_Write and IFSMgr_Ring0_FileIO.  Every    *)
(* page of a request goes to PAGEFILE on its own; a compressed page goes   *)
(* with the VxD's bounce buffer in place of the caller's, and the IFS hook *)
(* shortens that one transfer.  SlotTab says how many sectors of a page's  *)
(* 4 KB slot are in use.  PAGEFILE, IFSMGR, the disk and the semaphore are *)
(* external; each PAGEFILE call is three steps (call, FileIO, return), and *)
(* other threads run between them.                                         *)
(***************************************************************************)
EXTENDS Naturals, FiniteSets

CONSTANTS
  Threads,        \* threads the pager runs on
  Contents,       \* what a 4 KB page can hold
  Zero,           \* the page of all zeros
  NoPage,         \* no page: junk in a buffer or sector, or no promise
  NoThread,       \* SC_Orig before the first request
  NFilePages,     \* pages of the swap file
  SC_SLOTS,       \* file pages SlotTab covers
  PAGE_SECTORS,   \* sectors of a page (8)
  SC_MAX_SECTORS, \* largest compressed page worth storing (6)
  SC_ZERO,        \* build option: a zero page costs no I/O
  MaxPages,       \* bound: most pages in one request
  LzSectors       \* LzSectors[c]: sectors LZ4_Compress needs for page c

SC_ZERO_SLOT == 255

ASSUME SwapAssumption ==
  /\ Zero \in Contents
  /\ NoPage \notin Contents
  /\ IsFiniteSet(Threads) /\ NoThread \notin Threads
  /\ NFilePages \in Nat \ {0}
  /\ SC_SLOTS \in Nat
  /\ PAGE_SECTORS \in Nat /\ SC_MAX_SECTORS \in Nat
  /\ 0 < SC_MAX_SECTORS
  /\ SC_MAX_SECTORS < PAGE_SECTORS
  /\ PAGE_SECTORS < SC_ZERO_SLOT
  /\ SC_ZERO \in BOOLEAN
  /\ MaxPages \in Nat \ {0}
  /\ LzSectors \in [Contents -> 1 .. PAGE_SECTORS + 1]

VARIABLES
  initPc,         \* where SwapComp_Device_Init is
  ifsHooked,      \* IFSMgr_Ring0_FileIO goes through SC_IFS_Hook
  pagerHooked,    \* PageFile_Read_Or_Write goes through SwapComp_Hook
  SC_Sem,         \* token count of the semaphore
  SC_Busy,        \* requests between entry and exit
  SC_Inflight, SC_Want, SC_Seen, SC_Disabled,
  SC_Orig,        \* the thread whose descriptor is, or was last, served
  SC_Status,      \* of the request being served
  SlotTab,
  SC_Bounce,      \* sector by sector
  pc,             \* pc[t]: where thread t is
  idx,            \* page of the current request, from 1
  via,            \* who called PAGEFILE: SC_Transfer or sco_pass
  ioLen,          \* sectors the FileIO below PAGEFILE moves
  pfOk,           \* SC_Desc.PS_BD_Status = PFS_Success
  file,           \* file[p][i]: sector i of the slot of file page p
  req, mem, result, last,  \* the pager's side, as in SwapStore
  faulted,        \* history: PAGEFILE failed, or a bypass lost a read, in
                  \* this request
  bypassed        \* history: some FileIO below PAGEFILE avoided the hook

initVars  == <<initPc, ifsHooked, pagerHooked>>
xferVars  == <<SC_Inflight, SC_Want, SC_Seen>>
pagerVars == <<req, result, last>>
vars == <<initVars, SC_Sem, SC_Busy, xferVars, SC_Disabled, SC_Orig, SC_Status,
          SlotTab, SC_Bounce, pc, idx, via, ioLen, pfOk, file, mem,
          pagerVars, faulted, bypassed>>

FilePage == 0 .. NFilePages - 1
Slot     == 0 .. SC_SLOTS - 1
Sector   == 1 .. PAGE_SECTORS
Page     == Contents \cup {NoPage}
Cell     == ({"raw", "lz"} \X Contents \X Sector) \cup {NoPage}

Store == INSTANCE SwapStore

ASSUME RequestAssumption == NoPage \notin Store!Request

TypeOK ==
  /\ initPc \in {"create", "hookIfs", "hookPager", "done"}
  /\ ifsHooked \in BOOLEAN /\ pagerHooked \in BOOLEAN
  /\ SC_Sem \in {0, 1}
  /\ SC_Busy \in Nat
  /\ SC_Inflight \in BOOLEAN /\ SC_Seen \in BOOLEAN /\ SC_Disabled \in BOOLEAN
  /\ SC_Want \in 0 .. SC_MAX_SECTORS
  /\ SC_Orig \in Threads \cup {NoThread}
  /\ SC_Status \in {"ok", "fail"}
  /\ SlotTab \in [Slot -> 0 .. SC_MAX_SECTORS \cup {SC_ZERO_SLOT}]
  /\ SC_Bounce \in [Sector -> Cell]
  /\ pc \in [Threads -> {"idle", "wait", "page", "call", "io", "ret", "leave"}]
  /\ idx \in 1 .. MaxPages
  /\ via \in {"transfer", "pass"}
  /\ ioLen \in 0 .. PAGE_SECTORS
  /\ pfOk \in BOOLEAN
  /\ file \in [FilePage -> [Sector -> Cell]]
  /\ req \in [Threads -> Store!Request \cup {NoPage}]
  /\ mem \in [Threads -> [1 .. MaxPages -> Page]]
  /\ result \in [Threads -> {"none", "ok", "fail"}]
  /\ last \in [FilePage -> Page]
  /\ faulted \in BOOLEAN /\ bypassed \in BOOLEAN

-----------------------------------------------------------------------------
(***************************************************************************)
(* What sectors hold.                                                      *)
(***************************************************************************)

(* A whole page of uncompressed sectors. *)
HoldsRaw(s, c) == \A i \in Sector : s[i] = <<"raw", c, i>>

(* The first n sectors hold the whole LZ4 block of page c. *)
HoldsLz(s, c, n) ==
  /\ LzSectors[c] <= n
  /\ \A i \in 1 .. LzSectors[c] : s[i] = <<"lz", c, i>>

(* What PAGEFILE reads from sectors s without us. *)
RawPage(s) ==
  IF \E c \in Contents : HoldsRaw(s, c)
    THEN CHOOSE c \in Contents : HoldsRaw(s, c) ELSE NoPage

-----------------------------------------------------------------------------
(***************************************************************************)
(* SwapComp_Device_Init.  A step that fails leaves the rest undone.        *)
(***************************************************************************)
Init ==
  /\ initPc = "create" /\ ifsHooked = FALSE /\ pagerHooked = FALSE
  /\ SC_Sem = 0 /\ SC_Busy = 0
  /\ SC_Inflight = FALSE /\ SC_Want = 0 /\ SC_Seen = FALSE
  /\ SC_Disabled = FALSE /\ SC_Orig = NoThread /\ SC_Status = "ok"
  /\ SlotTab = [s \in Slot |-> 0]
  /\ SC_Bounce = [i \in Sector |-> NoPage]
  /\ pc = [t \in Threads |-> "idle"]
  /\ idx = 1 /\ via = "pass" /\ ioLen = 0 /\ pfOk = TRUE
  /\ req = [t \in Threads |-> NoPage]
  /\ mem = [t \in Threads |-> [i \in 1 .. MaxPages |-> NoPage]]
  /\ result = [t \in Threads |-> "none"]
  /\ last \in [FilePage -> Page]      \* PAGEFILE may have been used already
  /\ file = [p \in FilePage |-> [i \in Sector |->
               IF last[p] = NoPage THEN NoPage ELSE <<"raw", last[p], i>>]]
  /\ faulted = FALSE /\ bypassed = FALSE

InitRest == <<SC_Busy, xferVars, SC_Disabled, SC_Orig, SC_Status, SlotTab,
              SC_Bounce, pc, idx, via, ioLen, pfOk, file, mem, pagerVars,
              faulted, bypassed>>

(* Mutants of CreateSemaphore: a token too many, and none. *)
CreateSemaphoreOfTwo ==
  /\ initPc = "create"
  /\ SC_Sem' = 2 /\ initPc' = "hookIfs"
  /\ UNCHANGED <<ifsHooked, pagerHooked, InitRest>>

CreateSemaphoreEmpty ==
  /\ initPc = "create"
  /\ SC_Sem' = 0 /\ initPc' = "hookIfs"
  /\ UNCHANGED <<ifsHooked, pagerHooked, InitRest>>

CreateSemaphore ==
  /\ initPc = "create"
  /\ \/ SC_Sem' = 1 /\ initPc' = "hookIfs"
     \/ UNCHANGED SC_Sem /\ initPc' = "done"
  /\ UNCHANGED <<ifsHooked, pagerHooked, InitRest>>

(* Mutant of HookIfs: its failure is not looked at. *)
HookIfsUnchecked ==
  /\ initPc = "hookIfs"
  /\ ifsHooked' \in BOOLEAN
  /\ initPc' = "hookPager"
  /\ UNCHANGED <<pagerHooked, SC_Sem, InitRest>>

HookIfs ==
  /\ initPc = "hookIfs"
  /\ \/ ifsHooked' = TRUE /\ initPc' = "hookPager"
     \/ UNCHANGED ifsHooked /\ initPc' = "done"
  /\ UNCHANGED <<pagerHooked, SC_Sem, InitRest>>

HookPager ==
  /\ initPc = "hookPager"
  /\ pagerHooked' \in BOOLEAN
  /\ initPc' = "done"
  /\ UNCHANGED <<ifsHooked, SC_Sem, InitRest>>

DeviceInit == CreateSemaphore \/ HookIfs \/ HookPager

-----------------------------------------------------------------------------
(***************************************************************************)
(* SwapComp_Hook: one request at a time, page by page.                     *)
(***************************************************************************)
Cur(t)  == req[t].page + idx - 1      \* SC_Desc.PS_BD_File_Page
Data(t) == mem[t][idx]                \* what SC_Desc.PS_BD_Buffer_Ptr points to

Enter(t) ==
  /\ pagerHooked
  /\ pc[t] = "idle"
  /\ Store!Call(t)
  /\ SC_Busy' = SC_Busy + 1
  /\ pc' = [pc EXCEPT ![t] = "wait"]
  /\ UNCHANGED <<initVars, SC_Sem, xferVars, SC_Disabled, SC_Orig, SC_Status,
                 SlotTab, SC_Bounce, idx, via, ioLen, pfOk, file, faulted,
                 bypassed>>

Acquire(t) ==
  /\ pc[t] = "wait"
  /\ SC_Sem > 0
  /\ SC_Sem' = SC_Sem - 1
  /\ SC_Orig' = t
  /\ SC_Status' = "ok"
  /\ idx' = 1
  /\ faulted' = FALSE
  /\ pc' = [pc EXCEPT ![t] = "page"]
  /\ UNCHANGED <<initVars, SC_Busy, xferVars, SC_Disabled, SlotTab, SC_Bounce,
                 via, ioLen, pfOk, file, mem, pagerVars, bypassed>>

(* To the next page of the request, or out of the loop. *)
NextPage(t) ==
  IF idx < req[t].n
    THEN idx' = idx + 1 /\ pc' = [pc EXCEPT ![t] = "page"]
    ELSE UNCHANGED idx /\ pc' = [pc EXCEPT ![t] = "leave"]

Leave(t) ==
  /\ pc[t] = "leave"
  /\ result' = [result EXCEPT ![t] = SC_Status]
  /\ SC_Busy' = SC_Busy - 1
  /\ SC_Sem' = SC_Sem + 1
  /\ last' = Store!Promise(req[t], SC_Status, mem[t])
  /\ req' = [req EXCEPT ![t] = NoPage]
  /\ mem' = [mem EXCEPT ![t] = [i \in 1 .. MaxPages |-> NoPage]]
  /\ pc' = [pc EXCEPT ![t] = "idle"]
  /\ idx' = 1                           \* a register, dead from here
  /\ UNCHANGED <<initVars, xferVars, SC_Disabled, SC_Orig, SC_Status, SlotTab,
                 SC_Bounce, via, ioLen, pfOk, file, faulted, bypassed>>

-----------------------------------------------------------------------------
(***************************************************************************)
(* SC_One, up to its PAGEFILE call, and SC_Transfer up to the same call.   *)
(***************************************************************************)
oneRest == <<initVars, SC_Sem, SC_Busy, SC_Orig, ioLen, pfOk, file,
             pagerVars, faulted, bypassed>>

(* sco_pass: the caller's own buffer goes to PAGEFILE. *)
StartPass(t) ==
  /\ via' = "pass"
  /\ pc' = [pc EXCEPT ![t] = "call"]
  /\ UNCHANGED <<idx, xferVars>>

(* SC_Transfer: the bounce buffer goes, n sectors of it. *)
StartTransfer(t, n) ==
  /\ SC_Want' = n
  /\ SC_Seen' = FALSE
  /\ SC_Inflight' = TRUE
  /\ via' = "transfer"
  /\ pc' = [pc EXCEPT ![t] = "call"]
  /\ UNCHANGED idx

Covered(t) == Cur(t) \in Slot
Reading(t) == req[t].cmd = "read"

ReadRaw(t) ==
  /\ pc[t] = "page" /\ Reading(t)
  /\ Covered(t) => SlotTab[Cur(t)] = 0
  /\ StartPass(t)
  /\ UNCHANGED <<SC_Disabled, SC_Status, SlotTab, SC_Bounce, mem, oneRest>>

ReadZero(t) ==
  /\ pc[t] = "page" /\ Reading(t)
  /\ Covered(t) /\ SlotTab[Cur(t)] = SC_ZERO_SLOT
  /\ mem' = [mem EXCEPT ![t][idx] = Zero]
  /\ NextPage(t)
  /\ UNCHANGED <<xferVars, via, SC_Disabled, SC_Status, SlotTab, SC_Bounce,
                 oneRest>>

ReadComp(t) ==
  /\ pc[t] = "page" /\ Reading(t)
  /\ Covered(t) /\ SlotTab[Cur(t)] \in 1 .. SC_MAX_SECTORS
  /\ StartTransfer(t, SlotTab[Cur(t)])
  /\ UNCHANGED <<SC_Disabled, SC_Status, SlotTab, SC_Bounce, mem, oneRest>>

(* Mutant of ClearSlot: the slot keeps the size of what was there before. *)
KeepSlot(t) == SlotTab

(* The slot counts as uncompressed until a compressed write succeeds. *)
ClearSlot(t) == [SlotTab EXCEPT ![Cur(t)] = 0]

WriteRaw(t) ==
  /\ pc[t] = "page" /\ ~Reading(t)
  /\ ~Covered(t) \/ SC_Disabled
  /\ SlotTab' = IF Covered(t) THEN ClearSlot(t) ELSE SlotTab
  /\ StartPass(t)
  /\ UNCHANGED <<SC_Disabled, SC_Status, SC_Bounce, mem, oneRest>>

WriteZero(t) ==
  /\ pc[t] = "page" /\ ~Reading(t)
  /\ Covered(t) /\ ~SC_Disabled
  /\ SC_ZERO /\ Data(t) = Zero
  /\ SlotTab' = [SlotTab EXCEPT ![Cur(t)] = SC_ZERO_SLOT]
  /\ NextPage(t)
  /\ UNCHANGED <<xferVars, via, SC_Disabled, SC_Status, SC_Bounce, mem, oneRest>>

(* LZ4_Compress has filled the bounce buffer, whether or not it pays. *)
WriteComp(t) ==
  LET n == LzSectors[Data(t)] IN
  /\ pc[t] = "page" /\ ~Reading(t)
  /\ Covered(t) /\ ~SC_Disabled
  /\ ~(SC_ZERO /\ Data(t) = Zero)
  /\ SlotTab' = ClearSlot(t)
  /\ SC_Bounce' = [i \in Sector |->
                     IF i <= n THEN <<"lz", Data(t), i>> ELSE SC_Bounce[i]]
  /\ IF n <= SC_MAX_SECTORS THEN StartTransfer(t, n) ELSE StartPass(t)
  /\ UNCHANGED <<SC_Disabled, SC_Status, mem, oneRest>>

SC_One(t) ==
  \/ ReadRaw(t) \/ ReadZero(t) \/ ReadComp(t)
  \/ WriteRaw(t) \/ WriteZero(t) \/ WriteComp(t)

-----------------------------------------------------------------------------
(***************************************************************************)
(* SC_IFS_Hook, and the file I/O below it.  PAGEFILE asks for a whole page *)
(* of the buffer SC_Desc names.                                            *)
(***************************************************************************)
ioRest == <<initVars, SC_Sem, SC_Busy, SC_Disabled, SC_Orig, SC_Status, SlotTab,
            idx, via, pagerVars>>

(* The sectors a FileIO through the hook moves: asked for, or SC_Want. *)
HookLen(bounce, asked) == IF SC_Inflight /\ bounce THEN SC_Want ELSE asked

(* Mutant of SC_IFS_Hook: whatever passes meanwhile is taken for ours. *)
SC_IFS_HookOfAll(bounce) == SC_Seen' = (SC_Seen \/ SC_Inflight)

(* A FileIO of the bounce buffer is noted as seen, nobody else's. *)
SC_IFS_Hook(bounce) == SC_Seen' = (SC_Seen \/ (SC_Inflight /\ bounce))

FileIO(t) ==
  /\ pc[t] = "call"
  /\ pc' = [pc EXCEPT ![t] = "io"]
  /\ \/ /\ ifsHooked
        /\ ioLen' = HookLen(via = "transfer", PAGE_SECTORS)
        /\ SC_IFS_Hook(via = "transfer")
        /\ UNCHANGED <<bypassed, faulted>>
     \/ /\ ioLen' = PAGE_SECTORS            \* the hook is not on this path
        /\ UNCHANGED SC_Seen
        /\ bypassed' = (bypassed \/ ifsHooked)
        /\ faulted' = (faulted \/ (Reading(t) /\ via = "transfer"))
  /\ UNCHANGED <<SC_Inflight, SC_Want, SC_Bounce, pfOk, file, mem,
                 ioRest>>

(* PAGEFILE gives up before any file I/O. *)
PageFileRefuses(t) ==
  /\ pc[t] = "call"
  /\ pc' = [pc EXCEPT ![t] = "ret"]
  /\ pfOk' = FALSE
  /\ faulted' = TRUE
  /\ UNCHANGED <<xferVars, SC_Bounce, ioLen, file, mem, bypassed,
                 ioRest>>

(* k sectors have moved; a failure may come after any number of them. *)
Moved(s, d, k) == [i \in Sector |-> IF i <= k THEN s[i] ELSE d[i]]

RawCells(c) == [i \in Sector |-> IF c = NoPage THEN NoPage ELSE <<"raw", c, i>>]

MoveSectors(t) ==
  /\ pc[t] = "io"
  /\ pc' = [pc EXCEPT ![t] = "ret"]
  /\ \E k \in 0 .. ioLen, ok \in BOOLEAN :
       /\ ok => k = ioLen
       /\ pfOk' = ok
       /\ faulted' = (faulted \/ ~ok)
       /\ IF Reading(t)
            THEN /\ UNCHANGED file
                 /\ IF via = "transfer"
                      THEN /\ SC_Bounce' = Moved(file[Cur(t)], SC_Bounce, k)
                           /\ UNCHANGED mem
                      ELSE /\ mem' = [mem EXCEPT ![t][idx] =
                                IF k = PAGE_SECTORS THEN RawPage(file[Cur(t)])
                                                    ELSE NoPage]
                           /\ UNCHANGED SC_Bounce
            ELSE /\ file' = [file EXCEPT ![Cur(t)] =
                       Moved(IF via = "transfer" THEN SC_Bounce
                                                 ELSE RawCells(Data(t)), @, k)]
                 /\ UNCHANGED <<SC_Bounce, mem>>
  /\ UNCHANGED <<xferVars, ioLen, bypassed, ioRest>>

(* A Ring0_FileIO of some other component, with a buffer of its own. *)
OtherFileIO ==
  /\ ifsHooked
  /\ SC_IFS_Hook(FALSE)
  /\ UNCHANGED <<SC_Inflight, SC_Want, SC_Bounce, pc, ioLen, pfOk, file, mem,
                 faulted, bypassed, ioRest>>

-----------------------------------------------------------------------------
(***************************************************************************)
(* Back from PAGEFILE: the rest of SC_Transfer and of SC_One.              *)
(***************************************************************************)
retRest == <<initVars, SC_Sem, SC_Busy, SC_Orig, SC_Bounce, ioLen, pfOk, file,
             pagerVars, faulted, bypassed>>

Transferred(t) ==
  /\ pc[t] = "ret" /\ via = "transfer"
  /\ SC_Inflight' = FALSE
  /\ UNCHANGED <<SC_Want, SC_Seen>>

(* Mutants of TransferOk: PAGEFILE's status is not looked at; a write that *)
(* bypassed the hook has failed as well.                                   *)
SeenIsEnough(t) == Reading(t) => SC_Seen
WriteMustBeSeen(t) == pfOk /\ SC_Seen

TransferOk(t) == pfOk /\ (Reading(t) => SC_Seen)

(* Mutant of TransferFails: the page is tried again. *)
TransferRetried(t) ==
  /\ Transferred(t)
  /\ ~TransferOk(t)
  /\ pc' = [pc EXCEPT ![t] = "page"]
  /\ UNCHANGED <<SC_Status, idx, SC_Disabled, SlotTab, via, mem, retRest>>

TransferFails(t) ==
  /\ Transferred(t)
  /\ ~TransferOk(t)
  /\ SC_Status' = "fail"
  /\ NextPage(t)
  /\ UNCHANGED <<SC_Disabled, SlotTab, via, mem, retRest>>

(* LZ4_Decompress of what was read: the page, if its whole block is there; *)
(* else an error or, with the sectors of several pages mixed, anything.    *)
Decompress(t) ==
  /\ Transferred(t)
  /\ TransferOk(t) /\ Reading(t)
  /\ LET n == SlotTab[Cur(t)]
         whole == {c \in Contents : HoldsLz(SC_Bounce, c, n)}
     IN \/ \E c \in IF whole # {} THEN whole ELSE Contents :
             mem' = [mem EXCEPT ![t][idx] = c] /\ UNCHANGED SC_Status
        \/ /\ whole = {}
           /\ mem' = [mem EXCEPT ![t][idx] = NoPage]
           /\ SC_Status' = "fail"
  /\ NextPage(t)
  /\ UNCHANGED <<SC_Disabled, SlotTab, via, retRest>>

CompWritten(t) ==
  /\ Transferred(t)
  /\ TransferOk(t) /\ ~Reading(t)
  /\ SC_Seen
  /\ SlotTab' = [SlotTab EXCEPT ![Cur(t)] = SC_Want]
  /\ NextPage(t)
  /\ UNCHANGED <<SC_Disabled, SC_Status, via, mem, retRest>>

(* Whatever PAGEFILE wrote is not a page: rewrite it whole and stop        *)
(* compressing for the session.                                            *)
NotSeen(t) ==
  /\ Transferred(t)
  /\ TransferOk(t) /\ ~Reading(t)
  /\ ~SC_Seen
  /\ SC_Disabled' = TRUE
  /\ via' = "pass"
  /\ pc' = [pc EXCEPT ![t] = "call"]
  /\ UNCHANGED <<SC_Status, SlotTab, idx, mem, retRest>>

Passed(t) ==
  /\ pc[t] = "ret" /\ via = "pass"
  /\ SC_Status' = IF pfOk THEN SC_Status ELSE "fail"
  /\ NextPage(t)
  /\ UNCHANGED <<xferVars, SC_Disabled, SlotTab, via, mem, retRest>>

FromPageFile(t) ==
  \/ TransferFails(t) \/ Decompress(t) \/ CompWritten(t) \/ NotSeen(t)
  \/ Passed(t)

-----------------------------------------------------------------------------
Serve(t) ==
  \/ SC_One(t)
  \/ FileIO(t) \/ PageFileRefuses(t) \/ MoveSectors(t)
  \/ FromPageFile(t)
  \/ Leave(t)

Next ==
  \/ DeviceInit
  \/ \E t \in Threads : Enter(t) \/ Acquire(t) \/ Serve(t)
  \/ OtherFileIO

Spec == Init /\ [][Next]_vars

(* The thread that holds the semaphore runs on, and PAGEFILE returns; a     *)
(* free semaphore wakes some waiter.  Which waiter is the VMM's choice.     *)
Fairness ==
  /\ \A t \in Threads : WF_vars(Serve(t))
  /\ WF_vars(\E t \in Threads : Acquire(t))

FairSpec == Spec /\ Fairness

-----------------------------------------------------------------------------
(***************************************************************************)
(* Correctness.                                                            *)
(***************************************************************************)

(* Past Wait_Semaphore, and between entry and exit of the hook. *)
Inside(t) == pc[t] \notin {"idle", "wait"}
Active == {t \in Threads : pc[t] # "idle"}

(* SC_Sem is held exactly by the one thread inside the loop, and SC_Busy   *)
(* counts the threads between entry and exit (SwapComp_Hook).              *)
OneAtATime ==
  /\ \A t, u \in Threads : Inside(t) /\ Inside(u) => t = u
  /\ (\E t \in Threads : Inside(t)) => SC_Sem = 0
  /\ SC_Busy = Cardinality(Active)

(* A read that is about to report success has every page the pager was     *)
(* promised, whatever was written, failed, bypassed or torn before.        *)
ReadsReturnLastWrite ==
  \A t \in Threads :
    pc[t] = "leave" /\ Reading(t) /\ SC_Status = "ok"
      => Store!Delivered(req[t], mem[t])

(* A request fails only when PAGEFILE failed in it, or a compressed read   *)
(* bypassed the hook, or it read a page nothing was promised about: a       *)
(* bypassed write is rescued by the fallback.                              *)
FailureHasCause ==
  \A t \in Threads :
    pc[t] = "leave" /\ SC_Status = "fail"
      => \/ faulted
         \/ /\ Reading(t)
            /\ \E p \in FilePage :
                 Store!Covers(req[t], p) /\ last[p] = NoPage

(* Compression is given up for the session only after a FileIO really      *)
(* bypassed the hook: never because the pager was hooked first.            *)
DisabledOnlyByBypass == SC_Disabled => bypassed

(* Whoever holds the semaphore gives it back.                              *)
HolderLeaves == \A t \in Threads : Inside(t) ~> ~Inside(t)

(* While anybody waits, requests keep being finished.                      *)
SomebodyServed ==
  (\E t \in Threads : pc[t] = "wait") ~> (\E t \in Threads : pc[t] = "leave")

(* The hooked pager service is still the store the pager relies on.        *)
ImplementsStore == Store!StoreSpec
-----------------------------------------------------------------------------
(***************************************************************************)
(* The inductive invariant behind these, in parts.                         *)
(***************************************************************************)
Working(t) == pc[t] \in {"call", "io", "ret"}

(* Reading file page p back now would give page c. *)
Stored(p, c) ==
  IF p \in Slot /\ SlotTab[p] = SC_ZERO_SLOT THEN c = Zero
  ELSE IF p \in Slot /\ SlotTab[p] # 0 THEN HoldsLz(file[p], c, SlotTab[p])
  ELSE HoldsRaw(file[p], c)

(* The pages of its request that thread t has begun, and has dealt with. *)
Begun(t) == IF pc[t] = "page" THEN idx - 1 ELSE idx
Done(t)  == IF pc[t] = "leave" THEN idx ELSE idx - 1

(* Threads, the semaphore and the place of the one request being served. *)
ThreadsOK ==
  /\ \A t \in Threads : pc[t] = "idle" <=> req[t] = NoPage
  /\ \A t \in Threads : Inside(t) => SC_Sem = 0
  /\ \A t, u \in Threads : Inside(t) /\ Inside(u) => t = u
  /\ \A t \in Threads : Inside(t) => idx <= req[t].n
  /\ \A t \in Threads : pc[t] = "leave" => idx = req[t].n
  /\ \A t \in Threads : pc[t] # "idle" => pagerHooked
  /\ pagerHooked => initPc = "done" /\ ifsHooked
  /\ initPc = "hookPager" => ifsHooked
  /\ SC_Busy = Cardinality(Active)

(* A write's buffer holds real pages and stays as the caller gave it. *)
BuffersOK ==
  \A t \in Threads :
    req[t] # NoPage /\ req[t].cmd = "write"
      => \A i \in 1 .. req[t].n : mem[t][i] \in Contents

(* What a transfer through the bounce buffer has achieved so far. *)
TransferSound(t) ==
  Working(t) /\ via = "transfer" =>
    /\ SC_Inflight
    /\ Covered(t)
    /\ SC_Want \in 1 .. SC_MAX_SECTORS
    /\ Reading(t) => SlotTab[Cur(t)] = SC_Want
    /\ ~Reading(t) => /\ SlotTab[Cur(t)] = 0
                      /\ HoldsLz(SC_Bounce, Data(t), SC_Want)
    /\ pc[t] = "call" => ~SC_Seen
    /\ pc[t] = "io" /\ SC_Seen => ioLen = SC_Want
    /\ pc[t] = "ret" /\ pfOk /\ SC_Seen =>
         IF Reading(t)
           THEN \A i \in 1 .. SC_Want : SC_Bounce[i] = file[Cur(t)][i]
           ELSE HoldsLz(file[Cur(t)], Data(t), SC_Want)

(* What handing the caller's buffer through has achieved so far. *)
PassSound(t) ==
  Working(t) /\ via = "pass" =>
    /\ Covered(t) => SlotTab[Cur(t)] = 0
    /\ pc[t] = "io" => ioLen = PAGE_SECTORS
    /\ pc[t] = "ret" /\ pfOk =>
         IF Reading(t)
           THEN Data(t) = RawPage(file[Cur(t)])
           ELSE HoldsRaw(file[Cur(t)], Data(t))

(* Every promised page outside the write under way can be read back. *)
SlotsKept ==
  \A p \in FilePage :
    \/ last[p] = NoPage
    \/ Stored(p, last[p])
    \/ \E t \in Threads :
         /\ Inside(t) /\ ~Reading(t)
         /\ Store!Covers(req[t], p)
         /\ Store!IndexOf(req[t], p) <= Begun(t)

(* The pages a request that is still good has dealt with are right. *)
PagesDone(t) ==
  Inside(t) /\ SC_Status = "ok" =>
    \A p \in FilePage :
      LET i == Store!IndexOf(req[t], p) IN
      Store!Covers(req[t], p) /\ i <= Done(t) =>
        IF Reading(t) THEN last[p] # NoPage => mem[t][i] = last[p]
                      ELSE Stored(p, mem[t][i])

(* Where faults have left their mark. *)
FaultsSound(t) ==
  Inside(t) =>
    /\ pc[t] = "ret" /\ ~pfOk => faulted
    /\ pc[t] \in {"io", "ret"} /\ via = "transfer" /\ ~SC_Seen =>
         /\ pc[t] = "io" \/ pfOk => bypassed
         /\ Reading(t) => faulted
    /\ SC_Status = "fail" =>
         \/ faulted
         \/ /\ Reading(t)
            /\ \E p \in FilePage :
                 Store!Covers(req[t], p) /\ last[p] = NoPage

Typed == TypeOK /\ ThreadsOK /\ BuffersOK

(* Between any two steps of SC_One, PAGEFILE and the IFS hook, SlotTab, the *)
(* file and the bounce buffer agree: every page the pager was promised can *)
(* be read back, but for the part of a write that is under way.            *)
Sound ==
  /\ Typed /\ SlotsKept
  /\ DisabledOnlyByBypass
  /\ \A t \in Threads :
       TransferSound(t) /\ PassSound(t) /\ PagesDone(t) /\ FaultsSound(t)
=============================================================================

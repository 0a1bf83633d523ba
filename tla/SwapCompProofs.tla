---------------------------- MODULE SwapCompProofs ----------------------------
(***************************************************************************)
(* SwapComp's invariants, for every set of threads, every page content and *)
(* every size of file, table, page and request.                            *)
(***************************************************************************)
EXTENDS SwapComp, FiniteSetTheorems, TLAPS

USE SwapAssumption, RequestAssumption

(* What a request in service is, spelled out for the provers. *)
LEMMA RequestFacts ==
  ASSUME NEW r \in Store!Request
  PROVE  /\ r.cmd \in {"read", "write"} /\ r.page \in FilePage
         /\ r.n \in 1 .. MaxPages /\ r.page + r.n <= NFilePages
         /\ r # NoPage
BY DEF Store!Request, Store!FilePage, FilePage

(* A thread inside has a request, and its current page is in the file. *)
LEMMA InsideFacts ==
  ASSUME Typed, NEW t \in Threads, Inside(t)
  PROVE  /\ req[t] \in Store!Request
         /\ req[t].cmd \in {"read", "write"}
         /\ req[t].page \in Nat /\ req[t].n \in 1 .. MaxPages
         /\ idx \in 1 .. req[t].n
         /\ Cur(t) \in FilePage
         /\ mem[t] \in [1 .. MaxPages -> Page]
         /\ Data(t) \in Page
         /\ ~Reading(t) => Data(t) \in Contents
<1>1. req[t] \in Store!Request
  BY DEF Typed, TypeOK, ThreadsOK, Inside
<1>2. /\ req[t].cmd \in {"read", "write"} /\ req[t].page \in FilePage
      /\ req[t].n \in 1 .. MaxPages /\ req[t].page + req[t].n <= NFilePages
      /\ req[t] # NoPage
  BY <1>1, RequestFacts
<1>3. idx \in 1 .. req[t].n
  BY <1>2 DEF Typed, TypeOK, ThreadsOK, Inside
<1>4. Cur(t) \in FilePage /\ req[t].page \in Nat
  BY <1>2, <1>3 DEF Cur, FilePage
<1>5. mem[t] \in [1 .. MaxPages -> Page] /\ idx \in 1 .. MaxPages
  BY DEF Typed, TypeOK
<1>6. Data(t) \in Page
  BY <1>5 DEF Data
<1>7. ~Reading(t) => Data(t) \in Contents
  BY <1>2, <1>3 DEF Typed, BuffersOK, Reading, Data
<1> QED BY <1>1, <1>2, <1>3, <1>4, <1>5, <1>6, <1>7

(* Type correctness of the initial state (SwapComp_Device_Init's start). *)
LEMMA TypedInit == Init => Typed
<1> SUFFICES ASSUME Init PROVE Typed
  OBVIOUS
<1>1. file \in [FilePage -> [Sector -> Cell]]
  BY DEF Init, Cell, Page
<1>2. last \in [FilePage -> Page]
  BY DEF Init
<1>3. /\ 0 \in 0 .. SC_MAX_SECTORS /\ 0 \in 0 .. PAGE_SECTORS
      /\ 1 \in 1 .. MaxPages
  OBVIOUS
<1>4. TypeOK
  <2>1. SlotTab \in [Slot -> 0 .. SC_MAX_SECTORS \cup {SC_ZERO_SLOT}]
    BY <1>3 DEF Init
  <2>2. SC_Bounce \in [Sector -> Cell]
    BY DEF Init, Cell
  <2>3. mem \in [Threads -> [1 .. MaxPages -> Page]]
    BY DEF Init, Page
  <2>4. req \in [Threads -> Store!Request \cup {NoPage}]
    BY DEF Init
  <2> QED BY <1>1, <1>2, <1>3, <2>1, <2>2, <2>3, <2>4 DEF Init, TypeOK
<1>5. ThreadsOK
  <2>1. Active = {}
    BY DEF Init, Active
  <2> QED BY <2>1, FS_EmptySet DEF Init, ThreadsOK, Inside
<1>6. BuffersOK
  BY DEF Init, BuffersOK
<1> QED BY <1>4, <1>5, <1>6 DEF Typed

-----------------------------------------------------------------------------
(***************************************************************************)
(* Typed is preserved.  First what every step of the thread inside shares. *)
(***************************************************************************)
LEMMA ThreadsStay ==
  ASSUME Typed, NEW t \in Threads, Inside(t),
         NEW x \in {"page", "call", "io", "ret", "leave"},
         pc' = [pc EXCEPT ![t] = x],
         UNCHANGED <<req, SC_Sem, SC_Busy, initVars>>,
         idx' \in 1 .. req[t].n,
         x = "leave" => idx' = req[t].n
  PROVE  ThreadsOK'
<1>1. \A u \in Threads : Inside(u)' <=> Inside(u)
  BY DEF Typed, TypeOK, Inside
<1>2. \A u \in Threads : pc'[u] = "idle" <=> pc[u] = "idle"
  BY DEF Typed, TypeOK, Inside
<1>3. \A u \in Threads : Inside(u) => u = t
  BY DEF Typed, ThreadsOK
<1>4. req[t].n \in Nat
  BY InsideFacts
<1>5. \A u \in Threads : u # t => pc'[u] # "leave"
  BY <1>3 DEF Typed, TypeOK, Inside
<1>6. Active' = Active
  BY <1>2 DEF Active
<1> QED BY <1>1, <1>2, <1>3, <1>4, <1>5, <1>6
    DEF Typed, TypeOK, ThreadsOK, initVars

LEMMA ActiveFinite == IsFiniteSet(Active)
BY FS_Subset DEF Active

(* The caller's buffer changes only under a read. *)
LEMMA BuffersStay ==
  ASSUME Typed, NEW t \in Threads, Inside(t), req' = req,
         \/ mem' = mem
         \/ Reading(t) /\ \E c \in Page : mem' = [mem EXCEPT ![t][idx] = c]
  PROVE  /\ mem' \in [Threads -> [1 .. MaxPages -> Page]]
         /\ BuffersOK'
<1>1. CASE mem' = mem
  BY <1>1 DEF Typed, TypeOK, BuffersOK
<1>2. CASE Reading(t) /\ \E c \in Page : mem' = [mem EXCEPT ![t][idx] = c]
  <2>1. PICK c \in Page : mem' = [mem EXCEPT ![t][idx] = c]
    BY <1>2
  <2>2. \A u \in Threads : u # t => mem'[u] = mem[u]
    BY <2>1 DEF Typed, TypeOK
  <2>3. req[t].cmd # "write"
    BY <1>2 DEF Reading
  <2>4. mem' \in [Threads -> [1 .. MaxPages -> Page]]
    BY <2>1 DEF Typed, TypeOK
  <2> QED BY <2>2, <2>3, <2>4 DEF Typed, BuffersOK
<1> QED BY <1>1, <1>2

LEMMA NextPageFacts ==
  ASSUME Typed, NEW t \in Threads, Inside(t), NextPage(t)
  PROVE  /\ \E x \in {"page", "leave"} :
              /\ pc' = [pc EXCEPT ![t] = x]
              /\ x = "leave" => idx' = req[t].n
              /\ x = "page" => idx' = idx + 1
         /\ idx' \in 1 .. req[t].n
         /\ idx' \in 1 .. MaxPages
         /\ pc' \in [Threads -> {"idle", "wait", "page", "call", "io", "ret",
                                 "leave"}]
<1>1. req[t].n \in 1 .. MaxPages /\ idx \in 1 .. req[t].n
  BY InsideFacts
<1>2. CASE idx < req[t].n
  <2>1. idx' = idx + 1 /\ pc' = [pc EXCEPT ![t] = "page"]
    BY <1>2 DEF NextPage
  <2> QED BY <1>1, <1>2, <2>1 DEF Typed, TypeOK
<1>3. CASE ~(idx < req[t].n)
  <2>1. idx = req[t].n
    BY <1>1, <1>3
  <2>2. idx' = idx /\ pc' = [pc EXCEPT ![t] = "leave"]
    BY <1>3 DEF NextPage
  <2> QED BY <1>1, <2>1, <2>2 DEF Typed, TypeOK
<1> QED BY <1>2, <1>3

LEMMA TypedEnter ==
  ASSUME Typed, NEW t \in Threads, Enter(t)
  PROVE  Typed'
<1>1. PICK r \in Store!Request, b \in [1 .. MaxPages -> Page] :
        /\ Store!BufferFor(r, b)
        /\ req' = [req EXCEPT ![t] = r]
        /\ mem' = [mem EXCEPT ![t] = b]
  BY DEF Enter, Store!Call, Store!Page, Page
<1>2. r.n \in 1 .. MaxPages /\ r # NoPage
  BY RequestFacts
<1>3. TypeOK'
  <2>1. result' \in [Threads -> {"none", "ok", "fail"}]
    BY DEF Enter, Store!Call, Typed, TypeOK
  <2>2. last' = last
    BY DEF Enter, Store!Call
  <2>3. req' \in [Threads -> Store!Request \cup {NoPage}]
    BY <1>1 DEF Typed, TypeOK
  <2>4. mem' \in [Threads -> [1 .. MaxPages -> Page]]
    BY <1>1 DEF Typed, TypeOK
  <2>5. /\ SC_Busy' \in Nat
        /\ pc' \in [Threads -> {"idle", "wait", "page", "call", "io", "ret",
                                "leave"}]
    BY DEF Enter, Typed, TypeOK
  <2> QED BY <2>1, <2>2, <2>3, <2>4, <2>5
       DEF Enter, Typed, TypeOK, initVars, xferVars
<1>4. ThreadsOK'
  <2>1. \A u \in Threads : Inside(u)' <=> Inside(u)
    BY DEF Enter, Typed, TypeOK, Inside
  <2>2. \A u \in Threads : u # t => pc'[u] = pc[u] /\ req'[u] = req[u]
    BY <1>1 DEF Enter, Typed, TypeOK
  <2>3. pc'[t] = "wait" /\ req'[t] = r
    BY <1>1 DEF Enter, Typed, TypeOK
  <2>4. SC_Busy' = Cardinality(Active')
    <3>1. t \notin Active /\ Active' = Active \cup {t}
      BY DEF Enter, Active, Typed, TypeOK
    <3>2. SC_Busy' = SC_Busy + 1 /\ SC_Busy = Cardinality(Active)
      BY DEF Enter, Typed, ThreadsOK
    <3> QED BY <3>1, <3>2, ActiveFinite, FS_AddElement
  <2> QED BY <1>2, <2>1, <2>2, <2>3, <2>4
       DEF Enter, Typed, ThreadsOK, initVars, Inside
<1>5. BuffersOK'
  <2> SUFFICES ASSUME NEW u \in Threads, req'[u] # NoPage,
                      req'[u].cmd = "write", NEW i \in 1 .. req'[u].n
               PROVE  mem'[u][i] \in Contents
    BY DEF BuffersOK
  <2>1. CASE u = t
    <3>1. req'[t] = r /\ mem'[t] = b
      BY <1>1 DEF Typed, TypeOK
    <3>2. i \in 1 .. MaxPages /\ i <= r.n
      BY <1>2, <2>1, <3>1
    <3> QED BY <1>1, <2>1, <3>1, <3>2 DEF Store!BufferFor
  <2>2. CASE u # t
    <3>1. req'[u] = req[u] /\ mem'[u] = mem[u]
      BY <1>1, <2>2 DEF Typed, TypeOK
    <3> QED BY <3>1 DEF Typed, BuffersOK
  <2> QED BY <2>1, <2>2
<1> QED BY <1>3, <1>4, <1>5 DEF Typed

LEMMA TypedDeviceInit == ASSUME Typed, DeviceInit PROVE Typed'
<1>1. /\ UNCHANGED <<SC_Busy, SC_Inflight, SC_Want, SC_Seen, SC_Disabled,
                     SC_Orig, SC_Status, SlotTab, SC_Bounce, pc>>
      /\ UNCHANGED <<idx, via, ioLen, pfOk, file, mem, req, result, last,
                     faulted, bypassed>>
  BY DEF DeviceInit, CreateSemaphore, HookIfs, HookPager, InitRest, xferVars,
         pagerVars
<1>2. /\ initPc' \in {"create", "hookIfs", "hookPager", "done"}
      /\ ifsHooked' \in BOOLEAN /\ pagerHooked' \in BOOLEAN
      /\ SC_Sem' \in {0, 1}
  BY DEF DeviceInit, CreateSemaphore, HookIfs, HookPager, Typed, TypeOK
<1>3. /\ ~pagerHooked /\ \A u \in Threads : pc[u] = "idle"
      /\ pagerHooked' => initPc' = "done" /\ ifsHooked'
      /\ initPc' = "hookPager" => ifsHooked'
  BY DEF DeviceInit, CreateSemaphore, HookIfs, HookPager, Typed, ThreadsOK
<1>4. TypeOK'
  BY <1>1, <1>2 DEF Typed, TypeOK
<1>5. ThreadsOK'
  BY <1>1, <1>3 DEF Typed, ThreadsOK, Inside, Active
<1>6. BuffersOK'
  BY <1>1 DEF Typed, BuffersOK
<1> QED BY <1>4, <1>5, <1>6 DEF Typed

LEMMA TypedAcquire ==
  ASSUME Typed, NEW t \in Threads, Acquire(t)
  PROVE  Typed'
<1>1. \A u \in Threads : ~Inside(u)
  BY DEF Acquire, Typed, TypeOK, ThreadsOK
<1>2. \A u \in Threads : Inside(u)' => u = t
  BY <1>1 DEF Acquire, Typed, TypeOK, Inside
<1>3. req[t] \in Store!Request
  BY DEF Acquire, Typed, TypeOK, ThreadsOK
<1>4. \A u \in Threads : pc'[u] = "idle" <=> pc[u] = "idle"
  BY DEF Acquire, Typed, TypeOK
<1>5. /\ SC_Sem' = 0 /\ idx' = 1 /\ SC_Orig' = t /\ SC_Status' = "ok"
      /\ faulted' = FALSE /\ pc'[t] = "page"
      /\ pc' \in [Threads -> {"idle", "wait", "page", "call", "io", "ret",
                              "leave"}]
      /\ UNCHANGED <<initPc, ifsHooked, pagerHooked, SC_Busy, SC_Inflight,
                     SC_Want, SC_Seen, SC_Disabled, SlotTab, SC_Bounce>>
      /\ UNCHANGED <<via, ioLen, pfOk, file, mem, req, result, last, bypassed>>
  BY DEF Acquire, Typed, TypeOK, initVars, xferVars, pagerVars
<1>6. ThreadsOK'
  <2>1. req[t].n \in 1 .. MaxPages
    BY <1>3, RequestFacts
  <2>2. \A u \in Threads : pc'[u] # "leave"
    BY <1>2, <1>5 DEF Inside
  <2>3. Active' = Active
    BY <1>4 DEF Active
  <2> QED BY <1>2, <1>4, <1>5, <2>1, <2>2, <2>3 DEF Typed, ThreadsOK
<1>7. BuffersOK'
  BY <1>5 DEF Typed, BuffersOK
<1>8. TypeOK'
  <2>1. SC_Sem' \in {0, 1} /\ idx' \in 1 .. MaxPages
    BY <1>5
  <2>2. SC_Orig' \in Threads \cup {NoThread} /\ SC_Status' \in {"ok", "fail"}
    BY <1>5
  <2>3. faulted' \in BOOLEAN
    BY <1>5
  <2> QED BY <1>5, <2>1, <2>2, <2>3 DEF Typed, TypeOK
<1> QED BY <1>6, <1>7, <1>8 DEF Typed

LEMMA PromiseType ==
  ASSUME Typed, NEW t \in Threads, Inside(t), NEW st
  PROVE  Store!Promise(req[t], st, mem[t]) \in [FilePage -> Page]
<1>1. /\ req[t].page \in Nat /\ req[t].n \in 1 .. MaxPages
      /\ mem[t] \in [1 .. MaxPages -> Page]
  BY InsideFacts
<1>2. \A p \in FilePage :
        Store!Covers(req[t], p) => Store!IndexOf(req[t], p) \in 1 .. MaxPages
  <2> SUFFICES ASSUME NEW p \in FilePage, Store!Covers(req[t], p)
               PROVE  Store!IndexOf(req[t], p) \in 1 .. MaxPages
    OBVIOUS
  <2>1. p \in Nat /\ p \in req[t].page .. req[t].page + req[t].n - 1
    BY DEF FilePage, Store!Covers
  <2>2. MaxPages \in Nat /\ req[t].n \in Nat /\ req[t].n <= MaxPages
    BY <1>1, SwapAssumption
  <2>3. /\ p - req[t].page + 1 \in Int
        /\ 1 <= p - req[t].page + 1 /\ p - req[t].page + 1 <= req[t].n
    BY <1>1, <2>1, <2>2
  <2>4. p - req[t].page + 1 \in 1 .. MaxPages
    BY <2>2, <2>3
  <2> QED BY <2>4 DEF Store!IndexOf
<1>3. last \in [FilePage -> Page] /\ Store!FilePage = FilePage
  BY DEF Typed, TypeOK, Store!FilePage, FilePage
<1>4. Page = Contents \cup {NoPage}
  BY DEF Page
<1>5. NoPage \in Page
  BY <1>4
<1>6. \A p \in FilePage :
        (IF req[t].cmd = "write" /\ Store!Covers(req[t], p)
           THEN IF st = "ok" THEN mem[t][Store!IndexOf(req[t], p)] ELSE NoPage
           ELSE last[p]) \in Page
  <2> SUFFICES ASSUME NEW p \in FilePage
               PROVE  (IF req[t].cmd = "write" /\ Store!Covers(req[t], p)
                         THEN IF st = "ok" THEN mem[t][Store!IndexOf(req[t], p)]
                                           ELSE NoPage
                         ELSE last[p]) \in Page
    OBVIOUS
  <2>1. last[p] \in Page
    BY <1>3
  <2>2. Store!Covers(req[t], p) => mem[t][Store!IndexOf(req[t], p)] \in Page
    BY <1>1, <1>2
  <2> QED BY <2>1, <2>2, <1>5
<1> QED BY <1>3, <1>6 DEF Store!Promise

LEMMA TypedLeave ==
  ASSUME Typed, NEW t \in Threads, Leave(t)
  PROVE  Typed'
<1>1. Inside(t) /\ \A u \in Threads : Inside(u) => u = t
  BY DEF Leave, Inside, Typed, ThreadsOK
<1>2. \A u \in Threads : ~Inside(u)'
  BY <1>1 DEF Leave, Typed, TypeOK, Inside
<1>3. /\ SC_Sem' = 1 /\ idx' = 1
      /\ pc' = [pc EXCEPT ![t] = "idle"]
      /\ pc' \in [Threads -> {"idle", "wait", "page", "call", "io", "ret",
                              "leave"}]
      /\ UNCHANGED <<initPc, ifsHooked, pagerHooked, SC_Inflight, SC_Want,
                     SC_Seen, SC_Disabled, SC_Orig, SC_Status, SlotTab,
                     SC_Bounce>>
      /\ UNCHANGED <<via, ioLen, pfOk, file, faulted, bypassed>>
  BY <1>1 DEF Leave, Typed, TypeOK, ThreadsOK, initVars, xferVars
<1>4. /\ req' = [req EXCEPT ![t] = NoPage]
      /\ req' \in [Threads -> Store!Request \cup {NoPage}]
      /\ result' \in [Threads -> {"none", "ok", "fail"}]
  BY DEF Leave, Typed, TypeOK
<1>5. /\ mem' = [mem EXCEPT ![t] = [i \in 1 .. MaxPages |-> NoPage]]
      /\ mem' \in [Threads -> [1 .. MaxPages -> Page]]
  BY DEF Leave, Typed, TypeOK, Page
<1>6. last' \in [FilePage -> Page]
  BY <1>1, PromiseType DEF Leave
<1>7. SC_Busy' \in Nat /\ SC_Busy' = Cardinality(Active')
  <2>1. t \in Active /\ Active' = Active \ {t}
    BY <1>1, <1>3 DEF Active, Typed, TypeOK, Inside
  <2>2. Cardinality(Active') = Cardinality(Active) - 1 /\ IsFiniteSet(Active')
    BY <2>1, ActiveFinite, FS_RemoveElement
  <2>3. Cardinality(Active') \in Nat
    BY <2>2, FS_CardinalityType
  <2> QED BY <2>2, <2>3 DEF Leave, Typed, ThreadsOK
<1>8. ThreadsOK'
  <2>1. \A u \in Threads : pc'[u] = "idle" <=> req'[u] = NoPage
    BY <1>3, <1>4 DEF Typed, TypeOK, ThreadsOK
  <2>2. \A u \in Threads : pc'[u] # "leave"
    BY <1>2 DEF Inside
  <2>3. pagerHooked'
    BY <1>1, <1>3 DEF Typed, ThreadsOK, Inside
  <2> QED BY <1>2, <1>3, <1>7, <2>1, <2>2, <2>3 DEF Typed, ThreadsOK
<1>9. BuffersOK'
  <2> SUFFICES ASSUME NEW u \in Threads, req'[u] # NoPage,
                      req'[u].cmd = "write", NEW i \in 1 .. req'[u].n
               PROVE  mem'[u][i] \in Contents
    BY DEF BuffersOK
  <2>1. u # t /\ req'[u] = req[u] /\ mem'[u] = mem[u]
    BY <1>4, <1>5 DEF Typed, TypeOK
  <2> QED BY <2>1 DEF Typed, BuffersOK
<1>10. SC_Sem' \in {0, 1} /\ idx' \in 1 .. MaxPages
  BY <1>3
<1>11. TypeOK'
  <2>1. SC_Busy' \in Nat
    BY <1>7
  <2>2. mem' \in [Threads -> [1 .. MaxPages -> Page]]
    BY <1>5
  <2>3. /\ req' \in [Threads -> Store!Request \cup {NoPage}]
        /\ result' \in [Threads -> {"none", "ok", "fail"}]
    BY <1>4
  <2>4. /\ pc' \in [Threads -> {"idle", "wait", "page", "call", "io", "ret",
                                "leave"}]
        /\ UNCHANGED <<initPc, ifsHooked, pagerHooked, SC_Inflight, SC_Want,
                       SC_Seen, SC_Disabled, SC_Orig, SC_Status, SlotTab,
                       SC_Bounce, via, ioLen, pfOk, file, faulted, bypassed>>
    BY <1>3
  <2> QED BY <1>6, <1>10, <2>1, <2>2, <2>3, <2>4 DEF Typed, TypeOK
<1> QED BY <1>8, <1>9, <1>11 DEF Typed

(* What a step of the thread inside must show to keep Typed. *)
LEMMA ServeTyped ==
  ASSUME Typed, NEW t \in Threads, Inside(t),
         UNCHANGED <<initVars, SC_Sem, SC_Busy, SC_Orig, pagerVars>>,
         NEW x \in {"page", "call", "io", "ret", "leave"},
         pc' = [pc EXCEPT ![t] = x],
         idx' \in 1 .. req[t].n,
         x = "leave" => idx' = req[t].n,
         \/ mem' = mem
         \/ Reading(t) /\ \E c \in Page : mem' = [mem EXCEPT ![t][idx] = c],
         SC_Inflight' \in BOOLEAN, SC_Seen' \in BOOLEAN,
         SC_Disabled' \in BOOLEAN, SC_Want' \in 0 .. SC_MAX_SECTORS,
         SC_Status' \in {"ok", "fail"},
         SlotTab' \in [Slot -> 0 .. SC_MAX_SECTORS \cup {SC_ZERO_SLOT}],
         SC_Bounce' \in [Sector -> Cell],
         via' \in {"transfer", "pass"},
         ioLen' \in 0 .. PAGE_SECTORS, pfOk' \in BOOLEAN,
         file' \in [FilePage -> [Sector -> Cell]],
         faulted' \in BOOLEAN, bypassed' \in BOOLEAN
  PROVE  Typed'
<1>1. /\ UNCHANGED <<initPc, ifsHooked, pagerHooked, req, result, last>>
      /\ UNCHANGED <<SC_Sem, SC_Busy, SC_Orig>>
  BY DEF initVars, pagerVars
<1>2. ThreadsOK'
  BY <1>1, ThreadsStay DEF initVars
<1>3. mem' \in [Threads -> [1 .. MaxPages -> Page]] /\ BuffersOK'
  BY <1>1, BuffersStay
<1>4. idx' \in 1 .. MaxPages
  <2>1. req[t].n \in 1 .. MaxPages
    BY InsideFacts
  <2> QED BY <2>1
<1>5. pc' \in [Threads -> {"idle", "wait", "page", "call", "io", "ret",
                          "leave"}]
  BY DEF Typed, TypeOK
<1>6. TypeOK'
  BY <1>1, <1>3, <1>4, <1>5 DEF Typed, TypeOK
<1> QED BY <1>2, <1>3, <1>6 DEF Typed

(* The same when the step ends with NextPage. *)
LEMMA NextPageTyped ==
  ASSUME Typed, NEW t \in Threads, Inside(t), NextPage(t),
         UNCHANGED <<initVars, SC_Sem, SC_Busy, SC_Orig, pagerVars>>,
         UNCHANGED <<SC_Bounce, ioLen, pfOk, file, faulted, bypassed>>,
         \/ mem' = mem
         \/ Reading(t) /\ \E c \in Page : mem' = [mem EXCEPT ![t][idx] = c],
         SC_Inflight' \in BOOLEAN,
         UNCHANGED <<SC_Want, SC_Seen, SC_Disabled, via>>,
         SC_Status' \in {"ok", "fail"},
         SlotTab' \in [Slot -> 0 .. SC_MAX_SECTORS \cup {SC_ZERO_SLOT}]
  PROVE  Typed'
<1>1. PICK x \in {"page", "call", "io", "ret", "leave"} :
        pc' = [pc EXCEPT ![t] = x] /\ (x = "leave" => idx' = req[t].n)
  <2>1. CASE idx < req[t].n
    BY <2>1 DEF NextPage
  <2>2. CASE ~(idx < req[t].n)
    <3>1. idx = req[t].n
      BY <2>2, InsideFacts
    <3> QED BY <2>2, <3>1 DEF NextPage
  <2> QED BY <2>1, <2>2
<1>2. idx' \in 1 .. req[t].n
  BY NextPageFacts
<1>3. /\ SC_Bounce' \in [Sector -> Cell] /\ ioLen' \in 0 .. PAGE_SECTORS
      /\ pfOk' \in BOOLEAN /\ file' \in [FilePage -> [Sector -> Cell]]
      /\ faulted' \in BOOLEAN /\ bypassed' \in BOOLEAN
      /\ SC_Seen' \in BOOLEAN /\ SC_Disabled' \in BOOLEAN
      /\ SC_Want' \in 0 .. SC_MAX_SECTORS /\ via' \in {"transfer", "pass"}
  BY DEF Typed, TypeOK
<1> QED BY <1>1, <1>2, <1>3, ServeTyped

(* SC_One's six ways to begin a page. *)
LEMMA TypedOne ==
  ASSUME Typed, NEW t \in Threads, SC_One(t)
  PROVE  Typed'
<1>1. pc[t] = "page" /\ Inside(t)
  BY DEF SC_One, ReadRaw, ReadZero, ReadComp, WriteRaw, WriteZero, WriteComp,
         Inside
<1>2. /\ UNCHANGED <<initVars, SC_Sem, SC_Busy, SC_Orig, pagerVars>>
      /\ UNCHANGED <<ioLen, pfOk, file, faulted, bypassed, SC_Disabled,
                     SC_Status>>
  BY DEF SC_One, ReadRaw, ReadZero, ReadComp, WriteRaw, WriteZero, WriteComp,
         oneRest
<1>3. /\ Cur(t) \in FilePage /\ idx \in 1 .. req[t].n /\ Data(t) \in Page
      /\ ~Reading(t) => Data(t) \in Contents
  BY <1>1, InsideFacts
<1>4. /\ SC_Inflight \in BOOLEAN /\ SC_Seen \in BOOLEAN
      /\ SC_Want \in 0 .. SC_MAX_SECTORS /\ via \in {"transfer", "pass"}
      /\ SlotTab \in [Slot -> 0 .. SC_MAX_SECTORS \cup {SC_ZERO_SLOT}]
      /\ SC_Bounce \in [Sector -> Cell]
  BY DEF Typed, TypeOK
<1>5. /\ SC_Disabled' \in BOOLEAN /\ SC_Status' \in {"ok", "fail"}
      /\ ioLen' \in 0 .. PAGE_SECTORS /\ pfOk' \in BOOLEAN
      /\ file' \in [FilePage -> [Sector -> Cell]]
      /\ faulted' \in BOOLEAN /\ bypassed' \in BOOLEAN
  BY <1>2 DEF Typed, TypeOK
<1>6. ClearSlot(t) \in [Slot -> 0 .. SC_MAX_SECTORS \cup {SC_ZERO_SLOT}]
  <2>1. 0 \in 0 .. SC_MAX_SECTORS
    OBVIOUS
  <2> QED BY <1>4, <2>1 DEF ClearSlot
<1>7. ASSUME StartPass(t), mem' = mem,
             SlotTab' \in [Slot -> 0 .. SC_MAX_SECTORS \cup {SC_ZERO_SLOT}],
             SC_Bounce' \in [Sector -> Cell]
      PROVE  Typed'
  <2>1. /\ pc' = [pc EXCEPT ![t] = "call"] /\ idx' \in 1 .. req[t].n
        /\ via' \in {"transfer", "pass"} /\ SC_Inflight' \in BOOLEAN
        /\ SC_Seen' \in BOOLEAN /\ SC_Want' \in 0 .. SC_MAX_SECTORS
    BY <1>3, <1>4, <1>7 DEF StartPass, xferVars
  <2> QED BY <1>1, <1>2, <1>5, <1>7, <2>1, ServeTyped
<1>8. ASSUME NEW n \in 0 .. SC_MAX_SECTORS, StartTransfer(t, n), mem' = mem,
             SlotTab' \in [Slot -> 0 .. SC_MAX_SECTORS \cup {SC_ZERO_SLOT}],
             SC_Bounce' \in [Sector -> Cell]
      PROVE  Typed'
  <2>1. /\ pc' = [pc EXCEPT ![t] = "call"] /\ idx' \in 1 .. req[t].n
        /\ via' \in {"transfer", "pass"} /\ SC_Inflight' \in BOOLEAN
        /\ SC_Seen' \in BOOLEAN /\ SC_Want' \in 0 .. SC_MAX_SECTORS
    BY <1>3, <1>8 DEF StartTransfer
  <2> QED BY <1>1, <1>2, <1>5, <1>8, <2>1, ServeTyped
<1>9. CASE ReadRaw(t)
  BY <1>4, <1>7, <1>9 DEF ReadRaw
<1>10. CASE ReadZero(t)
  <2>1. Reading(t) /\ mem' = [mem EXCEPT ![t][idx] = Zero] /\ Zero \in Page
    BY <1>10 DEF ReadZero, Page
  <2>2. /\ SC_Inflight' \in BOOLEAN /\ NextPage(t)
        /\ UNCHANGED <<SC_Want, SC_Seen, via, SlotTab, SC_Bounce>>
    BY <1>4, <1>10 DEF ReadZero, xferVars
  <2>3. Reading(t) /\ \E c \in Page : mem' = [mem EXCEPT ![t][idx] = c]
    BY <2>1
  <2> QED BY <1>1, <1>2, <1>4, <1>5, <2>2, <2>3, NextPageTyped
<1>11. CASE ReadComp(t)
  <2>1. SlotTab[Cur(t)] \in 0 .. SC_MAX_SECTORS
    BY <1>11 DEF ReadComp
  <2> QED BY <1>4, <1>8, <1>11, <2>1 DEF ReadComp
<1>12. CASE WriteRaw(t)
  BY <1>4, <1>6, <1>7, <1>12 DEF WriteRaw
<1>13. CASE WriteZero(t)
  <2>1. SlotTab' \in [Slot -> 0 .. SC_MAX_SECTORS \cup {SC_ZERO_SLOT}]
    BY <1>4, <1>13 DEF WriteZero
  <2>2. /\ SC_Inflight' \in BOOLEAN /\ NextPage(t)
        /\ UNCHANGED <<SC_Want, SC_Seen, via, mem, SC_Bounce>>
    BY <1>4, <1>13 DEF WriteZero, xferVars
  <2> QED BY <1>1, <1>2, <1>4, <1>5, <2>1, <2>2, NextPageTyped
<1>14. CASE WriteComp(t)
  <2>1. Data(t) \in Contents /\ LzSectors[Data(t)] \in 1 .. PAGE_SECTORS + 1
    BY <1>3, <1>14 DEF WriteComp
  <2>2. SC_Bounce' \in [Sector -> Cell]
    BY <1>4, <1>14, <2>1 DEF WriteComp, Cell
  <2>3. /\ SlotTab' = ClearSlot(t) /\ mem' = mem
        /\ \/ StartPass(t)
           \/ /\ StartTransfer(t, LzSectors[Data(t)])
              /\ LzSectors[Data(t)] <= SC_MAX_SECTORS
    BY <1>14 DEF WriteComp
  <2>4. CASE StartPass(t)
    BY <1>6, <1>7, <2>2, <2>3, <2>4
  <2>5. CASE /\ StartTransfer(t, LzSectors[Data(t)])
             /\ LzSectors[Data(t)] <= SC_MAX_SECTORS
    <3>1. LzSectors[Data(t)] \in 0 .. SC_MAX_SECTORS
      BY <2>1, <2>5
    <3> QED BY <1>6, <1>8, <2>2, <2>3, <2>5, <3>1
  <2> QED BY <2>3, <2>4, <2>5
<1> QED BY <1>9, <1>10, <1>11, <1>12, <1>13, <1>14 DEF SC_One

(* PAGEFILE's call, its FileIO through the IFS hook or not, its return. *)
LEMMA TypedFileIO ==
  ASSUME Typed, NEW t \in Threads,
         FileIO(t) \/ PageFileRefuses(t) \/ MoveSectors(t)
  PROVE  Typed'
<1>1. Inside(t)
  BY DEF FileIO, PageFileRefuses, MoveSectors, Inside
<1>2. /\ UNCHANGED <<initVars, SC_Sem, SC_Busy, SC_Orig, pagerVars>>
      /\ UNCHANGED <<SC_Inflight, SC_Want, SC_Disabled, SC_Status, SlotTab, idx,
                     via>>
  BY DEF FileIO, PageFileRefuses, MoveSectors, ioRest, xferVars
<1>3. /\ Cur(t) \in FilePage /\ idx \in 1 .. req[t].n /\ Data(t) \in Page
      /\ ~Reading(t) => Data(t) \in Contents
  BY <1>1, InsideFacts
<1>4. /\ SC_Inflight' \in BOOLEAN /\ SC_Want' \in 0 .. SC_MAX_SECTORS
      /\ SC_Disabled' \in BOOLEAN /\ SC_Status' \in {"ok", "fail"}
      /\ SlotTab' \in [Slot -> 0 .. SC_MAX_SECTORS \cup {SC_ZERO_SLOT}]
      /\ via' \in {"transfer", "pass"}
      /\ idx' \in 1 .. req[t].n
  BY <1>2, <1>3 DEF Typed, TypeOK
<1>5. /\ SC_Bounce \in [Sector -> Cell] /\ file \in [FilePage -> [Sector -> Cell]]
      /\ ioLen \in 0 .. PAGE_SECTORS /\ SC_Want \in 0 .. SC_MAX_SECTORS
      /\ SC_Inflight \in BOOLEAN /\ SC_Seen \in BOOLEAN /\ pfOk \in BOOLEAN
      /\ faulted \in BOOLEAN /\ bypassed \in BOOLEAN /\ ifsHooked \in BOOLEAN
  BY DEF Typed, TypeOK
<1>6. CASE FileIO(t)
  <2>1. ioLen' \in 0 .. PAGE_SECTORS
    BY <1>5, <1>6 DEF FileIO, HookLen
  <2>2. SC_Seen' \in BOOLEAN
    BY <1>5, <1>6 DEF FileIO, SC_IFS_Hook
  <2>3. faulted' \in BOOLEAN /\ bypassed' \in BOOLEAN
    BY <1>5, <1>6 DEF FileIO
  <2>4. pc' = [pc EXCEPT ![t] = "io"] /\ UNCHANGED <<SC_Bounce, pfOk, file, mem>>
    BY <1>6 DEF FileIO
  <2>5. SC_Bounce' \in [Sector -> Cell] /\ file' \in [FilePage -> [Sector -> Cell]]
    BY <1>5, <2>4
  <2>6. pfOk' \in BOOLEAN
    BY <1>5, <2>4
  <2> QED BY <1>1, <1>2, <1>4, <2>1, <2>2, <2>3, <2>4, <2>5, <2>6, ServeTyped
<1>7. CASE PageFileRefuses(t)
  <2>1. /\ pc' = [pc EXCEPT ![t] = "ret"]
        /\ UNCHANGED <<SC_Seen, SC_Bounce, ioLen, file, mem, bypassed>>
    BY <1>7 DEF PageFileRefuses, xferVars
  <2>2. pfOk' \in BOOLEAN /\ faulted' \in BOOLEAN
    BY <1>7 DEF PageFileRefuses
  <2>3. /\ SC_Bounce' \in [Sector -> Cell] /\ ioLen' \in 0 .. PAGE_SECTORS
        /\ file' \in [FilePage -> [Sector -> Cell]]
    BY <1>5, <2>1
  <2>4. SC_Seen' \in BOOLEAN /\ bypassed' \in BOOLEAN
    BY <1>5, <2>1
  <2> QED BY <1>1, <1>2, <1>4, <2>1, <2>2, <2>3, <2>4, ServeTyped
<1>8. CASE MoveSectors(t)
  <2>1. /\ pc' = [pc EXCEPT ![t] = "ret"]
        /\ UNCHANGED <<SC_Seen, ioLen, bypassed>>
    BY <1>8 DEF MoveSectors, xferVars
  <2>2. pfOk' \in BOOLEAN /\ faulted' \in BOOLEAN
    BY <1>5, <1>8 DEF MoveSectors
  <2>3. /\ \A s, d \in [Sector -> Cell] : \A k : Moved(s, d, k) \in [Sector -> Cell]
        /\ Data(t) \in Page => RawCells(Data(t)) \in [Sector -> Cell]
    BY DEF Moved, RawCells, Cell, Page
  <2>4. file[Cur(t)] \in [Sector -> Cell] /\ RawPage(file[Cur(t)]) \in Page
    BY <1>3, <1>5 DEF RawPage, Page
  <2>5. SC_Bounce' \in [Sector -> Cell]
    BY <1>5, <1>8, <2>3, <2>4 DEF MoveSectors
  <2>6. file' \in [FilePage -> [Sector -> Cell]]
    BY <1>3, <1>5, <1>8, <2>3, <2>4 DEF MoveSectors
  <2>7. \/ mem' = mem
        \/ Reading(t) /\ \E c \in Page : mem' = [mem EXCEPT ![t][idx] = c]
    BY <1>8, <2>4 DEF MoveSectors, Page
  <2>8. SC_Seen' \in BOOLEAN /\ bypassed' \in BOOLEAN
    BY <1>5, <2>1
  <2>9. ioLen' \in 0 .. PAGE_SECTORS
    BY <1>5, <2>1
  <2> QED BY <1>1, <1>2, <1>4, <2>1, <2>2, <2>5, <2>6, <2>7, <2>8, <2>9,
             ServeTyped
<1> QED BY <1>6, <1>7, <1>8

LEMMA TypedOther == ASSUME Typed, OtherFileIO PROVE Typed'
<1>1. /\ UNCHANGED <<initPc, ifsHooked, pagerHooked, SC_Sem, SC_Busy, SC_Inflight,
                     SC_Want, SC_Disabled, SC_Orig, SC_Status, SlotTab>>
      /\ UNCHANGED <<SC_Bounce, pc, idx, via, ioLen, pfOk, file, mem, req, result,
                     last, faulted, bypassed>>
  BY DEF OtherFileIO, ioRest, initVars, pagerVars
<1>2. SC_Seen' \in BOOLEAN
  BY DEF OtherFileIO, SC_IFS_Hook, Typed, TypeOK
<1>3. TypeOK'
  BY <1>1, <1>2 DEF Typed, TypeOK
<1>4. ThreadsOK'
  BY <1>1 DEF Typed, ThreadsOK, Inside, Active
<1>5. BuffersOK'
  BY <1>1 DEF Typed, BuffersOK
<1> QED BY <1>3, <1>4, <1>5 DEF Typed

(* The rest of SC_Transfer and SC_One after PAGEFILE returned. *)
LEMMA TypedFromPageFile ==
  ASSUME Typed, NEW t \in Threads, FromPageFile(t)
  PROVE  Typed'
<1>1. pc[t] = "ret" /\ Inside(t)
  BY DEF FromPageFile, TransferFails, Decompress, CompWritten, NotSeen, Passed,
         Transferred, Inside
<1>2. /\ UNCHANGED <<initVars, SC_Sem, SC_Busy, SC_Orig, pagerVars>>
      /\ UNCHANGED <<SC_Bounce, ioLen, pfOk, file, faulted, bypassed>>
      /\ UNCHANGED <<SC_Want, SC_Seen>>
  BY DEF FromPageFile, TransferFails, Decompress, CompWritten, NotSeen, Passed,
         Transferred, retRest, xferVars
<1>3. /\ Cur(t) \in FilePage /\ idx \in 1 .. req[t].n
  BY <1>1, InsideFacts
<1>4. /\ SC_Inflight \in BOOLEAN /\ SC_Status \in {"ok", "fail"}
      /\ SC_Want \in 0 .. SC_MAX_SECTORS
      /\ SlotTab \in [Slot -> 0 .. SC_MAX_SECTORS \cup {SC_ZERO_SLOT}]
  BY DEF Typed, TypeOK
<1>5. SC_Inflight' \in BOOLEAN
  BY <1>4 DEF FromPageFile, TransferFails, Decompress, CompWritten, NotSeen,
         Passed, Transferred, xferVars
<1>6. SlotTab' \in [Slot -> 0 .. SC_MAX_SECTORS \cup {SC_ZERO_SLOT}]
  BY <1>4 DEF FromPageFile, TransferFails, Decompress, CompWritten, NotSeen,
         Passed
<1>7. CASE TransferFails(t) \/ CompWritten(t) \/ Passed(t)
  <2>1. /\ NextPage(t) /\ mem' = mem /\ SC_Status' \in {"ok", "fail"}
        /\ UNCHANGED <<SC_Disabled, via>>
    BY <1>4, <1>7 DEF TransferFails, CompWritten, Passed
  <2> QED BY <1>1, <1>2, <1>5, <1>6, <2>1, NextPageTyped
<1>8. CASE Decompress(t)
  <2>1. NextPage(t) /\ UNCHANGED <<SC_Disabled, via>> /\ Reading(t)
    BY <1>8 DEF Decompress
  <2>2. \E c \in Page : mem' = [mem EXCEPT ![t][idx] = c]
    BY <1>8 DEF Decompress, Page
  <2>3. SC_Status' \in {"ok", "fail"}
    BY <1>4, <1>8 DEF Decompress
  <2> QED BY <1>1, <1>2, <1>5, <1>6, <2>1, <2>2, <2>3, NextPageTyped
<1>9. CASE NotSeen(t)
  <2>1. /\ pc' = [pc EXCEPT ![t] = "call"] /\ mem' = mem
        /\ idx' \in 1 .. req[t].n /\ via' \in {"transfer", "pass"}
        /\ SC_Status' \in {"ok", "fail"}
    BY <1>3, <1>4, <1>9 DEF NotSeen
  <2>2. SC_Disabled' \in BOOLEAN
    BY <1>9 DEF NotSeen
  <2>3. /\ SC_Want' \in 0 .. SC_MAX_SECTORS /\ SC_Bounce' \in [Sector -> Cell]
        /\ ioLen' \in 0 .. PAGE_SECTORS /\ file' \in [FilePage -> [Sector -> Cell]]
    BY <1>2 DEF Typed, TypeOK
  <2>4. /\ SC_Seen' \in BOOLEAN /\ pfOk' \in BOOLEAN /\ faulted' \in BOOLEAN
        /\ bypassed' \in BOOLEAN
    BY <1>2 DEF Typed, TypeOK
  <2> QED BY <1>1, <1>2, <1>5, <1>6, <2>1, <2>2, <2>3, <2>4, ServeTyped
<1> QED BY <1>7, <1>8, <1>9 DEF FromPageFile

LEMMA TypedStutter == ASSUME Typed, UNCHANGED vars PROVE Typed'
BY DEF Typed, TypeOK, ThreadsOK, BuffersOK, Inside, Active, vars, initVars,
       xferVars, pagerVars

LEMMA TypedNext == Typed /\ [Next]_vars => Typed'
<1> SUFFICES ASSUME Typed, [Next]_vars PROVE Typed'
  OBVIOUS
<1>1. ASSUME NEW t \in Threads, Serve(t) PROVE Typed'
  BY <1>1, TypedOne, TypedFileIO, TypedFromPageFile, TypedLeave DEF Serve
<1>2. ASSUME NEW t \in Threads, Enter(t) \/ Acquire(t) PROVE Typed'
  BY <1>2, TypedEnter, TypedAcquire
<1> QED BY <1>1, <1>2, TypedDeviceInit, TypedOther, TypedStutter DEF Next

LEMMA TypedAlways == Spec => []Typed
BY TypedInit, TypedNext, PTL DEF Spec

(* Every variable keeps its type in every run (all of SWAPCOMP.ASM's state, *)
(* the pager's side and the disk's).                                        *)
THEOREM TypeCorrect == Spec => []TypeOK
<1>1. Typed => TypeOK
  BY DEF Typed
<1> QED BY <1>1, TypedAlways, PTL

(* SC_Sem admits one request at a time, and SC_Busy counts the requests     *)
(* between entry and exit of SwapComp_Hook, contended ones included.        *)
THEOREM MutualExclusion == Spec => []OneAtATime
<1>1. Typed => OneAtATime
  BY DEF Typed, ThreadsOK, OneAtATime
<1> QED BY <1>1, TypedAlways, PTL

-----------------------------------------------------------------------------
(***************************************************************************)
(* No page is lost: the rest of SwapComp's inductive invariant Sound, and  *)
(* what follows from it.  The typing and locking part is above.            *)
(***************************************************************************)

(* Sectors hold at most one page, raw or compressed. *)
LEMMA OneRawPage ==
  ASSUME NEW s, NEW c \in Contents, HoldsRaw(s, c)
  PROVE  RawPage(s) = c
<1>1. 1 \in Sector
  BY DEF Sector
<1>2. \A d \in Contents : HoldsRaw(s, d) => d = c
  BY <1>1 DEF HoldsRaw
<1> QED BY <1>2 DEF RawPage

LEMMA OneLzPage ==
  ASSUME NEW s, NEW n, NEW c \in Contents, NEW d \in Contents,
         HoldsLz(s, c, n), HoldsLz(s, d, n)
  PROVE  c = d
<1>1. 1 \in 1 .. LzSectors[c] /\ 1 \in 1 .. LzSectors[d]
  OBVIOUS
<1> QED BY <1>1 DEF HoldsLz

(* A block is still there in sectors that agree on the first n. *)
LEMMA LzCopied ==
  ASSUME NEW s, NEW d, NEW n \in Nat, NEW c \in Contents, HoldsLz(s, c, n),
         \A i \in 1 .. n : d[i] = s[i]
  PROVE  HoldsLz(d, c, n)
<1>1. LzSectors[c] \in Nat /\ LzSectors[c] <= n
  BY DEF HoldsLz
<1>2. \A i \in 1 .. LzSectors[c] : i \in 1 .. n
  BY <1>1
<1> QED BY <1>2 DEF HoldsLz

(* The file page a thread is at, as a page of its request. *)
LEMMA CurFacts ==
  ASSUME Typed, NEW t \in Threads, Inside(t)
  PROVE  /\ Cur(t) \in FilePage
         /\ Store!Covers(req[t], Cur(t)) /\ Store!IndexOf(req[t], Cur(t)) = idx
         /\ \A p \in FilePage :
              Store!Covers(req[t], p) =>
                /\ Store!IndexOf(req[t], p) \in 1 .. req[t].n
                /\ Store!IndexOf(req[t], p) = idx <=> p = Cur(t)
<1>1. /\ req[t].page \in Nat /\ req[t].n \in 1 .. MaxPages
      /\ idx \in 1 .. req[t].n /\ Cur(t) \in FilePage
  BY InsideFacts
<1>2. Store!Covers(req[t], Cur(t)) /\ Store!IndexOf(req[t], Cur(t)) = idx
  BY <1>1 DEF Cur, Store!Covers, Store!IndexOf
<1>3. ASSUME NEW p \in FilePage, Store!Covers(req[t], p)
      PROVE  /\ Store!IndexOf(req[t], p) \in 1 .. req[t].n
             /\ Store!IndexOf(req[t], p) = idx <=> p = Cur(t)
  <2>1. p \in Nat /\ p \in req[t].page .. req[t].page + req[t].n - 1
    BY <1>3 DEF FilePage, Store!Covers
  <2> QED BY <1>1, <2>1 DEF Store!IndexOf, Cur
<1> QED BY <1>1, <1>2, <1>3

LEMMA StoredFrame ==
  ASSUME NEW p, NEW c, file'[p] = file[p], p \in Slot => SlotTab'[p] = SlotTab[p]
  PROVE  Stored(p, c)' <=> Stored(p, c)
BY DEF Stored, HoldsLz, HoldsRaw

(* The parts of Sound that speak of the thread inside, for it alone. *)
ThreadSound(t) ==
  TransferSound(t) /\ PassSound(t) /\ PagesDone(t) /\ FaultsSound(t)

LEMMA Alone ==
  ASSUME Typed', NEW t \in Threads, Inside(t)', ThreadSound(t)', SlotsKept',
         DisabledOnlyByBypass'
  PROVE  Sound'
<1>1. \A u \in Threads : u # t => ~Inside(u)' /\ ~Working(u)'
  BY DEF Typed, ThreadsOK, Inside, Working
<1>2. \A u \in Threads : ThreadSound(u)'
  BY <1>1 DEF ThreadSound, TransferSound, PassSound, PagesDone, FaultsSound
<1> QED BY <1>2 DEF Sound, ThreadSound

LEMMA NobodyInside ==
  ASSUME Typed', \A u \in Threads : ~Inside(u)', SlotsKept',
         DisabledOnlyByBypass'
  PROVE  Sound'
<1>1. \A u \in Threads : ~Working(u)'
  BY DEF Inside, Working
<1> QED BY <1>1 DEF Sound, TransferSound, PassSound, PagesDone, FaultsSound

(* A step of thread t disturbs no promise but, at most, that of the page   *)
(* it is writing.                                                          *)
LEMMA SlotsStep ==
  ASSUME Sound, NEW t \in Threads, Inside(t), Inside(t)', req' = req, last' = last,
         Begun(t)' >= Begun(t), Begun(t)' \in Int, Begun(t) \in Int,
         \A p \in FilePage : p # Cur(t) =>
           file'[p] = file[p] /\ (p \in Slot => SlotTab'[p] = SlotTab[p]),
         \/ UNCHANGED <<file, SlotTab>>
         \/ ~Reading(t) /\ idx <= Begun(t)'
  PROVE  SlotsKept'
<1> SUFFICES ASSUME NEW p \in FilePage, last[p] # NoPage, ~Stored(p, last[p])'
             PROVE  \E u \in Threads :
                      /\ Inside(u)' /\ ~Reading(u)'
                      /\ Store!Covers(req'[u], p)
                      /\ Store!IndexOf(req'[u], p) <= Begun(u)'
  BY DEF SlotsKept
<1>0. Typed
  BY DEF Sound
<1>1. CASE p = Cur(t) /\ ~Reading(t) /\ idx <= Begun(t)'
  <2>1. Store!Covers(req[t], p) /\ Store!IndexOf(req[t], p) = idx
    BY <1>0, <1>1, CurFacts
  <2> QED BY <1>1, <2>1 DEF Reading
<1>2. CASE ~(p = Cur(t) /\ ~Reading(t) /\ idx <= Begun(t)')
  <2>1. file'[p] = file[p] /\ (p \in Slot => SlotTab'[p] = SlotTab[p])
    BY <1>2
  <2>2. ~Stored(p, last[p])
    BY <2>1, StoredFrame
  <2>3. PICK u \in Threads : /\ Inside(u) /\ ~Reading(u)
                            /\ Store!Covers(req[u], p)
                            /\ Store!IndexOf(req[u], p) <= Begun(u)
    BY <2>2 DEF Sound, SlotsKept
  <2>4. u = t
    BY <1>0, <2>3 DEF Typed, ThreadsOK
  <2>5. Store!IndexOf(req[t], p) \in Int
    BY <1>0, <2>3, <2>4, CurFacts
  <2> QED BY <2>3, <2>4, <2>5 DEF Reading
<1> QED BY <1>1, <1>2

(* NextPage: the page is begun and dealt with, and no FileIO is under way. *)
LEMMA NextPageCounts ==
  ASSUME Typed, NEW t \in Threads, Inside(t), NextPage(t)
  PROVE  /\ Inside(t)' /\ ~Working(t)'
         /\ Begun(t)' = idx /\ Done(t)' = idx
<1>1. idx \in Nat /\ pc \in [Threads -> {"idle", "wait", "page", "call", "io", "ret",
                                         "leave"}]
  BY DEF Typed, TypeOK
<1>2. CASE idx < req[t].n
  <2>1. idx' = idx + 1 /\ pc'[t] = "page"
    BY <1>1, <1>2 DEF NextPage
  <2> QED BY <1>1, <2>1 DEF Inside, Working, Begun, Done
<1>3. CASE ~(idx < req[t].n)
  <2>1. idx' = idx /\ pc'[t] = "leave"
    BY <1>1, <1>3 DEF NextPage
  <2> QED BY <1>1, <2>1 DEF Inside, Working, Begun, Done
<1> QED BY <1>2, <1>3

(* The pages before the current one stay right; the current one, if it is  *)
(* dealt with, is right by the last premise.                               *)
LEMMA DoneStep ==
  ASSUME Sound, NEW t \in Threads, Inside(t), Inside(t)', req' = req, last' = last,
         SC_Status' = "ok" => SC_Status = "ok",
         Done(t)' \in {idx - 1, idx}, pc[t] # "leave",
         \A p \in FilePage : p # Cur(t) =>
           file'[p] = file[p] /\ (p \in Slot => SlotTab'[p] = SlotTab[p]),
         \A i \in 1 .. req[t].n : i # idx => mem'[t][i] = mem[t][i],
         ~Reading(t) => mem' = mem,
         Done(t)' = idx /\ SC_Status' = "ok" =>
           IF Reading(t) THEN last[Cur(t)] # NoPage => mem'[t][idx] = last[Cur(t)]
             ELSE \A p, c : p = Cur(t) /\ c = Data(t) => Stored(p, c)'
  PROVE  PagesDone(t)'
<1>0. Typed
  BY DEF Sound
<1> SUFFICES ASSUME SC_Status' = "ok", NEW p \in FilePage,
                    Store!Covers(req[t], p), NEW i, i = Store!IndexOf(req[t], p),
                    i <= Done(t)'
             PROVE  IF Reading(t) THEN last[p] # NoPage => mem'[t][i] = last[p]
                                  ELSE Stored(p, mem[t][i])'
  BY DEF PagesDone, Reading
<1>1. /\ i \in 1 .. req[t].n /\ (i = idx <=> p = Cur(t)) /\ idx \in 1 .. req[t].n
      /\ req[t].n \in Nat
  BY <1>0, CurFacts, InsideFacts
<1>2. CASE i = idx
  <2>1. Done(t)' = idx
    BY <1>1, <1>2
  <2>2. CASE Reading(t)
    BY <1>1, <1>2, <2>1, <2>2
  <2>3. CASE ~Reading(t)
    <3>1. p = Cur(t) /\ mem[t][i] = Data(t) /\ mem' = mem
      BY <1>1, <1>2, <2>3 DEF Data
    <3>2. \A c : c = mem[t][i] => Stored(p, c)'
      BY <2>1, <2>3, <3>1
    <3> QED BY <2>3, <3>1, <3>2 DEF Stored
  <2> QED BY <2>2, <2>3
<1>3. CASE i # idx
  <2>1. i <= idx - 1 /\ p # Cur(t)
    BY <1>1, <1>3
  <2>2. i <= Done(t)
    BY <2>1 DEF Done
  <2>3. IF Reading(t) THEN last[p] # NoPage => mem[t][i] = last[p]
                      ELSE Stored(p, mem[t][i])
    BY <2>2 DEF Sound, PagesDone
  <2>4. CASE Reading(t)
    BY <1>1, <1>3, <2>3, <2>4
  <2>5. CASE ~Reading(t)
    <3>1. Stored(p, mem[t][i]) /\ mem' = mem
      BY <2>3, <2>5
    <3>2. \A c : Stored(p, c)' <=> Stored(p, c)
      BY <2>1, StoredFrame
    <3> QED BY <2>5, <3>1, <3>2 DEF Stored
  <2> QED BY <2>4, <2>5
<1> QED BY <1>2, <1>3

(* A request that has failed has a cause, in the page it failed at or an   *)
(* earlier one.                                                            *)
HasCause(t) ==
  \/ faulted
  \/ Reading(t) /\ \E p \in FilePage : Store!Covers(req[t], p) /\ last[p] = NoPage

(* A step that ends with NextPage: only the current page is to be shown    *)
(* right, and a failure to have a cause.                                   *)
LEMMA NextPageSound ==
  ASSUME Sound, Typed', NEW t \in Threads, pc[t] \in {"page", "ret"}, NextPage(t),
         req' = req, last' = last, file' = file, faulted' = faulted,
         DisabledOnlyByBypass',
         \A p \in FilePage : p # Cur(t) => (p \in Slot => SlotTab'[p] = SlotTab[p]),
         \/ SlotTab' = SlotTab
         \/ ~Reading(t),
         \A i \in 1 .. req[t].n : i # idx => mem'[t][i] = mem[t][i],
         ~Reading(t) => mem' = mem,
         SC_Status' = "ok" => SC_Status = "ok",
         SC_Status' = "fail" => SC_Status = "fail" \/ HasCause(t),
         SC_Status' = "ok" =>
           IF Reading(t) THEN last[Cur(t)] # NoPage => mem'[t][idx] = last[Cur(t)]
             ELSE \A p, c : p = Cur(t) /\ c = Data(t) => Stored(p, c)'
  PROVE  Sound'
<1>0. Typed /\ Inside(t)
  BY DEF Sound, Inside
<1>1. Inside(t)' /\ ~Working(t)' /\ Begun(t)' = idx /\ Done(t)' = idx
  BY <1>0, NextPageCounts
<1>2. idx \in Int /\ Begun(t) \in Int /\ Begun(t) <= idx
  BY <1>0 DEF Typed, TypeOK, Begun
<1>3. PagesDone(t)'
  <2>1. Done(t)' \in {idx - 1, idx} /\ pc[t] # "leave"
    BY <1>1
  <2> QED BY <1>0, <1>1, <2>1, DoneStep
<1>4. SlotsKept'
  BY <1>0, <1>1, <1>2, SlotsStep
<1>5. TransferSound(t)' /\ PassSound(t)'
  BY <1>1 DEF TransferSound, PassSound
<1>6. FaultsSound(t)'
  <2>1. SC_Status = "fail" => HasCause(t)
    BY <1>0 DEF Sound, FaultsSound, HasCause
  <2>2. SC_Status' = "fail" => HasCause(t)'
    BY <2>1 DEF HasCause, Reading
  <2>3. pc'[t] \notin {"io", "ret"}
    BY <1>1 DEF Working
  <2> QED BY <2>2, <2>3 DEF FaultsSound, HasCause
<1> QED BY <1>1, <1>3, <1>4, <1>5, <1>6, Alone DEF ThreadSound

(* A step that stays in the current page. *)
LEMMA SamePageSound ==
  ASSUME Sound, Typed', NEW t \in Threads, pc[t] \in {"page", "call", "io", "ret"},
         NEW x \in {"call", "io", "ret"}, pc' = [pc EXCEPT ![t] = x],
         idx' = idx, req' = req, last' = last, SC_Status' = SC_Status,
         faulted => faulted',
         DisabledOnlyByBypass',
         \A p \in FilePage : p # Cur(t) =>
           file'[p] = file[p] /\ (p \in Slot => SlotTab'[p] = SlotTab[p]),
         \/ UNCHANGED <<file, SlotTab>>
         \/ ~Reading(t),
         \A i \in 1 .. req[t].n : i # idx => mem'[t][i] = mem[t][i],
         ~Reading(t) => mem' = mem,
         TransferSound(t)', PassSound(t)',
         x \in {"io", "ret"} /\ via' = "transfer" /\ ~SC_Seen' =>
           /\ x = "io" \/ pfOk' => bypassed'
           /\ Reading(t) => faulted',
         x = "ret" /\ ~pfOk' => faulted'
  PROVE  Sound'
<1>0. Typed /\ Inside(t) /\ pc'[t] = x
  BY DEF Sound, Inside, Typed, TypeOK
<1>1. Inside(t)' /\ Begun(t)' = idx /\ Done(t)' = idx - 1
  BY <1>0 DEF Inside, Begun, Done
<1>2. idx \in Int /\ Begun(t) \in Int /\ Begun(t) <= idx
  BY <1>0 DEF Typed, TypeOK, Begun
<1>3. PagesDone(t)'
  <2>1. Done(t)' \in {idx - 1, idx} /\ pc[t] # "leave" /\ Done(t)' # idx
    BY <1>1, <1>2
  <2> QED BY <1>0, <1>1, <2>1, DoneStep
<1>4. SlotsKept'
  BY <1>0, <1>1, <1>2, SlotsStep
<1>5. FaultsSound(t)'
  <2>1. SC_Status = "fail" => HasCause(t)
    BY <1>0 DEF Sound, FaultsSound, HasCause
  <2>2. SC_Status' = "fail" => HasCause(t)'
    BY <2>1 DEF HasCause, Reading
  <2> QED BY <1>0, <2>2 DEF FaultsSound, HasCause, Reading
<1> QED BY <1>1, <1>3, <1>4, <1>5, Alone DEF ThreadSound

-----------------------------------------------------------------------------
(***************************************************************************)
(* One lemma per action, in the order of SwapComp.                         *)
(***************************************************************************)
LEMMA SoundInit == Init => Sound
<1> SUFFICES ASSUME Init PROVE Sound
  OBVIOUS
<1>1. \A t \in Threads : ~Inside(t) /\ ~Working(t)
  BY DEF Init, Inside, Working
<1>2. SlotsKept
  <2> SUFFICES ASSUME NEW p \in FilePage, last[p] # NoPage
               PROVE  Stored(p, last[p])
    BY DEF SlotsKept
  <2>1. p \in Slot => SlotTab[p] = 0
    BY DEF Init
  <2>2. HoldsRaw(file[p], last[p])
    BY DEF Init, HoldsRaw
  <2> QED BY <2>1, <2>2 DEF Stored, SC_ZERO_SLOT
<1>3. DisabledOnlyByBypass
  BY DEF Init, DisabledOnlyByBypass
<1> QED BY <1>1, <1>2, <1>3, TypedInit
        DEF Sound, TransferSound, PassSound, PagesDone, FaultsSound

(* Nothing that Sound speaks of, beyond Typed, changes for threads inside. *)
LEMMA Undisturbed ==
  ASSUME Sound, Typed',
         UNCHANGED <<SC_Inflight, SC_Want, SC_Seen, SC_Disabled, SC_Status,
                     SlotTab, SC_Bounce, idx, via, ioLen, pfOk, file, last,
                     faulted, bypassed>>,
         \A u \in Threads : Inside(u)' <=> Inside(u),
         \A u \in Threads : Inside(u) =>
           pc'[u] = pc[u] /\ req'[u] = req[u] /\ mem'[u] = mem[u]
  PROVE  Sound'
<1>1. SlotsKept'
  BY DEF Sound, SlotsKept, Stored, HoldsLz, HoldsRaw, Reading, Begun
<1>2. DisabledOnlyByBypass'
  BY DEF Sound, DisabledOnlyByBypass
<1>3. ASSUME NEW u \in Threads PROVE ThreadSound(u)'
  <2>1. CASE ~Inside(u)
    <3>1. ~Inside(u)' /\ ~Working(u)'
      BY <2>1 DEF Inside, Working
    <3> QED BY <3>1
        DEF ThreadSound, TransferSound, PassSound, PagesDone, FaultsSound
  <2>2. CASE Inside(u)
    <3>1. /\ pc'[u] = pc[u] /\ req'[u] = req[u] /\ mem'[u] = mem[u]
          /\ Cur(u)' = Cur(u) /\ Data(u)' = Data(u) /\ Done(u)' = Done(u)
          /\ Reading(u)' <=> Reading(u)
          /\ Covered(u)' <=> Covered(u)
      BY <2>2 DEF Cur, Data, Reading, Covered, Done
    <3>2. ThreadSound(u)
      BY DEF Sound, ThreadSound
    <3>3. TransferSound(u)'
      BY <3>1, <3>2 DEF ThreadSound, TransferSound, Working, HoldsLz
    <3>4. PassSound(u)'
      BY <3>1, <3>2 DEF ThreadSound, PassSound, Working, HoldsRaw, RawPage
    <3>5. PagesDone(u)'
      BY <2>2, <3>1, <3>2 DEF ThreadSound, PagesDone, Stored, HoldsLz, HoldsRaw
    <3>6. FaultsSound(u)'
      BY <2>2, <3>1, <3>2 DEF ThreadSound, FaultsSound
    <3> QED BY <3>3, <3>4, <3>5, <3>6 DEF ThreadSound
  <2> QED BY <2>1, <2>2
<1> QED BY <1>1, <1>2, <1>3 DEF Sound, ThreadSound

LEMMA SoundDeviceInit == ASSUME Sound, DeviceInit PROVE Sound'
<1>1. Typed'
  BY TypedDeviceInit DEF Sound
<1>2. /\ UNCHANGED <<SC_Inflight, SC_Want, SC_Seen, SC_Disabled, SC_Status,
                     SlotTab, SC_Bounce, idx, via, ioLen, pfOk, file, last,
                     faulted, bypassed>>
      /\ UNCHANGED <<pc, req, mem>>
  BY DEF DeviceInit, CreateSemaphore, HookIfs, HookPager, InitRest, xferVars,
         pagerVars
<1> QED BY <1>1, <1>2, Undisturbed DEF Inside

LEMMA SoundOther == ASSUME Sound, OtherFileIO PROVE Sound'
<1>1. Typed'
  BY TypedOther DEF Sound
<1>2. /\ UNCHANGED <<SC_Inflight, SC_Want, SC_Disabled, SC_Status, SlotTab,
                     SC_Bounce, idx, via, ioLen, pfOk, file, last, faulted,
                     bypassed>>
      /\ UNCHANGED <<pc, req, mem>>
  BY DEF OtherFileIO, ioRest, pagerVars
<1>3. SC_Seen' = SC_Seen
  BY DEF OtherFileIO, SC_IFS_Hook, Sound, Typed, TypeOK
<1> QED BY <1>1, <1>2, <1>3, Undisturbed DEF Inside

LEMMA SoundEnter ==
  ASSUME Sound, NEW t \in Threads, Enter(t)
  PROVE  Sound'
<1>1. Typed'
  BY TypedEnter DEF Sound
<1>2. UNCHANGED <<SC_Inflight, SC_Want, SC_Seen, SC_Disabled, SC_Status,
                  SlotTab, SC_Bounce, idx, via, ioLen, pfOk, file, last,
                  faulted, bypassed>>
  BY DEF Enter, xferVars, Store!Call
<1>3. PICK r, b : req' = [req EXCEPT ![t] = r] /\ mem' = [mem EXCEPT ![t] = b]
  BY DEF Enter, Store!Call
<1>4. pc[t] = "idle" /\ pc' = [pc EXCEPT ![t] = "wait"]
  BY DEF Enter
<1>5. \A u \in Threads : Inside(u)' <=> Inside(u)
  BY <1>4 DEF Inside, Sound, Typed, TypeOK
<1>6. \A u \in Threads : Inside(u) =>
        pc'[u] = pc[u] /\ req'[u] = req[u] /\ mem'[u] = mem[u]
  BY <1>3, <1>4 DEF Inside, Sound, Typed, TypeOK
<1> QED BY <1>1, <1>2, <1>5, <1>6, Undisturbed

LEMMA SoundAcquire ==
  ASSUME Sound, NEW t \in Threads, Acquire(t)
  PROVE  Sound'
<1>1. Typed'
  BY TypedAcquire DEF Sound
<1>2. /\ UNCHANGED <<SC_Disabled, SlotTab, file, mem, req, last, bypassed>>
      /\ SC_Status' = "ok" /\ idx' = 1 /\ pc'[t] = "page"
  BY DEF Acquire, pagerVars, Sound, Typed, TypeOK
<1>3. Inside(t)' /\ ~Working(t)' /\ Done(t)' = 0
  BY <1>2 DEF Inside, Working, Done
<1>4. \A u \in Threads : ~Inside(u)
  BY DEF Acquire, Sound, Typed, TypeOK, ThreadsOK
<1>5. SlotsKept'
  BY <1>2, <1>4 DEF Sound, SlotsKept, Stored, HoldsLz, HoldsRaw
<1>6. DisabledOnlyByBypass'
  BY <1>2 DEF Sound, DisabledOnlyByBypass
<1>7. PagesDone(t)'
  <2>1. req[t].page \in Nat
    <3>1. req[t] \in Store!Request
      BY DEF Acquire, Sound, Typed, TypeOK, ThreadsOK
    <3> QED BY <3>1, RequestFacts DEF FilePage
  <2>2. \A p \in FilePage :
          Store!Covers(req[t], p) => Store!IndexOf(req[t], p) >= 1
    BY <2>1 DEF Store!Covers, Store!IndexOf, FilePage
  <2>3. \A p \in FilePage :
          Store!Covers(req[t], p) => ~(Store!IndexOf(req[t], p) <= 0)
    BY <2>1, <2>2 DEF Store!IndexOf, FilePage
  <2> QED BY <1>2, <1>3, <2>3 DEF PagesDone
<1>8. TransferSound(t)' /\ PassSound(t)' /\ FaultsSound(t)'
  BY <1>2, <1>3 DEF TransferSound, PassSound, FaultsSound
<1> QED BY <1>1, <1>3, <1>5, <1>6, <1>7, <1>8, Alone DEF ThreadSound

LEMMA SoundLeave ==
  ASSUME Sound, NEW t \in Threads, Leave(t)
  PROVE  Sound'
<1>1. Typed /\ Typed'
  BY TypedLeave DEF Sound
<1>2. pc[t] = "leave" /\ Inside(t) /\ \A u \in Threads : Inside(u) => u = t
  BY DEF Leave, Inside, Sound, Typed, ThreadsOK
<1>3. \A u \in Threads : ~Inside(u)'
  BY <1>1, <1>2 DEF Leave, Typed, TypeOK, Inside
<1>4. UNCHANGED <<SC_Disabled, SlotTab, file, bypassed>>
  BY DEF Leave
<1>5. DisabledOnlyByBypass'
  BY <1>4 DEF Sound, DisabledOnlyByBypass
<1>6. SlotsKept'
  <2> SUFFICES ASSUME NEW p \in FilePage, last'[p] # NoPage
               PROVE  Stored(p, last[p])'
    BY DEF SlotsKept
  <2>1. last'[p] = Store!Promise(req[t], SC_Status, mem[t])[p]
    BY DEF Leave
  <2>2. CASE req[t].cmd = "write" /\ Store!Covers(req[t], p)
    <3>1. SC_Status = "ok" /\ last'[p] = mem[t][Store!IndexOf(req[t], p)]
      BY <2>1, <2>2 DEF Store!Promise, Store!FilePage, FilePage
    <3>2. Store!IndexOf(req[t], p) <= Done(t)
      BY <1>1, <1>2, <2>2, CurFacts DEF Done, Typed, ThreadsOK
    <3>3. ~Reading(t)
      BY <2>2 DEF Reading
    <3>4. Stored(p, mem[t][Store!IndexOf(req[t], p)])
      BY <1>2, <2>2, <3>1, <3>2, <3>3 DEF Sound, PagesDone
    <3> QED BY <1>4, <3>1, <3>4 DEF Stored, HoldsLz, HoldsRaw
  <2>3. CASE ~(req[t].cmd = "write" /\ Store!Covers(req[t], p))
    <3>1. last'[p] = last[p]
      BY <2>1, <2>3 DEF Store!Promise, Store!FilePage, FilePage
    <3>2. req[t].cmd \in {"read", "write"}
      BY <1>1, <1>2, InsideFacts
    <3>3. Stored(p, last[p])
      BY <1>2, <2>3, <3>1, <3>2 DEF Sound, SlotsKept, Reading
    <3> QED BY <1>4, <3>1, <3>3 DEF Stored, HoldsLz, HoldsRaw
  <2> QED BY <2>2, <2>3
<1> QED BY <1>1, <1>3, <1>5, <1>6, NobodyInside

(* SC_One, read and write, by what the slot and the page call for. *)
LEMMA SoundReadRaw ==
  ASSUME Sound, NEW t \in Threads, ReadRaw(t)
  PROVE  Sound'
<1>1. Typed' /\ Typed
  BY TypedOne DEF Sound, SC_One
<1>2. /\ pc[t] = "page" /\ Reading(t) /\ via' = "pass"
      /\ pc' = [pc EXCEPT ![t] = "call"]
      /\ UNCHANGED <<SC_Disabled, SC_Status, SlotTab, mem, file, idx, req, last,
                     faulted, bypassed>>
      /\ Covered(t) => SlotTab[Cur(t)] = 0
  BY DEF ReadRaw, StartPass, oneRest, pagerVars
<1>3. pc'[t] = "call"
  BY <1>1, <1>2 DEF Typed, TypeOK
<1>4. DisabledOnlyByBypass'
  BY <1>2 DEF Sound, DisabledOnlyByBypass
<1>5. TransferSound(t)' /\ PassSound(t)'
  BY <1>2, <1>3 DEF TransferSound, PassSound, Covered, Cur
<1> QED BY <1>1, <1>2, <1>4, <1>5, SamePageSound

LEMMA SoundReadZero ==
  ASSUME Sound, NEW t \in Threads, ReadZero(t)
  PROVE  Sound'
<1>1. Typed' /\ Typed /\ Inside(t)
  BY TypedOne DEF Sound, SC_One, ReadZero, Inside
<1>2. /\ pc[t] = "page" /\ Reading(t) /\ NextPage(t)
      /\ mem' = [mem EXCEPT ![t][idx] = Zero]
      /\ UNCHANGED <<SC_Disabled, SC_Status, SlotTab, file, req, last,
                     faulted, bypassed>>
      /\ Covered(t) /\ SlotTab[Cur(t)] = SC_ZERO_SLOT
  BY DEF ReadZero, oneRest, pagerVars
<1>3. DisabledOnlyByBypass'
  BY <1>2 DEF Sound, DisabledOnlyByBypass
<1>4. mem'[t][idx] = Zero /\ \A i \in 1 .. req[t].n : i # idx => mem'[t][i] = mem[t][i]
  BY <1>1, <1>2, InsideFacts DEF Typed, TypeOK
<1>5. last[Cur(t)] # NoPage => last[Cur(t)] = Zero
  BY <1>1, <1>2, CurFacts DEF Sound, SlotsKept, Stored, Covered, Typed, ThreadsOK
<1> QED BY <1>1, <1>2, <1>3, <1>4, <1>5, NextPageSound

LEMMA SoundReadComp ==
  ASSUME Sound, NEW t \in Threads, ReadComp(t)
  PROVE  Sound'
<1>1. Typed' /\ Typed
  BY TypedOne DEF Sound, SC_One
<1>2. /\ pc[t] = "page" /\ Reading(t) /\ Covered(t)
      /\ SlotTab[Cur(t)] \in 1 .. SC_MAX_SECTORS
      /\ via' = "transfer" /\ SC_Inflight' /\ SC_Want' = SlotTab[Cur(t)]
      /\ SC_Seen' = FALSE
      /\ pc' = [pc EXCEPT ![t] = "call"]
      /\ UNCHANGED <<SC_Disabled, SC_Status, SlotTab, mem, file, idx, req, last,
                     faulted, bypassed>>
  BY DEF ReadComp, StartTransfer, oneRest, pagerVars
<1>3. pc'[t] = "call"
  BY <1>1, <1>2 DEF Typed, TypeOK
<1>4. DisabledOnlyByBypass'
  BY <1>2 DEF Sound, DisabledOnlyByBypass
<1>5. TransferSound(t)' /\ PassSound(t)'
  BY <1>2, <1>3 DEF TransferSound, PassSound, Covered, Cur, Reading
<1> QED BY <1>1, <1>2, <1>4, <1>5, SamePageSound

LEMMA SoundWriteRaw ==
  ASSUME Sound, NEW t \in Threads, WriteRaw(t)
  PROVE  Sound'
<1>1. Typed' /\ Typed
  BY TypedOne DEF Sound, SC_One
<1>2. /\ pc[t] = "page" /\ ~Reading(t) /\ via' = "pass"
      /\ SlotTab' = IF Covered(t) THEN ClearSlot(t) ELSE SlotTab
      /\ pc' = [pc EXCEPT ![t] = "call"]
      /\ UNCHANGED <<SC_Disabled, SC_Status, mem, file, idx, req, last,
                     faulted, bypassed>>
  BY DEF WriteRaw, StartPass, oneRest, pagerVars
<1>3. pc'[t] = "call"
  BY <1>1, <1>2 DEF Typed, TypeOK
<1>4. DisabledOnlyByBypass'
  BY <1>2 DEF Sound, DisabledOnlyByBypass
<1>5. /\ \A p \in Slot : p # Cur(t) => SlotTab'[p] = SlotTab[p]
      /\ Covered(t) => SlotTab'[Cur(t)] = 0
  BY <1>1, <1>2 DEF ClearSlot, Covered, Typed, TypeOK
<1>6. TransferSound(t)' /\ PassSound(t)'
  BY <1>2, <1>3, <1>5 DEF TransferSound, PassSound, Covered, Cur
<1> QED BY <1>1, <1>2, <1>4, <1>5, <1>6, SamePageSound

LEMMA SoundWriteZero ==
  ASSUME Sound, NEW t \in Threads, WriteZero(t)
  PROVE  Sound'
<1>1. Typed' /\ Typed
  BY TypedOne DEF Sound, SC_One
<1>2. /\ pc[t] = "page" /\ ~Reading(t) /\ Covered(t) /\ NextPage(t)
      /\ Data(t) = Zero
      /\ SlotTab' = [SlotTab EXCEPT ![Cur(t)] = SC_ZERO_SLOT]
      /\ UNCHANGED <<SC_Disabled, SC_Status, mem, file, req, last,
                     faulted, bypassed>>
  BY DEF WriteZero, oneRest, pagerVars
<1>3. DisabledOnlyByBypass'
  BY <1>2 DEF Sound, DisabledOnlyByBypass
<1>4. /\ \A p \in Slot : p # Cur(t) => SlotTab'[p] = SlotTab[p]
      /\ SlotTab'[Cur(t)] = SC_ZERO_SLOT
  BY <1>1, <1>2 DEF Covered, Typed, TypeOK
<1>5. \A p, c : p = Cur(t) /\ c = Data(t) => Stored(p, c)'
  BY <1>2, <1>4 DEF Stored, Covered
<1> QED BY <1>1, <1>2, <1>3, <1>4, <1>5, NextPageSound

LEMMA SoundWriteComp ==
  ASSUME Sound, NEW t \in Threads, WriteComp(t)
  PROVE  Sound'
<1> DEFINE n == LzSectors[Data(t)]
<1>1. Typed' /\ Typed /\ Inside(t)
  BY TypedOne DEF Sound, SC_One, WriteComp, Inside
<1>2. /\ pc[t] = "page" /\ ~Reading(t) /\ Covered(t)
      /\ SlotTab' = ClearSlot(t)
      /\ SC_Bounce' = [i \in Sector |->
                         IF i <= n THEN <<"lz", Data(t), i>> ELSE SC_Bounce[i]]
      /\ pc' = [pc EXCEPT ![t] = "call"]
      /\ UNCHANGED <<SC_Disabled, SC_Status, mem, file, idx, req, last,
                     faulted, bypassed>>
      /\ \/ via' = "pass"
         \/ /\ n <= SC_MAX_SECTORS /\ via' = "transfer"
            /\ SC_Inflight' /\ SC_Want' = n /\ SC_Seen' = FALSE
  BY DEF WriteComp, StartTransfer, StartPass, oneRest, pagerVars
<1>3. pc'[t] = "call"
  BY <1>1, <1>2 DEF Typed, TypeOK
<1>4. DisabledOnlyByBypass'
  BY <1>2 DEF Sound, DisabledOnlyByBypass
<1>5. /\ \A p \in Slot : p # Cur(t) => SlotTab'[p] = SlotTab[p]
      /\ SlotTab'[Cur(t)] = 0
  BY <1>1, <1>2 DEF ClearSlot, Covered, Typed, TypeOK
<1>6. PassSound(t)'
  BY <1>2, <1>3, <1>5 DEF PassSound, Covered, Cur
<1>7. TransferSound(t)'
  <2> SUFFICES ASSUME via' = "transfer" PROVE TransferSound(t)'
    BY DEF TransferSound
  <2>1. n \in 1 .. PAGE_SECTORS + 1 /\ n <= SC_MAX_SECTORS
    <3>1. Data(t) \in Contents
      BY <1>1, <1>2, InsideFacts
    <3> QED BY <1>2, <3>1
  <2>2. n \in 1 .. SC_MAX_SECTORS /\ \A i \in 1 .. n : i \in Sector
    BY <2>1 DEF Sector
  <2>3. \A i \in 1 .. n : SC_Bounce'[i] = <<"lz", Data(t), i>>
    BY <1>2, <2>2
  <2>4. \A c : c = Data(t) => HoldsLz(SC_Bounce', c, n)
    BY <2>1, <2>3 DEF HoldsLz
  <2>5. Data(t)' = Data(t) /\ Cur(t)' = Cur(t) /\ (Covered(t)' <=> Covered(t))
        /\ (Reading(t)' <=> Reading(t))
    BY <1>2 DEF Data, Cur, Covered, Reading
  <2>6. HoldsLz(SC_Bounce, Data(t), SC_Want)'
    BY <1>2, <2>4, <2>5 DEF HoldsLz
  <2> QED BY <1>2, <1>3, <1>5, <2>2, <2>5, <2>6 DEF TransferSound
<1> QED BY <1>1, <1>2, <1>4, <1>5, <1>6, <1>7, SamePageSound

LEMMA SoundOne ==
  ASSUME Sound, NEW t \in Threads, SC_One(t)
  PROVE  Sound'
BY SoundReadRaw, SoundReadZero, SoundReadComp, SoundWriteRaw, SoundWriteZero,
   SoundWriteComp DEF SC_One

(* The file I/O below PAGEFILE. *)
LEMMA SoundFileIO ==
  ASSUME Sound, NEW t \in Threads, FileIO(t)
  PROVE  Sound'
<1>1. Typed' /\ Typed /\ Inside(t)
  BY TypedFileIO DEF Sound, FileIO, Inside
<1>2. /\ pc[t] = "call" /\ pc' = [pc EXCEPT ![t] = "io"] /\ pc'[t] = "io"
      /\ UNCHANGED <<SC_Inflight, SC_Want, SC_Bounce, SC_Disabled, SC_Status,
                     SlotTab, idx, via, mem, file, req, last>>
  BY <1>1 DEF FileIO, ioRest, pagerVars, Typed, TypeOK
<1>3. ifsHooked /\ TransferSound(t) /\ PassSound(t) /\ Working(t)
  <2>1. ifsHooked
    BY <1>1 DEF Typed, ThreadsOK, Inside
  <2> QED BY <1>2, <2>1 DEF Sound, Working
<1>4. /\ Cur(t)' = Cur(t) /\ Data(t)' = Data(t) /\ (Covered(t)' <=> Covered(t))
      /\ (Reading(t)' <=> Reading(t))
  BY <1>2 DEF Cur, Data, Covered, Reading
<1>5. /\ via = "transfer" /\ SC_Seen' => ioLen' = SC_Want
      /\ via = "pass" => ioLen' = PAGE_SECTORS
  BY <1>2, <1>3 DEF FileIO, HookLen, TransferSound
<1>6. /\ bypassed => bypassed'
      /\ faulted => faulted'
      /\ via = "transfer" /\ ~SC_Seen' => bypassed' /\ (Reading(t) => faulted')
  <2>1. CASE UNCHANGED <<bypassed, faulted>> /\ SC_IFS_Hook(via = "transfer")
    <3>1. via = "transfer" => SC_Inflight
      BY <1>3 DEF TransferSound
    <3>2. via = "transfer" => SC_Seen'
      BY <2>1, <3>1 DEF SC_IFS_Hook
    <3> QED BY <2>1, <3>2
  <2>2. CASE /\ bypassed' = (bypassed \/ ifsHooked)
             /\ faulted' = (faulted \/ (Reading(t) /\ via = "transfer"))
    BY <1>3, <2>2
  <2> QED BY <2>1, <2>2 DEF FileIO
<1>7. TransferSound(t)'
  BY <1>2, <1>3, <1>4, <1>5 DEF TransferSound, Working, HoldsLz
<1>8. PassSound(t)'
  BY <1>2, <1>3, <1>4, <1>5 DEF PassSound, Working
<1>9. DisabledOnlyByBypass'
  BY <1>2, <1>6 DEF Sound, DisabledOnlyByBypass
<1> QED BY <1>1, <1>2, <1>6, <1>7, <1>8, <1>9, SamePageSound

LEMMA SoundRefuses ==
  ASSUME Sound, NEW t \in Threads, PageFileRefuses(t)
  PROVE  Sound'
<1>1. Typed' /\ Typed
  BY TypedFileIO DEF Sound
<1>2. /\ pc[t] = "call" /\ pc' = [pc EXCEPT ![t] = "ret"] /\ pc'[t] = "ret"
      /\ UNCHANGED <<SC_Inflight, SC_Want, SC_Seen, SC_Bounce, SC_Disabled,
                     SC_Status, SlotTab, idx, via, mem, file, req, last,
                     bypassed>>
      /\ ~pfOk' /\ faulted'
  BY <1>1 DEF PageFileRefuses, ioRest, xferVars, pagerVars, Typed, TypeOK
<1>3. TransferSound(t) /\ PassSound(t) /\ Working(t)
  BY <1>2 DEF Sound, Working
<1>4. /\ Cur(t)' = Cur(t) /\ Data(t)' = Data(t) /\ (Covered(t)' <=> Covered(t))
      /\ (Reading(t)' <=> Reading(t))
  BY <1>2 DEF Cur, Data, Covered, Reading
<1>5. TransferSound(t)'
  BY <1>2, <1>3, <1>4 DEF TransferSound, Working, HoldsLz
<1>6. PassSound(t)'
  BY <1>2, <1>3, <1>4 DEF PassSound, Working
<1>7. DisabledOnlyByBypass'
  BY <1>2 DEF Sound, DisabledOnlyByBypass
<1> QED BY <1>1, <1>2, <1>5, <1>6, <1>7, SamePageSound

LEMMA SoundMoveSectors ==
  ASSUME Sound, NEW t \in Threads, MoveSectors(t)
  PROVE  Sound'
<1>1. Typed' /\ Typed /\ Inside(t)
  BY TypedFileIO DEF Sound, MoveSectors, Inside
<1>2. /\ pc[t] = "io" /\ pc' = [pc EXCEPT ![t] = "ret"] /\ pc'[t] = "ret"
      /\ UNCHANGED <<SC_Inflight, SC_Want, SC_Seen, SC_Disabled, SC_Status,
                     SlotTab, idx, via, req, last, bypassed>>
  BY <1>1 DEF MoveSectors, ioRest, xferVars, pagerVars, Typed, TypeOK
<1>3. TransferSound(t) /\ PassSound(t) /\ FaultsSound(t) /\ Working(t)
  BY <1>2 DEF Sound, Working
<1>4. /\ Cur(t)' = Cur(t) /\ (Covered(t)' <=> Covered(t))
      /\ (Reading(t)' <=> Reading(t))
  BY <1>2 DEF Cur, Covered, Reading
<1>5. PICK k \in 0 .. ioLen, ok \in BOOLEAN :
        /\ ok => k = ioLen
        /\ pfOk' = ok
        /\ faulted' = (faulted \/ ~ok)
        /\ IF Reading(t)
             THEN /\ UNCHANGED file
                  /\ IF via = "transfer"
                       THEN /\ SC_Bounce' = Moved(file[Cur(t)], SC_Bounce, k)
                            /\ UNCHANGED mem
                       ELSE /\ mem' = [mem EXCEPT ![t][idx] =
                                 IF k = PAGE_SECTORS THEN RawPage(file[Cur(t)])
                                                     ELSE NoPage]
                            /\ UNCHANGED SC_Bounce
             ELSE /\ file' = [file EXCEPT ![Cur(t)] =
                        Moved(IF via = "transfer" THEN SC_Bounce
                                                  ELSE RawCells(Data(t)), @, k)]
                  /\ UNCHANGED <<SC_Bounce, mem>>
  BY DEF MoveSectors
<1>6. /\ Cur(t) \in FilePage /\ idx \in 1 .. MaxPages
      /\ ~Reading(t) => Data(t) \in Contents
      /\ Data(t) \in Page
  BY <1>1, InsideFacts DEF Typed, TypeOK
<1>7. /\ \A p \in FilePage : p # Cur(t) => file'[p] = file[p]
      /\ \A i \in 1 .. req[t].n : i # idx => mem'[t][i] = mem[t][i]
      /\ Reading(t) => file' = file
      /\ ~Reading(t) => mem' = mem
      /\ via = "transfer" => mem' = mem
  <2>1. \A p \in FilePage : p # Cur(t) => file'[p] = file[p]
    BY <1>1, <1>5, <1>6 DEF Typed, TypeOK
  <2>2. req[t].n \in 1 .. MaxPages /\ \A i \in 1 .. req[t].n : i \in 1 .. MaxPages
    BY <1>1, InsideFacts
  <2>3. \A i \in 1 .. req[t].n : i # idx => mem'[t][i] = mem[t][i]
    BY <1>1, <1>5, <1>6, <2>2 DEF Typed, TypeOK
  <2> QED BY <1>2, <1>5, <2>1, <2>3
<1>8. TransferSound(t)'
  <2> SUFFICES ASSUME via = "transfer"
               PROVE  TransferSound(t)'
    BY <1>2 DEF TransferSound
  <2>1. /\ SC_Inflight /\ Covered(t) /\ SC_Want \in 1 .. SC_MAX_SECTORS
        /\ Reading(t) => SlotTab[Cur(t)] = SC_Want
        /\ ~Reading(t) => /\ SlotTab[Cur(t)] = 0
                          /\ HoldsLz(SC_Bounce, Data(t), SC_Want)
        /\ SC_Seen => ioLen = SC_Want
    BY <1>2, <1>3 DEF TransferSound
  <2>2. Data(t)' = Data(t)
    BY <1>2, <1>7 DEF Data
  <2>3. \A i \in 1 .. SC_Want : i \in Sector
    BY <2>1 DEF Sector
  <2>4. pfOk' /\ SC_Seen => k = SC_Want
    BY <1>5, <2>1
  <2>5. CASE Reading(t)
    <3>1. pfOk' /\ SC_Seen =>
            \A i \in 1 .. SC_Want : SC_Bounce'[i] = file'[Cur(t)][i]
      BY <1>5, <2>1, <2>3, <2>4, <2>5 DEF Moved
    <3> QED BY <1>2, <1>4, <2>1, <2>5, <3>1 DEF TransferSound
  <2>6. CASE ~Reading(t)
    <3>1. file'[Cur(t)] = Moved(SC_Bounce, file[Cur(t)], k) /\ SC_Bounce' = SC_Bounce
      BY <1>1, <1>5, <1>6, <2>6 DEF Typed, TypeOK
    <3>2. pfOk' /\ SC_Seen =>
            \A i \in 1 .. SC_Want : file'[Cur(t)][i] = SC_Bounce[i]
      BY <2>1, <2>3, <2>4, <3>1 DEF Moved
    <3>3. pfOk' /\ SC_Seen => HoldsLz(file'[Cur(t)], Data(t), SC_Want)
      BY <1>6, <2>1, <2>6, <3>2, LzCopied
    <3>4. HoldsLz(SC_Bounce', Data(t), SC_Want)
      BY <2>1, <2>6, <3>1
    <3>5. HoldsLz(SC_Bounce, Data(t), SC_Want)'
      BY <1>2, <2>2, <3>4 DEF HoldsLz
    <3>6. (pfOk /\ SC_Seen => HoldsLz(file[Cur(t)], Data(t), SC_Want))'
      BY <1>2, <1>4, <2>2, <3>3 DEF HoldsLz
    <3> QED BY <1>2, <1>4, <2>1, <2>6, <3>5, <3>6 DEF TransferSound
  <2> QED BY <2>5, <2>6
<1>9. PassSound(t)'
  <2> SUFFICES ASSUME via = "pass"
               PROVE  PassSound(t)'
    BY <1>2 DEF PassSound
  <2>1. /\ Covered(t) => SlotTab[Cur(t)] = 0
        /\ ioLen = PAGE_SECTORS
    BY <1>2, <1>3 DEF PassSound
  <2>2. CASE Reading(t)
    <3>1. pfOk' => mem'[t][idx] = RawPage(file[Cur(t)])
      BY <1>1, <1>5, <1>6, <2>1, <2>2 DEF Typed, TypeOK
    <3>2. pfOk' => (Data(t) = RawPage(file[Cur(t)]))'
      BY <1>2, <1>4, <1>7, <2>2, <3>1 DEF Data, RawPage, HoldsRaw
    <3> QED BY <1>2, <1>4, <2>1, <2>2, <3>2 DEF PassSound
  <2>3. CASE ~Reading(t)
    <3>1. file'[Cur(t)] = Moved(RawCells(Data(t)), file[Cur(t)], k)
      BY <1>1, <1>5, <1>6, <2>3 DEF Typed, TypeOK
    <3>2. Data(t)' = Data(t) /\ Data(t) # NoPage
      BY <1>2, <1>6, <1>7, <2>3 DEF Data
    <3>3. pfOk' => \A i \in Sector : file'[Cur(t)][i] = <<"raw", Data(t), i>>
      <4>1. pfOk' => k = PAGE_SECTORS
        BY <1>5, <2>1
      <4>2. \A i \in Sector : i <= PAGE_SECTORS
        BY DEF Sector
      <4> QED BY <3>1, <3>2, <4>1, <4>2 DEF Moved, RawCells
    <3>4. pfOk' => HoldsRaw(file[Cur(t)], Data(t))'
      BY <1>4, <3>2, <3>3 DEF HoldsRaw
    <3> QED BY <1>2, <1>4, <2>1, <2>3, <3>4 DEF PassSound
  <2> QED BY <2>2, <2>3
<1>10. DisabledOnlyByBypass'
  BY <1>2 DEF Sound, DisabledOnlyByBypass
<1>11. faulted => faulted'
  BY <1>5
<1>12. ~pfOk' => faulted'
  BY <1>5
<1>13. via' = "transfer" /\ ~SC_Seen' => bypassed' /\ (Reading(t) => faulted')
  BY <1>1, <1>2, <1>3, <1>11 DEF FaultsSound
<1> QED BY <1>1, <1>2, <1>7, <1>8, <1>9, <1>10, <1>11, <1>12, <1>13, SamePageSound

(* Back from PAGEFILE. *)
LEMMA SoundTransferFails ==
  ASSUME Sound, NEW t \in Threads, TransferFails(t)
  PROVE  Sound'
<1>1. Typed' /\ Typed /\ Inside(t)
  BY TypedFromPageFile DEF Sound, FromPageFile, TransferFails, Transferred, Inside
<1>2. /\ pc[t] = "ret" /\ via = "transfer" /\ NextPage(t) /\ SC_Status' = "fail"
      /\ UNCHANGED <<SC_Disabled, SlotTab, mem, file, req, last, faulted,
                     bypassed>>
      /\ ~pfOk \/ (Reading(t) /\ ~SC_Seen)
  BY DEF TransferFails, Transferred, TransferOk, retRest, pagerVars
<1>3. HasCause(t)
  BY <1>1, <1>2 DEF Sound, FaultsSound, HasCause
<1>4. DisabledOnlyByBypass'
  BY <1>2 DEF Sound, DisabledOnlyByBypass
<1> QED BY <1>1, <1>2, <1>3, <1>4, NextPageSound

LEMMA SoundDecompress ==
  ASSUME Sound, NEW t \in Threads, Decompress(t)
  PROVE  Sound'
<1> DEFINE n     == SlotTab[Cur(t)]
           whole == {c \in Contents : HoldsLz(SC_Bounce, c, n)}
<1>1. Typed' /\ Typed /\ Inside(t)
  BY TypedFromPageFile DEF Sound, FromPageFile, Decompress, Transferred, Inside
<1>2. /\ pc[t] = "ret" /\ via = "transfer" /\ NextPage(t) /\ Reading(t)
      /\ pfOk /\ SC_Seen
      /\ UNCHANGED <<SC_Disabled, SlotTab, file, req, last, faulted, bypassed>>
  BY DEF Decompress, Transferred, TransferOk, retRest, pagerVars
<1>3. PICK c \in Page :
        /\ mem' = [mem EXCEPT ![t][idx] = c]
        /\ c = NoPage => whole = {} /\ SC_Status' = "fail"
        /\ c # NoPage => UNCHANGED SC_Status /\ (whole # {} => c \in whole)
  <2>1. CASE \E c \in IF whole # {} THEN whole ELSE Contents :
               mem' = [mem EXCEPT ![t][idx] = c] /\ UNCHANGED SC_Status
    BY <2>1 DEF Page
  <2>2. CASE /\ whole = {}
             /\ mem' = [mem EXCEPT ![t][idx] = NoPage]
             /\ SC_Status' = "fail"
    BY <2>2 DEF Page
  <2> QED BY <2>1, <2>2 DEF Decompress
<1>4. /\ Cur(t) \in FilePage /\ idx \in 1 .. MaxPages /\ req[t].n \in 1 .. MaxPages
      /\ \A i \in 1 .. req[t].n : i \in 1 .. MaxPages
  BY <1>1, InsideFacts DEF Typed, TypeOK
<1>5. mem'[t][idx] = c /\ \A i \in 1 .. req[t].n : i # idx => mem'[t][i] = mem[t][i]
  BY <1>1, <1>3, <1>4 DEF Typed, TypeOK
<1>6. last[Cur(t)] # NoPage => last[Cur(t)] \in whole
  <2> SUFFICES ASSUME last[Cur(t)] # NoPage PROVE last[Cur(t)] \in whole
    OBVIOUS
  <2>1. /\ Covered(t) /\ SC_Want \in 1 .. SC_MAX_SECTORS /\ n = SC_Want
        /\ \A i \in 1 .. SC_Want : SC_Bounce[i] = file[Cur(t)][i]
    BY <1>2 DEF Sound, TransferSound, Working
  <2>2. last[Cur(t)] \in Contents
    BY <1>1, <1>4 DEF Typed, TypeOK, Page
  <2>3. Stored(Cur(t), last[Cur(t)])
    BY <1>1, <1>2, <1>4 DEF Sound, SlotsKept, Typed, ThreadsOK
  <2>4. n # 0 /\ n # SC_ZERO_SLOT /\ n \in Nat
    BY <2>1 DEF SC_ZERO_SLOT
  <2>5. HoldsLz(file[Cur(t)], last[Cur(t)], n)
    BY <2>1, <2>3, <2>4 DEF Stored, Covered
  <2>6. HoldsLz(SC_Bounce, last[Cur(t)], n)
    BY <2>1, <2>2, <2>4, <2>5, LzCopied
  <2> QED BY <2>2, <2>6
<1>7. \A d \in whole, e \in whole : d = e
  BY OneLzPage
<1>8. last[Cur(t)] # NoPage => c = last[Cur(t)] /\ SC_Status' = SC_Status
  BY <1>3, <1>6, <1>7
<1>9. SC_Status' = "ok" => SC_Status = "ok"
  BY <1>3
<1>10. SC_Status' = "fail" => SC_Status = "fail" \/ HasCause(t)
  <2>1. c = NoPage => HasCause(t)
    BY <1>1, <1>2, <1>4, <1>8, CurFacts, <1>3, <1>6 DEF HasCause
  <2> QED BY <1>3, <2>1
<1>11. DisabledOnlyByBypass'
  BY <1>2 DEF Sound, DisabledOnlyByBypass
<1> QED BY <1>1, <1>2, <1>5, <1>8, <1>9, <1>10, <1>11, NextPageSound

LEMMA SoundCompWritten ==
  ASSUME Sound, NEW t \in Threads, CompWritten(t)
  PROVE  Sound'
<1>1. Typed' /\ Typed /\ Inside(t)
  BY TypedFromPageFile DEF Sound, FromPageFile, CompWritten, Transferred, Inside
<1>2. /\ pc[t] = "ret" /\ via = "transfer" /\ NextPage(t) /\ ~Reading(t)
      /\ pfOk /\ SC_Seen
      /\ SlotTab' = [SlotTab EXCEPT ![Cur(t)] = SC_Want]
      /\ UNCHANGED <<SC_Disabled, SC_Status, mem, file, req, last, faulted,
                     bypassed>>
  BY DEF CompWritten, Transferred, TransferOk, retRest, pagerVars
<1>3. /\ Covered(t) /\ SC_Want \in 1 .. SC_MAX_SECTORS
      /\ HoldsLz(file[Cur(t)], Data(t), SC_Want)
  BY <1>2 DEF Sound, TransferSound, Working
<1>4. /\ \A p \in Slot : p # Cur(t) => SlotTab'[p] = SlotTab[p]
      /\ SlotTab'[Cur(t)] = SC_Want
  BY <1>1, <1>2, <1>3 DEF Covered, Typed, TypeOK
<1>5. SC_Want # 0 /\ SC_Want # SC_ZERO_SLOT
  BY <1>3 DEF SC_ZERO_SLOT
<1>6. \A p, c : p = Cur(t) /\ c = Data(t) => Stored(p, c)'
  <2> SUFFICES ASSUME NEW p, NEW c, p = Cur(t), c = Data(t)
               PROVE  Stored(p, c)'
    OBVIOUS
  <2>1. p \in Slot /\ SlotTab'[p] = SC_Want /\ file'[p] = file[Cur(t)]
    BY <1>2, <1>3, <1>4 DEF Covered
  <2>2. HoldsLz(file'[p], c, SC_Want)
    BY <1>3, <2>1
  <2> QED BY <1>5, <2>1, <2>2 DEF Stored, HoldsLz
<1>7. DisabledOnlyByBypass'
  BY <1>2 DEF Sound, DisabledOnlyByBypass
<1> QED BY <1>1, <1>2, <1>4, <1>6, <1>7, NextPageSound

LEMMA SoundNotSeen ==
  ASSUME Sound, NEW t \in Threads, NotSeen(t)
  PROVE  Sound'
<1>1. Typed' /\ Typed /\ Inside(t)
  BY TypedFromPageFile DEF Sound, FromPageFile, NotSeen, Transferred, Inside
<1>2. /\ pc[t] = "ret" /\ via = "transfer" /\ ~Reading(t) /\ pfOk /\ ~SC_Seen
      /\ SC_Disabled' = TRUE /\ via' = "pass"
      /\ pc' = [pc EXCEPT ![t] = "call"] /\ pc'[t] = "call"
      /\ UNCHANGED <<SC_Status, SlotTab, idx, mem, file, req, last, faulted,
                     bypassed>>
  BY <1>1 DEF NotSeen, Transferred, TransferOk, retRest, pagerVars, Typed, TypeOK
<1>3. bypassed
  BY <1>1, <1>2 DEF Sound, FaultsSound
<1>4. DisabledOnlyByBypass'
  BY <1>2, <1>3 DEF Sound, DisabledOnlyByBypass
<1>5. SlotTab[Cur(t)] = 0
  BY <1>2 DEF Sound, TransferSound, Working
<1>6. TransferSound(t)' /\ PassSound(t)'
  BY <1>2, <1>5 DEF TransferSound, PassSound, Covered, Cur
<1> QED BY <1>1, <1>2, <1>4, <1>6, SamePageSound

LEMMA SoundPassed ==
  ASSUME Sound, NEW t \in Threads, Passed(t)
  PROVE  Sound'
<1>1. Typed' /\ Typed /\ Inside(t)
  BY TypedFromPageFile DEF Sound, FromPageFile, Passed, Inside
<1>2. /\ pc[t] = "ret" /\ via = "pass" /\ NextPage(t)
      /\ SC_Status' = IF pfOk THEN SC_Status ELSE "fail"
      /\ UNCHANGED <<SC_Disabled, SlotTab, mem, file, req, last, faulted,
                     bypassed>>
  BY DEF Passed, retRest, pagerVars
<1>3. /\ Covered(t) => SlotTab[Cur(t)] = 0
      /\ pfOk => IF Reading(t) THEN Data(t) = RawPage(file[Cur(t)])
                               ELSE HoldsRaw(file[Cur(t)], Data(t))
  BY <1>2 DEF Sound, PassSound, Working
<1>4. Cur(t) \in FilePage
  BY <1>1, InsideFacts
<1>5. Reading(t) /\ pfOk /\ last[Cur(t)] # NoPage => mem[t][idx] = last[Cur(t)]
  <2> SUFFICES ASSUME Reading(t), pfOk, last[Cur(t)] # NoPage
               PROVE  mem[t][idx] = last[Cur(t)]
    OBVIOUS
  <2>1. Stored(Cur(t), last[Cur(t)])
    BY <1>1, <1>4 DEF Sound, SlotsKept, Typed, ThreadsOK
  <2>2. HoldsRaw(file[Cur(t)], last[Cur(t)])
    BY <1>3, <2>1 DEF Stored, Covered, SC_ZERO_SLOT
  <2>3. last[Cur(t)] \in Contents
    BY <1>1, <1>4 DEF Typed, TypeOK, Page
  <2> QED BY <1>3, <2>2, <2>3, OneRawPage DEF Data
<1>6. ~Reading(t) /\ pfOk => \A p, c : p = Cur(t) /\ c = Data(t) => Stored(p, c)'
  BY <1>2, <1>3 DEF Stored, HoldsRaw, Covered, SC_ZERO_SLOT
<1>7. ~pfOk => HasCause(t)
  BY <1>1, <1>2 DEF Sound, FaultsSound, HasCause
<1>8. DisabledOnlyByBypass'
  BY <1>2 DEF Sound, DisabledOnlyByBypass
<1>9. SC_Status' = "ok" => pfOk /\ SC_Status = "ok"
  BY <1>2
<1>10. SC_Status' = "fail" => SC_Status = "fail" \/ HasCause(t)
  BY <1>2, <1>7
<1> QED BY <1>1, <1>2, <1>5, <1>6, <1>8, <1>9, <1>10, NextPageSound

LEMMA SoundNext == Sound /\ [Next]_vars => Sound'
<1> SUFFICES ASSUME Sound, [Next]_vars PROVE Sound'
  OBVIOUS
<1>1. ASSUME NEW t \in Threads, Serve(t) PROVE Sound'
  BY <1>1, SoundOne, SoundFileIO, SoundRefuses, SoundMoveSectors,
     SoundTransferFails, SoundDecompress, SoundCompWritten, SoundNotSeen,
     SoundPassed, SoundLeave DEF Serve, FromPageFile
<1>2. ASSUME NEW t \in Threads, Enter(t) \/ Acquire(t) PROVE Sound'
  BY <1>2, SoundEnter, SoundAcquire
<1>3. CASE UNCHANGED vars
  <2>1. Typed'
    BY <1>3, TypedStutter DEF Sound
  <2> QED BY <1>3, <2>1, Undisturbed
          DEF vars, initVars, xferVars, pagerVars, Inside
<1> QED BY <1>1, <1>2, <1>3, SoundDeviceInit, SoundOther DEF Next

(* What is kept about every request, page and transfer under way, and what   *)
(* every property below follows from (SC_Hook, from sch_go to sch_done).     *)
THEOREM SoundAlways == Spec => []Sound
BY SoundInit, SoundNext, PTL DEF Spec

-----------------------------------------------------------------------------
(***************************************************************************)
(* What follows.                                                           *)
(***************************************************************************)
(* In a request that is about to succeed every page has been dealt with.   *)
LEMMA ReadsRight == Sound => ReadsReturnLastWrite
<1> SUFFICES ASSUME Sound, NEW t \in Threads, pc[t] = "leave", Reading(t),
                    SC_Status = "ok"
             PROVE  Store!Delivered(req[t], mem[t])
  BY DEF ReadsReturnLastWrite
<1>1. Inside(t) /\ Typed /\ Done(t) = req[t].n /\ req[t].n \in Nat
  BY InsideFacts DEF Sound, Inside, Done, Typed, ThreadsOK
<1> SUFFICES ASSUME NEW p \in FilePage, Store!Covers(req[t], p), last[p] # NoPage
             PROVE  mem[t][Store!IndexOf(req[t], p)] = last[p]
  BY DEF Store!Delivered, Store!FilePage, FilePage
<1>2. Store!IndexOf(req[t], p) <= Done(t)
  BY <1>1, CurFacts
<1> QED BY <1>1, <1>2 DEF Sound, PagesDone

(* SwapComp_Hook never hands the pager a page other than the one it last   *)
(* wrote there, through failed and torn writes, compressed or not, bypassed *)
(* hooks and contended requests.                                           *)
THEOREM NoPageLost == Spec => []ReadsReturnLastWrite
BY ReadsRight, SoundAlways, PTL

(* SwapComp_Hook reports failure only for a failure of PAGEFILE, a bypassed *)
(* compressed read or a page that nothing was promised about.              *)
THEOREM FailuresExplained == Spec => []FailureHasCause
<1>1. Sound => FailureHasCause
  BY DEF Sound, FailureHasCause, FaultsSound, Inside
<1> QED BY <1>1, SoundAlways, PTL

(* sco_not_seen is reached only when a FileIO really bypassed the hook:     *)
(* SwapComp_Device_Init hooks IFSMGR first.                                *)
THEOREM NeverDisabledByOrder == Spec => []DisabledOnlyByBypass
<1>1. Sound => DisabledOnlyByBypass
  BY DEF Sound
<1> QED BY <1>1, SoundAlways, PTL

-----------------------------------------------------------------------------
(***************************************************************************)
(* The hooked pager service implements SwapStore: Enter is Call, Leave is  *)
(* Return, a page arriving in the buffer of a read is Scribble, and the    *)
(* rest stutters.                                                          *)
(***************************************************************************)
LEMMA InitRefines == Init => Store!StoreInit
BY DEF Init, Store!StoreInit, Store!FilePage, FilePage, Store!Page, Page

LEMMA ArrivalRefines ==
  ASSUME Typed, Typed', NEW t \in Threads, Inside(t), Reading(t),
         UNCHANGED pagerVars, NEW c, mem' = [mem EXCEPT ![t][idx] = c]
  PROVE  Store!Scribble(t)
<1>1. req[t] # NoPage /\ req[t].cmd = "read"
  BY DEF Typed, ThreadsOK, Inside, Reading
<1>2. mem'[t] \in [1 .. MaxPages -> Store!Page]
  BY DEF Typed, TypeOK, Store!Page, Page
<1>3. mem' = [mem EXCEPT ![t] = mem'[t]]
  BY DEF Typed, TypeOK
<1> QED BY <1>1, <1>2, <1>3 DEF Store!Scribble, pagerVars

LEMMA LeaveRefines ==
  ASSUME Sound, NEW t \in Threads, Leave(t)
  PROVE  Store!Return(t)
<1>1. pc[t] = "leave" /\ req[t] # NoPage /\ SC_Status \in {"ok", "fail"}
  BY DEF Leave, Sound, Typed, ThreadsOK, TypeOK
<1>2. req[t].cmd = "read" /\ SC_Status = "ok" => Store!Delivered(req[t], mem[t])
  BY <1>1, ReadsRight DEF ReadsReturnLastWrite, Reading
<1>3. /\ last' = Store!Promise(req[t], SC_Status, mem[t])
      /\ result' = [result EXCEPT ![t] = SC_Status]
      /\ req' = [req EXCEPT ![t] = NoPage]
      /\ mem' = [mem EXCEPT ![t] = [i \in 1 .. MaxPages |-> NoPage]]
  BY DEF Leave
<1> QED BY <1>1, <1>2, <1>3 DEF Store!Return

LEMMA ServeRefines ==
  ASSUME Sound, Sound', NEW t \in Threads, Serve(t)
  PROVE  Store!Return(t) \/ Store!Scribble(t) \/ UNCHANGED Store!storeVars
<1>0. Typed /\ Typed'
  BY DEF Sound
<1>1. CASE SC_One(t) /\ ~ReadZero(t)
  BY <1>1 DEF SC_One, ReadRaw, ReadComp, WriteRaw, WriteZero, WriteComp, oneRest,
              pagerVars, Store!storeVars
<1>2. CASE ReadZero(t)
  <2>1. Inside(t) /\ Reading(t) /\ UNCHANGED pagerVars
        /\ mem' = [mem EXCEPT ![t][idx] = Zero]
    BY <1>2 DEF ReadZero, oneRest, Inside
  <2> QED BY <1>0, <2>1, ArrivalRefines
<1>3. CASE FileIO(t) \/ PageFileRefuses(t)
  BY <1>3 DEF FileIO, PageFileRefuses, ioRest, pagerVars, Store!storeVars
<1>4. CASE MoveSectors(t)
  <2>1. UNCHANGED pagerVars /\ Inside(t)
    BY <1>4 DEF MoveSectors, ioRest, Inside
  <2>2. \/ mem' = mem
        \/ Reading(t) /\ \E c \in Page : mem' = [mem EXCEPT ![t][idx] = c]
    <3>1. CASE Reading(t) /\ via # "transfer"
      <4>1. PICK k \in 0 .. ioLen :
              mem' = [mem EXCEPT ![t][idx] =
                        IF k = PAGE_SECTORS THEN RawPage(file[Cur(t)]) ELSE NoPage]
        BY <1>4, <3>1 DEF MoveSectors
      <4>2. (IF k = PAGE_SECTORS THEN RawPage(file[Cur(t)]) ELSE NoPage) \in Page
        BY DEF RawPage, Page
      <4> QED BY <3>1, <4>1, <4>2
    <3>2. CASE ~(Reading(t) /\ via # "transfer")
      BY <1>4, <3>2 DEF MoveSectors
    <3> QED BY <3>1, <3>2
  <2> QED BY <1>0, <2>1, <2>2, ArrivalRefines DEF pagerVars, Store!storeVars
<1>5. CASE Decompress(t)
  <2>1. UNCHANGED pagerVars /\ Inside(t) /\ Reading(t)
    BY <1>5 DEF Decompress, Transferred, retRest, Inside
  <2>2. \E c : mem' = [mem EXCEPT ![t][idx] = c]
    <3> DEFINE n     == SlotTab[Cur(t)]
               whole == {c \in Contents : HoldsLz(SC_Bounce, c, n)}
    <3>1. CASE \E c \in IF whole # {} THEN whole ELSE Contents :
                 mem' = [mem EXCEPT ![t][idx] = c] /\ UNCHANGED SC_Status
      BY <3>1
    <3>2. CASE /\ whole = {}
               /\ mem' = [mem EXCEPT ![t][idx] = NoPage]
               /\ SC_Status' = "fail"
      BY <3>2
    <3> QED BY <1>5, <3>1, <3>2 DEF Decompress
  <2> QED BY <1>0, <2>1, <2>2, ArrivalRefines
<1>6. CASE TransferFails(t) \/ CompWritten(t) \/ NotSeen(t) \/ Passed(t)
  BY <1>6 DEF TransferFails, CompWritten, NotSeen, Passed, retRest, pagerVars,
              Store!storeVars
<1>7. CASE Leave(t)
  BY <1>7, LeaveRefines
<1> QED BY <1>1, <1>2, <1>3, <1>4, <1>5, <1>6, <1>7 DEF Serve, FromPageFile

LEMMA StepRefines ==
  Sound /\ Sound' /\ [Next]_vars => [Store!StoreNext]_Store!storeVars
<1> SUFFICES ASSUME Sound, Sound', [Next]_vars
             PROVE  Store!StoreNext \/ UNCHANGED Store!storeVars
  BY DEF Store!storeVars
<1>1. ASSUME NEW t \in Threads, Serve(t)
      PROVE  Store!StoreNext \/ UNCHANGED Store!storeVars
  BY <1>1, ServeRefines DEF Store!StoreNext
<1>2. ASSUME NEW t \in Threads, Enter(t)
      PROVE  Store!StoreNext
  BY <1>2 DEF Enter, Store!StoreNext
<1>3. CASE \/ DeviceInit \/ OtherFileIO \/ UNCHANGED vars
           \/ \E t \in Threads : Acquire(t)
  BY <1>3 DEF DeviceInit, CreateSemaphore, HookIfs, HookPager, InitRest, OtherFileIO,
              ioRest, Acquire, vars, pagerVars, Store!storeVars
<1> QED BY <1>1, <1>2, <1>3 DEF Next

(* Loading SWAPCOMP is invisible to the pager: every run of SwapComp_Hook   *)
(* over PAGEFILE is a run of the plain store PAGEFILE promises.            *)
THEOREM Refinement == Spec => ImplementsStore
BY InitRefines, StepRefines, SoundAlways, PTL DEF Spec, ImplementsStore, Store!StoreSpec
=============================================================================

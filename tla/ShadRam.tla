-------------------------------- MODULE ShadRam --------------------------------
(***************************************************************************)
(* SHADRAM.VXD: 128 KB of the card's RAM answer at 5E0000-5FFFFF, but only *)
(* while bit 0 of port 670h (ROMCACHE) is clear.  INBRDPC sets it, unless  *)
(* started with NOCACHE: then the upper half, a patched copy of the BIOS,  *)
(* serves F0000 and the lower half has no address.  At Sys_Critical_Init   *)
(* the driver opens that window, tests what the BIOS does not need, gives  *)
(* it to the VMM, and maps V86 F0000-FFFFF of every VM onto the copy or    *)
(* the ROM.                                                                *)
(*                                                                         *)
(* ShadRam_Sys_Init is one sequential procedure, cut here at its stages.   *)
(* The card, INBRDPC's INT 13h wrapper, the VMM and its use of the pages   *)
(* are external.  Pages are numbered as in CandMask: 0 .. SR_PAGES - 1 are *)
(* the idle half, SR_PAGES + n is the copy of BIOS page n.                 *)
(***************************************************************************)
EXTENDS Naturals, FiniteSets, FiniteSetsExt

CONSTANTS
  SR_PAGES,        \* pages of each half (16)
  BASIC_FIRST, BASIC_LAST,  \* BIOS pages of IBM cassette BASIC (6, 13)
  KEEP_ALWAYS,     \* BIOS pages kept whatever they hold ({14, 15})
  COPY_MAX_DIFF,   \* dwords the copy may differ from the ROM in (256)
  MaxDiff,         \* bound: most dwords INBRDPC patches in one page
  Caching,         \* {TRUE}, or with FALSE: INBRDPC may run with NOCACHE
  Vms              \* virtual machines

Idle == 0 .. SR_PAGES - 1        \* also: BIOS pages F0 + n
Copy == SR_PAGES .. 2 * SR_PAGES - 1
All  == Idle \cup Copy           \* SR_ALL pages
Nowhere == 2 * SR_PAGES          \* no RAM page

ASSUME ShadRamAssumption ==
  /\ SR_PAGES \in Nat \ {0}
  /\ BASIC_FIRST \in Nat /\ BASIC_LAST \in Nat
  /\ KEEP_ALWAYS \subseteq Idle
  /\ COPY_MAX_DIFF \in Nat \ {0} /\ MaxDiff \in Nat
  /\ Caching \subseteq BOOLEAN

VARIABLES
  inbrdpc,      \* the real-mode init found the known build of INBRDPC.SYS
  cached,       \* INBRDPC has copied the BIOS and set ROMCACHE
  opens,        \* card: clearing ROMCACHE opens the window
  decode,       \* card: the RAM page each page of the window reaches
  diffs,        \* INBRDPC: dwords patched in each page of the copy
  filler,       \* ROM: pages of one repeated byte
  basic,        \* ROM: IBM's cassette BASIC is there
  ROMCACHE,     \* bit 0 of port 670h
  INB_CACHE,    \* INBRDPC's [02BF]
  nmi,          \* NMI is enabled (port A0h)
  check,        \* the I/O channel check latch (port 62h bit 6)
  ram,          \* what each RAM page holds
  pc, page,
  dwStatus, dwBiosPage, dwKeepMask,
  CandMask, PassMask,
  added,        \* pages the VMM accepted
  view,         \* view[vm][n]: where V86 page F0 + n of vm is mapped
  tainted       \* history: a parity error showed in the page tests

card == <<inbrdpc, cached, opens, decode, diffs, filler, basic>>
port670 == <<ROMCACHE, INB_CACHE>>
masks == <<dwKeepMask, CandMask, PassMask>>
vars == <<card, port670, nmi, check, ram, pc, page, dwStatus, dwBiosPage,
          masks, added, view, tainted>>

(* Contents of a RAM page.  A page number is what 4b writes: its address.  *)
Holds(what) == <<what, Nowhere>>
Bios(n)     == <<"bios", n>>
Address(p)  == <<"address", p>>
Content     == {Holds("unwritten"), Holds("pattern"), Holds("zero"), Holds("used")}
               \cup {Bios(n) : n \in Idle} \cup {Address(p) : p \in All}

(* The copy's pages are RAM of their own.  A page of the idle half may not *)
(* be there, or share its RAM with another one.                            *)
Decodings == {[p \in All |-> IF p \in Copy THEN p ELSE d[p]] :
                d \in [Idle -> Idle \cup {Nowhere}]}

(* ROMCACHE as INBRDPC left it. *)
InitialCache == IF cached THEN 1 ELSE 0

TypeOK ==
  /\ inbrdpc \in BOOLEAN /\ cached \in Caching
  /\ opens \in BOOLEAN /\ basic \in BOOLEAN
  /\ decode \in Decodings
  /\ diffs \in [Idle -> 0 .. MaxDiff] /\ filler \subseteq Idle
  /\ ROMCACHE \in {0, 1} /\ INB_CACHE \in {0, 1}
  /\ nmi \in BOOLEAN /\ check \in BOOLEAN /\ tainted \in BOOLEAN
  /\ ram \in [All -> Content]
  /\ pc \in {"pages", "maps", "open", "compare", "write", "test", "fill",
             "verify", "zero", "judge", "add", "done"}
  /\ page \in 0 .. 2 * SR_PAGES
  /\ dwStatus \in {"ok", "owned", "nomap", "noinb", "v86", "nowin", "parity"}
  /\ dwBiosPage \in {"none", "rom", "copy"}
  /\ dwKeepMask \subseteq Idle
  /\ CandMask \subseteq All /\ PassMask \subseteq All /\ added \subseteq All
  /\ view \in [Vms -> [Idle -> {"no VM", "unmapped", "rom", "copy"}]]

Init ==
  /\ inbrdpc \in BOOLEAN /\ cached \in Caching
  /\ opens \in BOOLEAN /\ basic \in BOOLEAN
  /\ decode \in Decodings
  /\ diffs \in [Idle -> 0 .. MaxDiff] /\ filler \in SUBSET Idle
  /\ ROMCACHE = InitialCache /\ INB_CACHE = InitialCache
  /\ nmi = TRUE /\ check = FALSE /\ tainted = FALSE
  /\ ram = [p \in All |-> IF p \in Copy /\ cached THEN Bios(p - SR_PAGES)
                                            ELSE Holds("unwritten")]
  /\ pc = "pages" /\ page = 0
  /\ dwStatus = "ok" /\ dwBiosPage = "none"
  /\ dwKeepMask = {} /\ CandMask = {} /\ PassMask = {}
  /\ added = {}
  /\ view = [v \in Vms |-> [n \in Idle |-> "no VM"]]

-----------------------------------------------------------------------------
(***************************************************************************)
(* ShadRam_Sys_Init, before the card is touched.                           *)
(***************************************************************************)
Stop(status) == dwStatus' = status /\ pc' = "done"

(* INBRDPC, _GetPhysPageInfo, the V86 pages. *)
ClaimPages ==
  /\ pc = "pages"
  /\ \/ /\ ~inbrdpc
        /\ Stop("noinb") /\ UNCHANGED dwBiosPage
     \/ /\ inbrdpc
        /\ \E status \in {"owned", "v86"} : Stop(status)
        /\ UNCHANGED dwBiosPage
     \/ /\ inbrdpc
        /\ dwBiosPage' = "rom"
        /\ pc' = "maps" /\ UNCHANGED dwStatus
  /\ UNCHANGED <<card, port670, nmi, check, ram, page, masks, added, view,
                 tainted>>

(* The three _MapPhysToLinear calls. *)
MapAreas ==
  /\ pc = "maps"
  /\ \/ pc' = "open" /\ UNCHANGED dwStatus
     \/ Stop("nomap")
  /\ UNCHANGED <<card, port670, nmi, check, ram, page, dwBiosPage, masks,
                 added, view, tainted>>

-----------------------------------------------------------------------------
(***************************************************************************)
(* 1 and 2: the window.                                                    *)
(***************************************************************************)
(* Mutant of Write_670: INBRDPC's own byte is left alone. *)
WritePortOnly(bit) == ROMCACHE' = bit /\ UNCHANGED INB_CACHE

(* [02BF] and, through SR_Write_670, port 670h. *)
Write_670(bit) == INB_CACHE' = bit /\ ROMCACHE' = bit

OpenWindow ==
  /\ pc = "open"
  /\ Write_670(0)
  /\ pc' = "compare"
  /\ UNCHANGED <<card, nmi, check, ram, page, dwStatus, dwBiosPage, masks,
                 added, view, tainted>>

(* BIOS pages INBRDPC has patched in the copy. *)
DiffMask == {n \in Idle : diffs[n] > 0}

CopyFound ==
  opens /\ cached
    /\ MapThenSumSet(LAMBDA n : diffs[n], Idle) < COPY_MAX_DIFF

(* Mutant of Keep: patched pages are not kept for being patched. *)
KeepUnpatched == (KEEP_ALWAYS \cup (Idle \ filler))
                   \ (IF basic THEN BASIC_FIRST .. BASIC_LAST ELSE {})

(* SR_Choose_Pages: BIOS pages that go on running from the copy. *)
Keep ==
  KEEP_ALWAYS \cup DiffMask
    \cup ((Idle \ filler) \ (IF basic THEN BASIC_FIRST .. BASIC_LAST ELSE {}))

(* Mutant of Restore: the window is left as it is. *)
NoRestore == UNCHANGED port670

(* "Put INBRDPC's state back." *)
Restore == Write_670(1)

CompareCopy ==
  /\ pc = "compare"
  /\ IF CopyFound
       THEN /\ dwBiosPage' = "copy"
            /\ dwKeepMask' = Keep
            /\ CandMask' = Idle \cup {n + SR_PAGES : n \in Idle \ Keep}
            /\ nmi' = FALSE /\ check' = FALSE
            /\ pc' = "write"
            /\ UNCHANGED <<port670, dwStatus>>
       ELSE /\ Restore
            /\ Stop("nowin")
            /\ check' \in {check, check \/ (opens /\ ~cached)}  \* never written
            /\ UNCHANGED <<dwBiosPage, dwKeepMask, CandMask, nmi>>
  /\ UNCHANGED <<card, ram, page, PassMask, added, view, tainted>>

-----------------------------------------------------------------------------
(***************************************************************************)
(* 3 and 4: the tests.                                                     *)
(***************************************************************************)
testRest == <<card, port670, nmi, dwStatus, dwBiosPage, dwKeepMask, CandMask,
              added, view>>

Reaches(p, c) == decode[p] = c

(* RAM after each page p of set s has been filled in turn with f[p].       *)
Filled(s, f) ==
  [c \in All |->
     LET last == {p \in s : Reaches(p, c) /\ \A q \in s : Reaches(q, c) => q <= p} IN
     IF last = {} THEN ram[c] ELSE f[CHOOSE p \in last : TRUE]]

(* The first write ever to the idle half raises the check; it is cleared.  *)
WriteIdle ==
  /\ pc = "write"
  /\ ram' = Filled(Idle, [p \in Idle |-> Holds("zero")])
  /\ check' = FALSE
  /\ page' = 0 /\ pc' = "test"
  /\ UNCHANGED <<testRest, PassMask, tainted>>

(* Reading RAM may show a parity error, which latches the check. *)
ReadMayFail == \E bad \in BOOLEAN :
                 check' = (check \/ bad) /\ tainted' = (tainted \/ bad)

(* Two patterns through one page, each looked for in the ROM areas too.    *)
(* RAM that is there may still be broken.                                  *)
TestPage ==
  /\ pc = "test" /\ page < 2 * SR_PAGES
  /\ IF page \in CandMask
       THEN /\ ram' = Filled({page}, [p \in {page} |-> Holds("pattern")])
            /\ ReadMayFail
            /\ PassMask' \in IF decode[page] = Nowhere THEN {PassMask}
                             ELSE {PassMask, PassMask \cup {page}}
       ELSE UNCHANGED <<ram, check, tainted, PassMask>>
  /\ page' = page + 1
  /\ pc' = IF page + 1 = 2 * SR_PAGES THEN "fill" ELSE "test"
  /\ UNCHANGED testRest

FillAddresses ==
  /\ pc = "fill"
  /\ ram' = Filled(PassMask, [p \in PassMask |-> Address(p)])
  /\ pc' = "verify"
  /\ UNCHANGED <<testRest, page, PassMask, check, tainted>>

(* Mutant of Unaliased: the addresses are written but not read back. *)
Unverified == PassMask

(* Pages that still hold their own address. *)
Unaliased == {p \in PassMask : ram[decode[p]] = Address(p)}

VerifyAddresses ==
  /\ pc = "verify"
  /\ ReadMayFail
  /\ PassMask' \in {Unaliased} \cup {Unaliased \ {p} : p \in Unaliased}
  /\ pc' = "zero"
  /\ UNCHANGED <<testRest, page, ram>>

(* Mutant of Zeroed: the whole block is zeroed, kept pages with it. *)
ZeroedAll == All

Zeroed == CandMask

ZeroPages ==
  /\ pc = "zero"
  /\ ram' = Filled(Zeroed, [p \in Zeroed |-> Holds("zero")])
  /\ pc' = "judge"
  /\ UNCHANGED <<testRest, page, PassMask, check, tainted>>

(* Mutants of Judge: the latch is cleared before it is looked at; NMI is   *)
(* enabled with the latch still set.                                       *)
JudgeCleared ==
  /\ check' = FALSE /\ nmi' = TRUE
  /\ UNCHANGED <<dwStatus, PassMask>>

JudgeUncleared ==
  /\ IF check THEN dwStatus' = "parity" /\ PassMask' = {}
              ELSE UNCHANGED <<dwStatus, PassMask>>
  /\ nmi' = TRUE /\ UNCHANGED check

(* One look at the latch condemns every page; then it is cleared and NMI   *)
(* enabled.                                                                *)
Judge ==
  /\ IF check THEN dwStatus' = "parity" /\ PassMask' = {}
              ELSE UNCHANGED <<dwStatus, PassMask>>
  /\ check' = FALSE /\ nmi' = TRUE

JudgePages ==
  /\ pc = "judge"
  /\ Judge
  /\ pc' = "add"
  /\ UNCHANGED <<card, port670, dwBiosPage, dwKeepMask, CandMask,
                 added, view, ram, page, tainted>>

(* _AddFreePhysPage, page by page; the VMM may refuse any of them. *)
AddPages ==
  /\ pc = "add"
  /\ added' \in SUBSET PassMask
  /\ pc' = "done"
  /\ UNCHANGED <<card, port670, nmi, check, ram, page, dwStatus, dwBiosPage,
                 masks, view, tainted>>

-----------------------------------------------------------------------------
(***************************************************************************)
(* Afterwards: new VMs, INBRDPC's INT 13h wrapper, the VMM's own use.      *)
(***************************************************************************)
afterRest == <<card, nmi, check, pc, page, dwStatus, dwBiosPage, masks, added,
               tainted>>

(* Mutant of Target: every page is mapped onto the copy. *)
TargetCopy(n) == dwBiosPage

Target(n) == IF n \in dwKeepMask THEN dwBiosPage ELSE "rom"

(* ShadRam_Map_VM, on Sys_VM_Init and Create_VM.  _PhysIntoV86 may refuse; *)
(* without pages of ours the VM keeps F0000 as it is.                      *)
Map_VM(v) ==
  /\ pc = "done"
  /\ view[v] = [n \in Idle |-> "no VM"]
  /\ \E failed \in IF dwBiosPage = "none" THEN {{}} ELSE SUBSET Idle :
       view' = [view EXCEPT ![v] =
                  [n \in Idle |-> IF n \in failed THEN "unmapped" ELSE Target(n)]]
  /\ UNCHANGED <<afterRest, port670, ram>>

(* A floppy call: the wrapper ORs [02BF] into what it writes to port 670h. *)
Int13 ==
  /\ pc = "done"
  /\ ROMCACHE' = INB_CACHE
  /\ UNCHANGED <<afterRest, INB_CACHE, ram, view>>

WindowOpen == opens /\ ROMCACHE = 0

(* The VMM's owner of page p writes to it. *)
UsePage(p) ==
  /\ pc = "done" /\ p \in added
  /\ ram' = IF WindowOpen THEN Filled({p}, [q \in {p} |-> Holds("used")]) ELSE ram
  /\ UNCHANGED <<afterRest, port670, view>>

SysInit ==
  \/ ClaimPages \/ MapAreas \/ OpenWindow \/ CompareCopy \/ WriteIdle
  \/ TestPage \/ FillAddresses \/ VerifyAddresses \/ ZeroPages \/ JudgePages
  \/ AddPages

Next ==
  \/ SysInit
  \/ \E v \in Vms : Map_VM(v)
  \/ Int13
  \/ \E p \in All : UsePage(p)

Spec == Init /\ [][Next]_vars

-----------------------------------------------------------------------------
(***************************************************************************)
(* Properties.                                                             *)
(***************************************************************************)
(* What the CPU reads at BIOS page n through a mapping: which contents,    *)
(* and whether with INBRDPC's patches.                                     *)
FromCopy(n) == <<ram[n + SR_PAGES], n \in DiffMask>>
FromRom(n)  == <<Bios(n), FALSE>>

Seen(n, where) ==
  IF where = "copy"
    THEN IF WindowOpen THEN FromCopy(n) ELSE <<Holds("nothing"), FALSE>>
    ELSE IF ROMCACHE = 1 THEN FromCopy(n) ELSE FromRom(n)

(* Every VM goes on seeing the BIOS it would have seen without the driver, *)
(* INBRDPC's patches included, whichever step of the initialisation failed *)
(* and whatever the pages given away are used for.                         *)
BiosAsBefore ==
  pc = "done" =>
    \A v \in Vms, n \in Idle :
      view[v][n] \in {"rom", "copy"} =>
        Seen(n, view[v][n]) = <<Bios(n), cached /\ n \in DiffMask>>

(* A page given to the VMM is RAM that nothing else uses, and it stays     *)
(* reachable: a later floppy call does not close the window.               *)
DonatedIsOwnRam ==
  \A p \in added :
    /\ WindowOpen
    /\ decode[p] # Nowhere
    /\ \A q \in added \ {p} : decode[q] # decode[p]
    /\ \A n \in dwKeepMask : decode[p] # n + SR_PAGES

(* One parity error anywhere in the tests refuses every page. *)
ParityRefusesAll == tainted => added = {}

(* NMI is masked while the tests may raise the check, and is enabled again *)
(* only with the latch clear and before the driver is done.                *)
NmiNeverStrikes == (nmi => ~check) /\ (pc = "done" => nmi)

(* What the head of SHADRAM.ASM says: "If the window does not open, the    *)
(* bit and [02BF] are put back."                                           *)
PutBack ==
  dwStatus = "nowin" => ROMCACHE = InitialCache /\ INB_CACHE = InitialCache
=============================================================================

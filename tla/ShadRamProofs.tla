---------------------------- MODULE ShadRamProofs ----------------------------
(***************************************************************************)
(* Which RAM ShadRam_Sys_Init gives away, proved for every number of pages, *)
(* every BIOS and every decoding of the window.                            *)
(***************************************************************************)
EXTENDS ShadRam, TLAPS

Untested == {"pages", "maps", "open", "compare", "write"}
Testing  == {"test", "fill", "verify", "zero", "judge"}
Tested   == {"add", "done"}

(* The masks, and what they say of the card. *)
MasksOK ==
  /\ decode \in Decodings
  /\ dwKeepMask \subseteq Idle
  /\ CandMask \subseteq All /\ PassMask \subseteq CandMask
  /\ added \subseteq PassMask
  /\ pc # "done" => added = {}
  /\ pc \in Untested => PassMask = {}
  /\ \A n \in dwKeepMask : n + SR_PAGES \notin CandMask
  /\ \A p \in PassMask : decode[p] # Nowhere

(* From the moment the copy is found the window stays open.               *)
WindowKept ==
  /\ pc = "compare" => ROMCACHE = 0 /\ INB_CACHE = 0
  /\ pc \in Testing \cup {"write", "add"} \/ PassMask # {}
       => opens /\ ROMCACHE = 0 /\ INB_CACHE = 0

(* Once the addresses have been read back no two pages share their RAM. *)
DistinctOnceVerified ==
  pc \in {"zero", "judge", "add", "done"} =>
    \A p, q \in PassMask : decode[p] = decode[q] => p = q

(* A parity error stays latched until it is judged. *)
TaintLatched ==
  /\ pc \in Untested => ~tainted
  /\ pc \in Testing /\ tainted => check
  /\ pc \in Tested /\ tainted => PassMask = {}

DonationInv ==
  /\ pc \in Untested \cup Testing \cup Tested
  /\ MasksOK /\ WindowKept /\ DistinctOnceVerified /\ TaintLatched

-----------------------------------------------------------------------------
LEMMA DonationInit == Init => DonationInv
BY DEF Init, DonationInv, MasksOK, WindowKept, DistinctOnceVerified,
       TaintLatched, Untested, Testing, Tested, Idle, All

(* The pages of the two halves: what the arithmetic of page numbers says.  *)
LEMMA PageNumbers ==
  /\ \A n \in Idle : n + SR_PAGES \in Copy /\ n + SR_PAGES \notin Idle
  /\ \A p \in Copy : p \notin Idle /\ p # Nowhere
  /\ \A n, m \in Idle : n + SR_PAGES = m + SR_PAGES => n = m
  /\ Idle \subseteq All /\ Copy \subseteq All
BY ShadRamAssumption DEF Idle, Copy, All, Nowhere

(* A page of the copy reaches itself, one of the idle half never a copy.   *)
LEMMA DecodingHalves ==
  ASSUME decode \in Decodings, NEW p \in All
  PROVE  /\ p \in Copy => decode[p] = p
         /\ p \notin Copy => decode[p] \in Idle \cup {Nowhere}
BY DEF Decodings, All

(* SR_Choose_Pages never makes a kept page a candidate. *)
LEMMA KeptNotCandidate ==
  ASSUME NEW K \in SUBSET Idle, NEW n \in K
  PROVE  n + SR_PAGES \notin Idle \cup {m + SR_PAGES : m \in Idle \ K}
BY PageNumbers

LEMMA DonationNext == DonationInv /\ [Next]_vars => DonationInv'
<1> SUFFICES ASSUME DonationInv, [Next]_vars
             PROVE  DonationInv'
  OBVIOUS
<1> USE DEF DonationInv, Untested, Testing, Tested
<1>1. CASE ClaimPages
  BY <1>1 DEF ClaimPages, Stop, MasksOK, WindowKept, DistinctOnceVerified,
              TaintLatched, card, port670, masks
<1>2. CASE MapAreas
  BY <1>2 DEF MapAreas, Stop, MasksOK, WindowKept, DistinctOnceVerified,
              TaintLatched, card, port670, masks
<1>3. CASE OpenWindow
  BY <1>3 DEF OpenWindow, Write_670, MasksOK, WindowKept,
              DistinctOnceVerified, TaintLatched, card, masks
<1>4. CASE CompareCopy
  <2>1. /\ pc = "compare" /\ PassMask = {} /\ PassMask' = {}
        /\ added = {} /\ added' = {} /\ ~tainted /\ ~tainted'
        /\ decode' \in Decodings
    BY <1>4 DEF CompareCopy, MasksOK, TaintLatched, card
  <2>2. CASE CopyFound
    <3>1. /\ dwKeepMask' = Keep
          /\ CandMask' = Idle \cup {n + SR_PAGES : n \in Idle \ Keep}
          /\ pc' = "write" /\ UNCHANGED <<ROMCACHE, INB_CACHE, opens>>
      BY <1>4, <2>2 DEF CompareCopy, card, port670
    <3>2. Keep \subseteq Idle
      BY ShadRamAssumption DEF Keep, DiffMask
    <3>3. CandMask' \subseteq All
      BY <3>1, PageNumbers
    <3>4. \A n \in dwKeepMask' : n + SR_PAGES \notin CandMask'
      BY <3>1, <3>2, KeptNotCandidate
    <3>5. MasksOK'
      BY <2>1, <3>1, <3>2, <3>3, <3>4 DEF MasksOK
    <3>6. opens /\ ROMCACHE = 0 /\ INB_CACHE = 0
      BY <2>1, <2>2 DEF WindowKept, CopyFound
    <3> QED BY <2>1, <3>1, <3>5, <3>6
            DEF WindowKept, DistinctOnceVerified, TaintLatched
  <2>3. CASE ~CopyFound
    <3>1. pc' = "done" /\ UNCHANGED <<dwKeepMask, CandMask>>
      BY <1>4, <2>3 DEF CompareCopy, Stop
    <3> QED BY <2>1, <3>1
            DEF MasksOK, WindowKept, DistinctOnceVerified, TaintLatched
  <2> QED BY <2>2, <2>3
<1>5. CASE WriteIdle
  <2>1. MasksOK' /\ DistinctOnceVerified' /\ TaintLatched'
    BY <1>5 DEF WriteIdle, testRest, MasksOK, DistinctOnceVerified,
                TaintLatched, card, port670
  <2>2. WindowKept'
    BY <1>5 DEF WriteIdle, testRest, WindowKept, card, port670
  <2> QED BY <1>5, <2>1, <2>2 DEF WriteIdle
<1>6. CASE TestPage
  <2>1. /\ pc = "test" /\ pc' \in {"test", "fill"}
        /\ UNCHANGED <<decode, opens, ROMCACHE, INB_CACHE, dwKeepMask,
                       CandMask, added>>
    BY <1>6 DEF TestPage, testRest, card, port670
  <2>2. /\ PassMask' \subseteq CandMask
        /\ \A p \in PassMask' : decode[p] # Nowhere
    BY <1>6 DEF TestPage, MasksOK
  <2>3. tainted' => check'
    BY <1>6, <2>1 DEF TestPage, ReadMayFail, TaintLatched
  <2>4. MasksOK'
    BY <2>1, <2>2 DEF MasksOK
  <2> QED BY <2>1, <2>3, <2>4
          DEF WindowKept, DistinctOnceVerified, TaintLatched
<1>7. CASE FillAddresses
  BY <1>7 DEF FillAddresses, testRest, MasksOK, WindowKept,
              DistinctOnceVerified, TaintLatched, card, port670
<1>8. CASE VerifyAddresses
  <2>1. /\ pc = "verify" /\ pc' = "zero"
        /\ UNCHANGED <<decode, opens, ROMCACHE, INB_CACHE, dwKeepMask,
                       CandMask, added>>
    BY <1>8 DEF VerifyAddresses, testRest, card, port670
  <2>2. PassMask' \subseteq Unaliased
    BY <1>8 DEF VerifyAddresses
  <2>3. /\ PassMask' \subseteq PassMask
        /\ \A p \in PassMask' : ram[decode[p]] = Address(p)
    BY <2>2 DEF Unaliased
  <2>4. \A p, q \in PassMask' : decode[p] = decode[q] => p = q
    <3> SUFFICES ASSUME NEW p \in PassMask', NEW q \in PassMask',
                        decode[p] = decode[q]
                 PROVE  p = q
      OBVIOUS
    <3>1. Address(p) = Address(q)
      BY <2>3
    <3> QED BY <3>1 DEF Address
  <2>5. tainted' => check'
    BY <1>8, <2>1 DEF VerifyAddresses, ReadMayFail, TaintLatched
  <2>6. MasksOK'
    BY <2>1, <2>3 DEF MasksOK
  <2> QED BY <2>1, <2>4, <2>5, <2>6
          DEF WindowKept, DistinctOnceVerified, TaintLatched
<1>9. CASE ZeroPages
  BY <1>9 DEF ZeroPages, testRest, MasksOK, WindowKept,
              DistinctOnceVerified, TaintLatched, card, port670
<1>10. CASE JudgePages
  BY <1>10 DEF JudgePages, Judge, MasksOK, WindowKept,
               DistinctOnceVerified, TaintLatched, card, port670
<1>11. CASE AddPages
  BY <1>11 DEF AddPages, MasksOK, WindowKept,
               DistinctOnceVerified, TaintLatched, card, port670, masks
<1>12. CASE \E v \in Vms : Map_VM(v)
  <2>1. UNCHANGED <<card, port670, check, pc, masks, added, tainted>>
    BY <1>12, Zenon DEF Map_VM, afterRest
  <2> QED BY <2>1 DEF MasksOK, WindowKept, DistinctOnceVerified,
                      TaintLatched, card, port670, masks
<1>13. CASE Int13
  BY <1>13 DEF Int13, afterRest, MasksOK, WindowKept,
               DistinctOnceVerified, TaintLatched, card, masks
<1>14. CASE \E p \in All : UsePage(p)
  BY <1>14 DEF UsePage, afterRest, MasksOK, WindowKept,
               DistinctOnceVerified, TaintLatched, card, port670, masks
<1>15. CASE UNCHANGED vars
  BY <1>15 DEF vars, MasksOK, WindowKept,
               DistinctOnceVerified, TaintLatched, card, port670, masks
<1> QED
  BY <1>1, <1>2, <1>3, <1>4, <1>5, <1>6, <1>7, <1>8, <1>9, <1>10, <1>11,
     <1>12, <1>13, <1>14, <1>15 DEF Next, SysInit

-----------------------------------------------------------------------------
LEMMA DonationAlways == Spec => []DonationInv
BY DonationInit, DonationNext, PTL DEF Spec

LEMMA DonationSafe == DonationInv => DonatedIsOwnRam /\ ParityRefusesAll
<1> SUFFICES ASSUME DonationInv
             PROVE  DonatedIsOwnRam /\ ParityRefusesAll
  OBVIOUS
<1> USE DEF DonationInv
<1>1. added \subseteq PassMask /\ PassMask \subseteq CandMask /\ CandMask \subseteq All
  BY DEF MasksOK
<1>2. added # {} => pc = "done"
  BY DEF MasksOK
<1>3. ParityRefusesAll
  BY <1>1, <1>2 DEF ParityRefusesAll, TaintLatched, Tested
<1>4. ASSUME NEW p \in added
      PROVE  /\ WindowOpen
             /\ decode[p] # Nowhere
             /\ \A q \in added \ {p} : decode[q] # decode[p]
  BY <1>1, <1>2, <1>4
     DEF WindowOpen, WindowKept, MasksOK, DistinctOnceVerified
<1>5. ASSUME NEW p \in added, NEW n \in dwKeepMask
      PROVE  decode[p] # n + SR_PAGES
  <2>1. n + SR_PAGES \in Copy /\ n + SR_PAGES \notin Idle
        /\ n + SR_PAGES # Nowhere /\ n + SR_PAGES \notin CandMask
    BY PageNumbers DEF MasksOK
  <2>2. /\ p \in Copy => decode[p] = p
        /\ p \notin Copy => decode[p] \in Idle \cup {Nowhere}
    BY <1>1, DecodingHalves DEF MasksOK
  <2> QED BY <1>1, <2>1, <2>2
<1> QED BY <1>3, <1>4, <1>5 DEF DonatedIsOwnRam

(* A page the VMM was given is RAM that is there, that no other given page *)
(* and no kept BIOS page shares, and no later floppy call takes it away.   *)
THEOREM OnlyOwnRamDonated == Spec => []DonatedIsOwnRam
BY DonationAlways, DonationSafe, PTL

(* One parity error anywhere in the tests and the VMM is given nothing.    *)
THEOREM NoPageAfterParity == Spec => []ParityRefusesAll
BY DonationAlways, DonationSafe, PTL

-----------------------------------------------------------------------------
(* Filling pages with proper contents leaves RAM properly typed.           *)
LEMMA FilledTyped ==
  ASSUME ram \in [All -> Content], NEW s, NEW x,
         \A p \in s : x[p] \in Content
  PROVE  Filled(s, x) \in [All -> Content]
<1> SUFFICES ASSUME NEW c \in All
             PROVE  Filled(s, x)[c] \in Content
  BY DEF Filled
<1> DEFINE last == {p \in s : Reaches(p, c) /\ \A q \in s : Reaches(q, c) => q <= p}
<1>1. CASE last = {}
  BY <1>1 DEF Filled
<1>2. CASE last # {}
  <2>1. (CHOOSE p \in last : TRUE) \in s
    BY <1>2
  <2> QED BY <1>2, <2>1 DEF Filled
<1> QED BY <1>1, <1>2

(* TypeOK in three parts: the card, the masks with RAM and the VMs, and    *)
(* where the driver is.                                                    *)
CardTyped ==
  /\ inbrdpc \in BOOLEAN /\ cached \in Caching
  /\ opens \in BOOLEAN /\ basic \in BOOLEAN
  /\ decode \in Decodings
  /\ diffs \in [Idle -> 0 .. MaxDiff] /\ filler \subseteq Idle

DataTyped ==
  /\ ram \in [All -> Content]
  /\ dwKeepMask \subseteq Idle
  /\ CandMask \subseteq All /\ PassMask \subseteq All /\ added \subseteq All
  /\ view \in [Vms -> [Idle -> {"no VM", "unmapped", "rom", "copy"}]]

PlaceTyped ==
  /\ ROMCACHE \in {0, 1} /\ INB_CACHE \in {0, 1}
  /\ nmi \in BOOLEAN /\ check \in BOOLEAN /\ tainted \in BOOLEAN
  /\ pc \in {"pages", "maps", "open", "compare", "write", "test", "fill",
             "verify", "zero", "judge", "add", "done"}
  /\ page \in 0 .. 2 * SR_PAGES
  /\ dwStatus \in {"ok", "owned", "nomap", "noinb", "v86", "nowin", "parity"}
  /\ dwBiosPage \in {"none", "rom", "copy"}

LEMMA TypeParts ==
  /\ TypeOK <=> CardTyped /\ DataTyped /\ PlaceTyped
  /\ TypeOK' <=> CardTyped' /\ DataTyped' /\ PlaceTyped'
BY DEF TypeOK, CardTyped, DataTyped, PlaceTyped

LEMMA CardStays == CardTyped /\ UNCHANGED card => CardTyped'
BY DEF CardTyped, card

(* What the stages put in RAM.                                             *)
LEMMA Contents ==
  /\ Holds("unwritten") \in Content /\ Holds("pattern") \in Content
  /\ Holds("zero") \in Content /\ Holds("used") \in Content
  /\ \A n \in Idle : Bios(n) \in Content
  /\ \A p \in All : Address(p) \in Content
BY DEF Content

(* Pages are kept only once the copy has been found.                       *)
NoKeep ==
  dwBiosPage # "copy" \/ pc \in Untested \ {"write"} => dwKeepMask = {}

LEMMA NoKeepInit == Init => NoKeep
BY DEF Init, NoKeep

LEMMA NoKeepNext == NoKeep /\ [Next]_vars => NoKeep'
<1> USE DEF NoKeep, Untested
<1>1. CASE ClaimPages
  BY <1>1 DEF ClaimPages, Stop, masks
<1>2. CASE MapAreas
  BY <1>2 DEF MapAreas, Stop, masks
<1>3. CASE OpenWindow
  BY <1>3 DEF OpenWindow, masks
<1>4. CASE CompareCopy
  BY <1>4 DEF CompareCopy, Stop
<1>5. CASE WriteIdle \/ TestPage \/ FillAddresses \/ VerifyAddresses \/ ZeroPages
  BY <1>5 DEF WriteIdle, TestPage, FillAddresses, VerifyAddresses, ZeroPages, testRest
<1>6. CASE JudgePages \/ AddPages
  BY <1>6 DEF JudgePages, AddPages, masks
<1>7. CASE \E v \in Vms : Map_VM(v)
  <2>1. UNCHANGED <<pc, dwBiosPage, masks>>
    BY <1>7, Zenon DEF Map_VM, afterRest
  <2> QED BY <2>1 DEF masks
<1>8. CASE Int13 \/ \E p \in All : UsePage(p)
  BY <1>8 DEF Int13, UsePage, afterRest, masks
<1>9. CASE UNCHANGED vars
  BY <1>9 DEF vars, masks
<1> QED
  BY <1>1, <1>2, <1>3, <1>4, <1>5, <1>6, <1>7, <1>8, <1>9 DEF Next, SysInit

LEMMA ShadTypeInit == Init => TypeOK
<1> SUFFICES ASSUME Init PROVE TypeOK
  OBVIOUS
<1>1. CardTyped
  BY DEF Init, CardTyped
<1>2. DataTyped
  <2>1. ram \in [All -> Content]
    <3> SUFFICES ASSUME NEW p \in All PROVE ram[p] \in Content
      BY DEF Init
    <3>1. CASE p \in Copy /\ cached
      <4>1. p - SR_PAGES \in Idle
        BY <3>1, ShadRamAssumption DEF Copy, Idle
      <4> QED BY <3>1, <4>1, Contents DEF Init
    <3>2. CASE ~(p \in Copy /\ cached)
      BY <3>2, Contents DEF Init
    <3> QED BY <3>1, <3>2
  <2> QED BY <2>1 DEF Init, DataTyped
<1>3. PlaceTyped
  <2>1. ROMCACHE \in {0, 1} /\ INB_CACHE \in {0, 1}
    BY DEF Init, InitialCache
  <2>2. page \in 0 .. 2 * SR_PAGES
    <3>1. page = 0
      BY DEF Init
    <3> QED BY <3>1, ShadRamAssumption
  <2> QED BY <2>1, <2>2 DEF Init, PlaceTyped
<1> QED BY <1>1, <1>2, <1>3, TypeParts

LEMMA ShadTypeNext == TypeOK /\ NoKeep /\ [Next]_vars => TypeOK'
<1> SUFFICES ASSUME TypeOK, NoKeep, [Next]_vars
             PROVE  TypeOK'
  OBVIOUS
<1>0. CardTyped /\ DataTyped /\ PlaceTyped
  BY TypeParts
<1>1. CASE ClaimPages
  <2>1. UNCHANGED card
    BY <1>1 DEF ClaimPages
  <2>2. DataTyped'
    BY <1>1, <1>0 DEF ClaimPages, Stop, DataTyped, masks
  <2>3. PlaceTyped'
    BY <1>1, <1>0 DEF ClaimPages, Stop, PlaceTyped, port670
  <2> QED BY <1>0, <2>1, <2>2, <2>3, CardStays, TypeParts
<1>2. CASE MapAreas
  <2>1. UNCHANGED card
    BY <1>2 DEF MapAreas
  <2>2. DataTyped'
    BY <1>2, <1>0 DEF MapAreas, Stop, DataTyped, masks
  <2>3. PlaceTyped'
    BY <1>2, <1>0 DEF MapAreas, Stop, PlaceTyped, port670
  <2> QED BY <1>0, <2>1, <2>2, <2>3, CardStays, TypeParts
<1>3. CASE OpenWindow
  <2>1. UNCHANGED card
    BY <1>3 DEF OpenWindow
  <2>2. DataTyped'
    BY <1>3, <1>0 DEF OpenWindow, Write_670, DataTyped, masks
  <2>3. PlaceTyped'
    BY <1>3, <1>0 DEF OpenWindow, Write_670, PlaceTyped, port670
  <2> QED BY <1>0, <2>1, <2>2, <2>3, CardStays, TypeParts
<1>4. CASE CompareCopy
  <2>1. UNCHANGED <<card, ram, page, PassMask, added, view, tainted>>
    BY <1>4 DEF CompareCopy
  <2>2. CASE CopyFound
    <3>1. Keep \subseteq Idle
      BY ShadRamAssumption DEF Keep, DiffMask
    <3>2. Idle \cup {n + SR_PAGES : n \in Idle \ Keep} \subseteq All
      BY PageNumbers
    <3>3. /\ dwKeepMask' = Keep
          /\ CandMask' = Idle \cup {n + SR_PAGES : n \in Idle \ Keep}
          /\ dwBiosPage' = "copy" /\ nmi' = FALSE /\ check' = FALSE /\ pc' = "write"
          /\ UNCHANGED <<port670, dwStatus>>
      BY <1>4, <2>2 DEF CompareCopy
    <3>4. DataTyped'
      BY <1>0, <2>1, <3>1, <3>2, <3>3 DEF DataTyped
    <3>5. PlaceTyped'
      BY <1>0, <2>1, <3>3 DEF PlaceTyped, port670
    <3> QED BY <1>0, <2>1, <3>4, <3>5, CardStays, TypeParts
  <2>3. CASE ~CopyFound
    <3>1. check \in BOOLEAN /\ cached \in BOOLEAN /\ opens \in BOOLEAN
      BY <1>0, ShadRamAssumption DEF PlaceTyped, CardTyped
    <3>2. /\ ROMCACHE' = 1 /\ INB_CACHE' = 1 /\ dwStatus' = "nowin" /\ pc' = "done"
          /\ check' \in BOOLEAN
          /\ UNCHANGED <<dwBiosPage, dwKeepMask, CandMask, nmi>>
      BY <1>4, <2>3, <3>1 DEF CompareCopy, Restore, Write_670, Stop
    <3>3. DataTyped'
      BY <1>0, <2>1, <3>2 DEF DataTyped
    <3>4. PlaceTyped'
      BY <1>0, <2>1, <3>2 DEF PlaceTyped
    <3> QED BY <1>0, <2>1, <3>3, <3>4, CardStays, TypeParts
  <2> QED BY <2>2, <2>3
<1>5. CASE WriteIdle
  <2>1. UNCHANGED card
    BY <1>5 DEF WriteIdle, testRest
  <2>2. DataTyped'
    <3>1. ram' \in [All -> Content]
      BY <1>5, <1>0, FilledTyped, Contents DEF WriteIdle, DataTyped
    <3> QED BY <1>5, <1>0, <3>1 DEF WriteIdle, testRest, DataTyped
  <2>3. PlaceTyped'
    <3>1. page' \in 0 .. 2 * SR_PAGES
      BY <1>5, ShadRamAssumption DEF WriteIdle
    <3> QED BY <1>5, <1>0, <3>1 DEF WriteIdle, testRest, PlaceTyped, port670
  <2> QED BY <1>0, <2>1, <2>2, <2>3, CardStays, TypeParts
<1>6. CASE TestPage
  <2>1. UNCHANGED card
    BY <1>6 DEF TestPage, testRest
  <2>2. DataTyped'
    <3>1. ram' \in [All -> Content]
      <4>1. CASE page \in CandMask
        <5>1. ram' = Filled({page}, [p \in {page} |-> Holds("pattern")])
          BY <1>6, <4>1 DEF TestPage
        <5>2. \A p \in {page} : [q \in {page} |-> Holds("pattern")][p] \in Content
          BY Contents
        <5> QED BY <1>0, <5>1, <5>2, FilledTyped DEF DataTyped
      <4>2. CASE page \notin CandMask
        BY <1>6, <1>0, <4>2 DEF TestPage, DataTyped
      <4> QED BY <4>1, <4>2
    <3>2. PassMask' \subseteq All
      BY <1>6, <1>0 DEF TestPage, DataTyped
    <3> QED BY <1>6, <1>0, <3>1, <3>2 DEF TestPage, testRest, DataTyped
  <2>3. PlaceTyped'
    <3>1. check' \in BOOLEAN /\ tainted' \in BOOLEAN
      BY <1>6, <1>0 DEF TestPage, ReadMayFail, PlaceTyped
    <3>2. page' \in 0 .. 2 * SR_PAGES
      <4>1. page \in 0 .. 2 * SR_PAGES /\ page < 2 * SR_PAGES /\ page' = page + 1
        BY <1>6, <1>0 DEF TestPage, PlaceTyped
      <4> QED BY <4>1, ShadRamAssumption
    <3> QED BY <1>6, <1>0, <3>1, <3>2 DEF TestPage, testRest, PlaceTyped, port670
  <2> QED BY <1>0, <2>1, <2>2, <2>3, CardStays, TypeParts
<1>7. CASE FillAddresses
  <2>1. UNCHANGED card
    BY <1>7 DEF FillAddresses, testRest
  <2>2. DataTyped'
    <3>1. \A p \in PassMask : [q \in PassMask |-> Address(q)][p] \in Content
      BY <1>0, Contents DEF DataTyped
    <3>2. ram' \in [All -> Content]
      BY <1>7, <1>0, <3>1, FilledTyped DEF FillAddresses, DataTyped
    <3> QED BY <1>7, <1>0, <3>2 DEF FillAddresses, testRest, DataTyped
  <2>3. PlaceTyped'
    BY <1>7, <1>0 DEF FillAddresses, testRest, PlaceTyped, port670
  <2> QED BY <1>0, <2>1, <2>2, <2>3, CardStays, TypeParts
<1>8. CASE VerifyAddresses
  <2>1. UNCHANGED card
    BY <1>8 DEF VerifyAddresses, testRest
  <2>2. DataTyped'
    <3>1. PassMask' \subseteq PassMask
      BY <1>8 DEF VerifyAddresses, Unaliased
    <3> QED BY <1>8, <1>0, <3>1 DEF VerifyAddresses, testRest, DataTyped
  <2>3. PlaceTyped'
    <3>1. check' \in BOOLEAN /\ tainted' \in BOOLEAN
      BY <1>8, <1>0 DEF VerifyAddresses, ReadMayFail, PlaceTyped
    <3> QED BY <1>8, <1>0, <3>1 DEF VerifyAddresses, testRest, PlaceTyped, port670
  <2> QED BY <1>0, <2>1, <2>2, <2>3, CardStays, TypeParts
<1>9. CASE ZeroPages
  <2>1. UNCHANGED card
    BY <1>9 DEF ZeroPages, testRest
  <2>2. DataTyped'
    <3>1. ram' \in [All -> Content]
      BY <1>9, <1>0, FilledTyped, Contents DEF ZeroPages, DataTyped
    <3> QED BY <1>9, <1>0, <3>1 DEF ZeroPages, testRest, DataTyped
  <2>3. PlaceTyped'
    BY <1>9, <1>0 DEF ZeroPages, testRest, PlaceTyped, port670
  <2> QED BY <1>0, <2>1, <2>2, <2>3, CardStays, TypeParts
<1>10. CASE JudgePages
  <2>1. UNCHANGED card
    BY <1>10 DEF JudgePages
  <2>2. DataTyped'
    BY <1>10, <1>0 DEF JudgePages, Judge, DataTyped, masks
  <2>3. PlaceTyped'
    BY <1>10, <1>0 DEF JudgePages, Judge, PlaceTyped, port670
  <2> QED BY <1>0, <2>1, <2>2, <2>3, CardStays, TypeParts
<1>11. CASE AddPages
  <2>1. UNCHANGED card
    BY <1>11 DEF AddPages
  <2>2. DataTyped'
    BY <1>11, <1>0 DEF AddPages, DataTyped, masks
  <2>3. PlaceTyped'
    BY <1>11, <1>0 DEF AddPages, PlaceTyped, port670
  <2> QED BY <1>0, <2>1, <2>2, <2>3, CardStays, TypeParts
<1>12. CASE \E v \in Vms : Map_VM(v)
  <2> SUFFICES ASSUME NEW v \in Vms, Map_VM(v)
               PROVE  TypeOK'
    BY <1>12
  <2>1. PICK failed : view' = [view EXCEPT ![v] =
                 [n \in Idle |-> IF n \in failed THEN "unmapped" ELSE Target(n)]]
    BY Zenon DEF Map_VM
  <2>2. \A n \in Idle : Target(n) \in {"rom", "copy"}
    BY <1>0 DEF Target, NoKeep, PlaceTyped
  <2>3. view' \in [Vms -> [Idle -> {"no VM", "unmapped", "rom", "copy"}]]
    BY <1>0, <2>1, <2>2 DEF DataTyped
  <2>4. UNCHANGED <<afterRest, port670, ram>>
    BY DEF Map_VM
  <2>5. DataTyped'
    BY <1>0, <2>3, <2>4 DEF DataTyped, afterRest, masks
  <2>6. PlaceTyped'
    BY <1>0, <2>4 DEF PlaceTyped, afterRest, port670
  <2> QED BY <1>0, <2>4, <2>5, <2>6, CardStays, TypeParts DEF afterRest
<1>13. CASE Int13
  <2>1. UNCHANGED card
    BY <1>13 DEF Int13, afterRest
  <2>2. DataTyped'
    BY <1>13, <1>0 DEF Int13, afterRest, DataTyped, masks
  <2>3. PlaceTyped'
    BY <1>13, <1>0 DEF Int13, afterRest, PlaceTyped, port670
  <2> QED BY <1>0, <2>1, <2>2, <2>3, CardStays, TypeParts
<1>14. CASE \E p \in All : UsePage(p)
  <2> SUFFICES ASSUME NEW p \in All, UsePage(p)
               PROVE  TypeOK'
    BY <1>14
  <2>1. ram' \in [All -> Content]
    BY <1>0, FilledTyped, Contents DEF UsePage, DataTyped
  <2>2. UNCHANGED <<afterRest, port670, view>>
    BY DEF UsePage
  <2>3. DataTyped'
    BY <1>0, <2>1, <2>2 DEF DataTyped, afterRest, masks
  <2>4. PlaceTyped'
    BY <1>0, <2>2 DEF PlaceTyped, afterRest, port670
  <2> QED BY <1>0, <2>2, <2>3, <2>4, CardStays, TypeParts DEF afterRest
<1>15. CASE UNCHANGED vars
  <2>1. UNCHANGED card
    BY <1>15 DEF vars
  <2>2. DataTyped'
    BY <1>15, <1>0 DEF vars, DataTyped, masks
  <2>3. PlaceTyped'
    BY <1>15, <1>0 DEF vars, PlaceTyped, port670
  <2> QED BY <1>0, <2>1, <2>2, <2>3, CardStays, TypeParts
<1> QED
  BY <1>1, <1>2, <1>3, <1>4, <1>5, <1>6, <1>7, <1>8, <1>9, <1>10, <1>11,
     <1>12, <1>13, <1>14, <1>15 DEF Next, SysInit

(* RAM, masks, window and the views of all VMs stay what they should be,   *)
(* and a VM's page of F0000 is at the ROM, the copy or nowhere             *)
(* (ShadRam_Sys_Init, ShadRam_Map_VM).                                     *)
THEOREM ShadTyped == Spec => []TypeOK
BY NoKeepInit, NoKeepNext, ShadTypeInit, ShadTypeNext, PTL DEF Spec

-----------------------------------------------------------------------------
(***************************************************************************)
(* That every VM keeps its BIOS, and that no NMI strikes, when INBRDPC runs *)
(* as it does by default, with the BIOS in the card's RAM.                 *)
(***************************************************************************)

Early   == {"pages", "maps", "open"}
Masked  == Testing \cup {"write"}

(* What the driver has decided about F0000, and port 670h with it. *)
PortOK ==
  /\ cached
  /\ dwBiosPage # "copy" => dwKeepMask = {}
  /\ dwBiosPage = "copy" => /\ opens /\ ROMCACHE = 0 /\ INB_CACHE = 0
                            /\ DiffMask \subseteq dwKeepMask
                            /\ pc \notin Early \cup {"compare"}
  /\ dwBiosPage # "copy" => pc \notin Masked \cup {"add"}
  /\ pc \in Early => ROMCACHE = 1 /\ INB_CACHE = 1
  /\ pc = "done" /\ dwBiosPage # "copy" => ROMCACHE = 1 /\ INB_CACHE = 1

(* The kept pages of the copy still hold the BIOS; all of them do as long  *)
(* as the copy has not been found.                                         *)
CopyIntact ==
  \A n \in Idle :
    dwBiosPage # "copy" \/ n \in dwKeepMask => ram[n + SR_PAGES] = Bios(n)

(* A VM's page is mapped onto the copy only if it is kept, onto the ROM    *)
(* only if it is not.                                                      *)
ViewsOK ==
  /\ view \in [Vms -> [Idle -> {"no VM", "unmapped", "rom", "copy"}]]
  /\ pc # "done" => \A v \in Vms, n \in Idle : view[v][n] = "no VM"
  /\ \A v \in Vms, n \in Idle :
       /\ view[v][n] = "copy" => dwBiosPage = "copy" /\ n \in dwKeepMask
       /\ view[v][n] = "rom" => n \notin dwKeepMask

(* NMI is masked exactly while the tests run. *)
NmiOK ==
  /\ pc \in Masked => ~nmi
  /\ pc \notin Masked => nmi /\ ~check

BiosInv == DonationInv /\ PortOK /\ CopyIntact /\ ViewsOK /\ NmiOK

-----------------------------------------------------------------------------
(* Filling pages the BIOS does not need leaves the kept copies alone.      *)
LEMMA KeptUnreached ==
  ASSUME MasksOK, NEW s \in SUBSET (Idle \cup CandMask), NEW f,
         NEW n \in dwKeepMask
  PROVE  Filled(s, f)[n + SR_PAGES] = ram[n + SR_PAGES]
<1>1. /\ n \in Idle /\ n + SR_PAGES \in Copy /\ n + SR_PAGES \notin Idle
      /\ n + SR_PAGES # Nowhere /\ n + SR_PAGES \notin CandMask
      /\ n + SR_PAGES \in All
  BY PageNumbers DEF MasksOK
<1>2. ASSUME NEW p \in s
      PROVE  decode[p] # n + SR_PAGES
  <2>1. p \in All
    BY PageNumbers DEF MasksOK
  <2>2. /\ p \in Copy => decode[p] = p
        /\ p \notin Copy => decode[p] \in Idle \cup {Nowhere}
    BY <2>1, DecodingHalves DEF MasksOK
  <2>3. p \in Copy => p # n + SR_PAGES
    BY <1>1, PageNumbers
  <2> QED BY <1>1, <2>2, <2>3
<1>3. {p \in s : Reaches(p, n + SR_PAGES)} = {}
  BY <1>2 DEF Reaches
<1> QED BY <1>1, <1>3 DEF Filled

LEMMA BiosInit ==
  ASSUME Caching = {TRUE}
  PROVE  Init => BiosInv
<1> SUFFICES ASSUME Init PROVE BiosInv
  OBVIOUS
<1>1. cached /\ ROMCACHE = 1 /\ INB_CACHE = 1
  BY DEF Init, InitialCache
<1>2. PortOK /\ NmiOK
  BY <1>1 DEF Init, PortOK, NmiOK, Early, Masked, Testing
<1>3. CopyIntact
  <2> SUFFICES ASSUME NEW n \in Idle
               PROVE  ram[n + SR_PAGES] = Bios(n)
    BY DEF CopyIntact
  <2>1. n + SR_PAGES \in Copy /\ n + SR_PAGES \in All
    BY PageNumbers
  <2>2. n \in Nat /\ SR_PAGES \in Nat
    BY ShadRamAssumption DEF Idle
  <2>3. ram = [p \in All |-> IF p \in Copy THEN Bios(p - SR_PAGES)
                                           ELSE Holds("unwritten")]
    BY <1>1 DEF Init
  <2>4. \A p \in Copy \cap All : ram[p] = Bios(p - SR_PAGES)
    BY <2>3
  <2>5. PICK p \in Copy \cap All : p = n + SR_PAGES /\ p - SR_PAGES = n
    BY <2>1, <2>2
  <2>6. ram[p] = Bios(n)
    BY <2>4, <2>5, Zenon
  <2> QED BY <2>5, <2>6
<1>4. ViewsOK
  BY DEF Init, ViewsOK
<1> QED BY <1>2, <1>3, <1>4, DonationInit DEF BiosInv

-----------------------------------------------------------------------------
(* The steps of the tests: port, decisions and VMs stay, RAM is filled.    *)
LEMMA TestStep ==
  ASSUME BiosInv, DonationInv', pc \in Masked, pc' \in Masked,
         UNCHANGED <<card, port670, dwBiosPage, dwKeepMask, view, nmi>>,
         NEW s \in SUBSET (Idle \cup CandMask), NEW f,
         ram' = ram \/ ram' = Filled(s, f)
  PROVE  BiosInv'
<1>1. dwBiosPage = "copy" /\ ~nmi
  BY DEF BiosInv, PortOK, NmiOK
<1>2. PortOK' /\ NmiOK'
  BY <1>1 DEF BiosInv, PortOK, NmiOK, card, port670, DiffMask, Early, Masked,
              Testing
<1>3. CopyIntact'
  <2> SUFFICES ASSUME NEW n \in Idle, n \in dwKeepMask
               PROVE  ram'[n + SR_PAGES] = Bios(n)
    BY <1>1 DEF CopyIntact
  <2>1. ram[n + SR_PAGES] = Bios(n)
    BY DEF BiosInv, CopyIntact
  <2>2. Filled(s, f)[n + SR_PAGES] = ram[n + SR_PAGES]
    BY KeptUnreached DEF BiosInv, DonationInv
  <2> QED BY <2>1, <2>2
<1>4. ViewsOK'
  BY <1>1 DEF BiosInv, ViewsOK, Masked, Testing
<1> QED BY <1>2, <1>3, <1>4 DEF BiosInv

(* The steps that leave RAM alone and decide nothing about F0000. *)
LEMMA QuietStep ==
  ASSUME BiosInv, DonationInv',
         UNCHANGED <<card, port670, ram, dwBiosPage, dwKeepMask, view>>,
         pc' \in Masked => pc \in Masked,
         pc' \in Early \cup {"compare"} => pc = pc',
         pc' = "add" => pc \in Masked \cup {"add"},
         pc' = "done" => pc \in {"add", "done"},
         pc' # "done" => pc # "done",
         NmiOK'
  PROVE  BiosInv'
<1>1. PortOK'
  BY DEF BiosInv, PortOK, card, port670, DiffMask, Early, Masked, Testing
<1>2. CopyIntact'
  BY DEF BiosInv, CopyIntact
<1>3. ViewsOK'
  BY DEF BiosInv, ViewsOK
<1> QED BY <1>1, <1>2, <1>3 DEF BiosInv

LEMMA BiosNext == BiosInv /\ [Next]_vars => BiosInv'
<1> SUFFICES ASSUME BiosInv, [Next]_vars
             PROVE  BiosInv'
  OBVIOUS
<1>0. DonationInv'
  BY DonationNext DEF BiosInv
<1> USE <1>0 DEF Untested, Testing, Tested, Early, Masked
<1>1. CASE ClaimPages
  BY <1>1 DEF ClaimPages, Stop, BiosInv, PortOK, CopyIntact, ViewsOK, NmiOK,
              card, port670, masks, DiffMask
<1>2. CASE MapAreas
  BY <1>2 DEF MapAreas, Stop, BiosInv, PortOK, CopyIntact, ViewsOK, NmiOK,
              card, port670, masks, DiffMask
<1>3. CASE OpenWindow
  BY <1>3 DEF OpenWindow, Write_670, BiosInv, PortOK, CopyIntact, ViewsOK,
              NmiOK, card, masks, DiffMask
<1>4. CASE CompareCopy
  <2>1. /\ pc = "compare" /\ cached /\ cached' /\ nmi /\ ~check
        /\ dwBiosPage # "copy" /\ dwKeepMask = {}
        /\ UNCHANGED <<card, ram, view>>
    BY <1>4 DEF CompareCopy, BiosInv, PortOK, NmiOK, card
  <2>2. CASE CopyFound
    <3>1. /\ dwBiosPage' = "copy" /\ dwKeepMask' = Keep
          /\ pc' = "write" /\ ~nmi' /\ UNCHANGED port670
      BY <1>4, <2>2 DEF CompareCopy
    <3>2. DiffMask' \subseteq dwKeepMask'
      BY <2>1, <3>1 DEF Keep, DiffMask, card
    <3>3. opens' /\ ROMCACHE' = 0 /\ INB_CACHE' = 0
      BY <2>1, <2>2, <3>1
         DEF BiosInv, DonationInv, WindowKept, CopyFound, card, port670
    <3>4. PortOK' /\ NmiOK'
      BY <2>1, <3>1, <3>2, <3>3 DEF PortOK, NmiOK
    <3>5. CopyIntact' /\ ViewsOK'
      BY <2>1, <3>1 DEF BiosInv, CopyIntact, ViewsOK
    <3> QED BY <3>4, <3>5 DEF BiosInv
  <2>3. CASE ~CopyFound
    <3>1. /\ ROMCACHE' = 1 /\ INB_CACHE' = 1 /\ pc' = "done"
          /\ check' \in {check, check \/ (opens /\ ~cached)}
          /\ UNCHANGED <<dwBiosPage, dwKeepMask, nmi>>
      BY <1>4, <2>3 DEF CompareCopy, Restore, Write_670, Stop
    <3>2. ~check'
      BY <2>1, <3>1
    <3>3. PortOK' /\ NmiOK'
      BY <2>1, <3>1, <3>2 DEF PortOK, NmiOK
    <3>4. CopyIntact' /\ ViewsOK'
      BY <2>1, <3>1 DEF BiosInv, CopyIntact, ViewsOK
    <3> QED BY <3>3, <3>4 DEF BiosInv
  <2> QED BY <2>2, <2>3
<1>5. CASE WriteIdle
  <2>1. ram' = Filled(Idle, [p \in Idle |-> Holds("zero")])
    BY <1>5 DEF WriteIdle
  <2> QED BY <1>5, <2>1, TestStep DEF WriteIdle, testRest
<1>6. CASE TestPage
  <2>1. /\ pc \in Masked /\ pc' \in Masked
        /\ UNCHANGED <<card, port670, dwBiosPage, dwKeepMask, view, nmi>>
    BY <1>6 DEF TestPage, testRest
  <2>2. CASE page \in CandMask
    <3>1. ram' = Filled({page}, [p \in {page} |-> Holds("pattern")])
      BY <1>6, <2>2 DEF TestPage
    <3>2. {page} \in SUBSET (Idle \cup CandMask)
      BY <2>2
    <3> QED BY <2>1, <3>1, <3>2, TestStep
  <2>3. CASE page \notin CandMask
    <3>1. ram' = ram
      BY <1>6, <2>3 DEF TestPage
    <3>2. {} \in SUBSET (Idle \cup CandMask)
      OBVIOUS
    <3> QED BY <2>1, <3>1, <3>2, TestStep
  <2> QED BY <2>2, <2>3
<1>7. CASE FillAddresses
  <2>1. PassMask \in SUBSET (Idle \cup CandMask)
    BY DEF BiosInv, DonationInv, MasksOK
  <2>2. ram' = Filled(PassMask, [p \in PassMask |-> Address(p)])
    BY <1>7 DEF FillAddresses
  <2> QED BY <1>7, <2>1, <2>2, TestStep DEF FillAddresses, testRest
<1>8. CASE VerifyAddresses
  <2>1. ram' = ram /\ pc \in Masked /\ pc' \in Masked
    BY <1>8 DEF VerifyAddresses
  <2>2. {} \in SUBSET (Idle \cup CandMask)
    OBVIOUS
  <2> QED BY <1>8, <2>1, <2>2, TestStep DEF VerifyAddresses, testRest
<1>9. CASE ZeroPages
  <2>1. ram' = Filled(Zeroed, [p \in Zeroed |-> Holds("zero")])
        /\ Zeroed \in SUBSET (Idle \cup CandMask)
    BY <1>9 DEF ZeroPages, Zeroed
  <2> QED BY <1>9, <2>1, TestStep DEF ZeroPages, testRest
<1>10. CASE JudgePages
  <2>1. NmiOK'
    BY <1>10 DEF JudgePages, Judge, NmiOK
  <2> QED BY <1>10, <2>1, QuietStep DEF JudgePages
<1>11. CASE AddPages
  <2>1. NmiOK'
    BY <1>11 DEF AddPages, BiosInv, NmiOK
  <2> QED BY <1>11, <2>1, QuietStep DEF AddPages, masks
<1>12. CASE \E v \in Vms : Map_VM(v)
  <2> SUFFICES ASSUME NEW v \in Vms, Map_VM(v)
               PROVE  BiosInv'
    BY <1>12
  <2>1. /\ pc = "done"
        /\ UNCHANGED <<card, port670, ram, nmi, check, pc, dwBiosPage, masks>>
    BY DEF Map_VM, afterRest
  <2>2. PICK failed : view' = [view EXCEPT ![v] =
                 [n \in Idle |-> IF n \in failed THEN "unmapped" ELSE Target(n)]]
    BY Zenon DEF Map_VM
  <2>3. \A n \in Idle : Target(n) = IF n \in dwKeepMask THEN "copy" ELSE "rom"
    BY DEF Target, BiosInv, PortOK
  <2>4. \A n \in Idle : n \in dwKeepMask => dwBiosPage = "copy"
    BY DEF BiosInv, PortOK
  <2>5. ViewsOK'
    BY <2>1, <2>2, <2>3, <2>4 DEF BiosInv, ViewsOK, masks
  <2>6. PortOK' /\ NmiOK' /\ CopyIntact'
    BY <2>1 DEF BiosInv, PortOK, NmiOK, CopyIntact, card, port670, masks,
                DiffMask
  <2> QED BY <2>5, <2>6 DEF BiosInv
<1>13. CASE Int13
  BY <1>13 DEF Int13, afterRest, BiosInv, PortOK, CopyIntact, ViewsOK, NmiOK,
               card, masks, DiffMask
<1>14. CASE \E p \in All : UsePage(p)
  <2> SUFFICES ASSUME NEW p \in All, UsePage(p)
               PROVE  BiosInv'
    BY <1>14
  <2>1. /\ pc = "done" /\ p \in added
        /\ UNCHANGED <<card, port670, view, nmi, check, pc, dwBiosPage, masks>>
    BY DEF UsePage, afterRest
  <2>2. {p} \in SUBSET (Idle \cup CandMask)
    BY <2>1 DEF BiosInv, DonationInv, MasksOK
  <2>3. CASE dwBiosPage = "copy"
    <3>1. ram' = ram \/ ram' = Filled({p}, [q \in {p} |-> Holds("used")])
      BY DEF UsePage
    <3> SUFFICES ASSUME NEW n \in dwKeepMask, n \in Idle
                 PROVE  ram'[n + SR_PAGES] = ram[n + SR_PAGES]
      BY <2>1, <2>3 DEF BiosInv, PortOK, NmiOK, CopyIntact, ViewsOK, card,
                        port670, masks, DiffMask
    <3> QED BY <2>2, <3>1, KeptUnreached DEF BiosInv, DonationInv
  <2>4. CASE dwBiosPage # "copy"
    <3>1. ram' = ram
      BY <2>1, <2>4 DEF UsePage, WindowOpen, BiosInv, PortOK
    <3> QED BY <2>1, <2>4, <3>1 DEF BiosInv, PortOK, NmiOK, CopyIntact,
                                ViewsOK, card, port670, masks, DiffMask
  <2> QED BY <2>3, <2>4
<1>15. CASE UNCHANGED vars
  <2>1. NmiOK'
    BY <1>15 DEF vars, BiosInv, NmiOK
  <2> QED BY <1>15, <2>1, QuietStep DEF vars, masks
<1> QED
  BY <1>1, <1>2, <1>3, <1>4, <1>5, <1>6, <1>7, <1>8, <1>9, <1>10, <1>11,
     <1>12, <1>13, <1>14, <1>15 DEF Next, SysInit

-----------------------------------------------------------------------------
LEMMA BiosAlways ==
  ASSUME Caching = {TRUE}
  PROVE  Spec => []BiosInv
<1>1. Init => BiosInv
  BY BiosInit
<1> QED BY <1>1, BiosNext, PTL DEF Spec

LEMMA BiosSeen == BiosInv => BiosAsBefore /\ NmiNeverStrikes
<1> SUFFICES ASSUME BiosInv
             PROVE  BiosAsBefore /\ NmiNeverStrikes
  OBVIOUS
<1>1. NmiNeverStrikes
  BY DEF BiosInv, NmiOK, NmiNeverStrikes, Masked, Testing
<1>2. ASSUME pc = "done", NEW v \in Vms, NEW n \in Idle,
             view[v][n] \in {"rom", "copy"}
      PROVE  Seen(n, view[v][n]) = <<Bios(n), cached /\ n \in DiffMask>>
  <2>1. cached
    BY DEF BiosInv, PortOK
  <2>2. CASE view[v][n] = "copy"
    <3>1. dwBiosPage = "copy" /\ n \in dwKeepMask
      BY <2>2 DEF BiosInv, ViewsOK
    <3>2. WindowOpen /\ ram[n + SR_PAGES] = Bios(n)
      BY <3>1 DEF BiosInv, PortOK, CopyIntact, WindowOpen
    <3>3. Seen(n, "copy") = <<Bios(n), n \in DiffMask>>
      BY <3>2 DEF Seen, FromCopy
    <3>4. (cached /\ n \in DiffMask) = (n \in DiffMask)
      BY <2>1
    <3> QED BY <2>2, <3>3, <3>4
  <2>3. CASE view[v][n] = "rom" /\ dwBiosPage = "copy"
    <3>1. n \notin DiffMask /\ ROMCACHE = 0
      BY <2>3 DEF BiosInv, ViewsOK, PortOK
    <3>2. Seen(n, "rom") = <<Bios(n), FALSE>>
      BY <3>1 DEF Seen, FromRom
    <3>3. (cached /\ n \in DiffMask) = FALSE
      BY <3>1
    <3> QED BY <2>3, <3>2, <3>3
  <2>4. CASE view[v][n] = "rom" /\ dwBiosPage # "copy"
    <3>1. ROMCACHE = 1 /\ ram[n + SR_PAGES] = Bios(n)
      BY <1>2, <2>4 DEF BiosInv, PortOK, CopyIntact
    <3>2. Seen(n, "rom") = <<Bios(n), n \in DiffMask>>
      BY <3>1 DEF Seen, FromCopy
    <3>3. (cached /\ n \in DiffMask) = (n \in DiffMask)
      BY <2>1
    <3> QED BY <2>4, <3>2, <3>3
  <2> QED BY <1>2, <2>2, <2>3, <2>4
<1> QED BY <1>1, <1>2 DEF BiosAsBefore

(* With the BIOS in the card's RAM, as INBRDPC starts by default, every VM *)
(* goes on seeing the BIOS it would have seen without the driver, whatever *)
(* fails and whatever the donated pages are used for.                      *)
THEOREM BiosKept ==
  ASSUME Caching = {TRUE}
  PROVE  Spec => []BiosAsBefore
<1>1. Spec => []BiosInv
  BY BiosAlways
<1> QED BY <1>1, BiosSeen, PTL

(* Nor does a parity error of the tests, or of the compare, raise an NMI.  *)
THEOREM NmiHeldOff ==
  ASSUME Caching = {TRUE}
  PROVE  Spec => []NmiNeverStrikes
<1>1. Spec => []BiosInv
  BY BiosAlways
<1> QED BY <1>1, BiosSeen, PTL
=============================================================================

------------------------------ MODULE SwapStore ------------------------------
(***************************************************************************)
(* What the Windows pager is promised by PageFile_Read_Or_Write, hooked or *)
(* not: the swap file is a map from file pages to page contents.           *)
(*                                                                         *)
(* A call takes effect when it returns.  After a write that reports        *)
(* success the map holds the written pages; after one that reports failure *)
(* it promises nothing about them (NoPage) until the next good write.  A   *)
(* read that reports success has put the promised page into every buffer   *)
(* page for which there is a promise.  Until it returns, a read may leave  *)
(* anything in the caller's buffer; once it has returned, the pager takes  *)
(* the buffer back.                                                        *)
(***************************************************************************)
EXTENDS Naturals

CONSTANTS
  Threads,      \* threads the pager runs on
  Contents,     \* what a 4 KB page can hold
  NoPage,       \* "nothing is promised" / "not a page"
  NFilePages,   \* pages of the swap file
  MaxPages      \* most pages in one request

VARIABLES
  last,         \* last[p]: the page a read of file page p must return
  req,          \* req[t]: the outstanding request of thread t, or NoPage
  mem,          \* mem[t]: the caller's buffer, page by page
  result        \* result[t]: PS_BD_Status of t's last finished request

storeVars == <<last, req, mem, result>>

FilePage == 0 .. NFilePages - 1
Page     == Contents \cup {NoPage}

(* A request stays inside the swap file. *)
Request ==
  {r \in [cmd : {"read", "write"}, page : FilePage, n : 1 .. MaxPages] :
     r.page + r.n <= NFilePages}

(* Index of file page p in request r, and the pages r covers. *)
Covers(r, p) == p \in r.page .. r.page + r.n - 1
IndexOf(r, p) == p - r.page + 1

StoreInit ==
  /\ last \in [FilePage -> Page]
  /\ req = [t \in Threads |-> NoPage]
  /\ mem = [t \in Threads |-> [i \in 1 .. MaxPages |-> NoPage]]
  /\ result = [t \in Threads |-> "none"]

(* The buffer of a new request: a write brings its pages, a read none. *)
BufferFor(r, b) ==
  \A i \in 1 .. MaxPages :
    b[i] \in IF r.cmd = "write" /\ i <= r.n THEN Contents ELSE {NoPage}

Call(t) ==
  /\ req[t] = NoPage
  /\ \E r \in Request, b \in [1 .. MaxPages -> Page] :
       /\ BufferFor(r, b)
       /\ req' = [req EXCEPT ![t] = r]
       /\ mem' = [mem EXCEPT ![t] = b]
  /\ result' = [result EXCEPT ![t] = "none"]
  /\ UNCHANGED last

Scribble(t) ==
  /\ req[t] # NoPage
  /\ req[t].cmd = "read"
  /\ \E b \in [1 .. MaxPages -> Page] : mem' = [mem EXCEPT ![t] = b]
  /\ UNCHANGED <<last, req, result>>

(* What request r, ending with status st and buffer b, leaves promised. *)
Promise(r, st, b) ==
  [p \in FilePage |->
     IF r.cmd = "write" /\ Covers(r, p)
       THEN IF st = "ok" THEN b[IndexOf(r, p)] ELSE NoPage
       ELSE last[p]]

(* Buffer b holds every page that request r was promised. *)
Delivered(r, b) ==
  \A p \in FilePage :
    Covers(r, p) /\ last[p] # NoPage => b[IndexOf(r, p)] = last[p]

Return(t) ==
  /\ req[t] # NoPage
  /\ \E st \in {"ok", "fail"} :
       /\ req[t].cmd = "read" /\ st = "ok" => Delivered(req[t], mem[t])
       /\ last' = Promise(req[t], st, mem[t])
       /\ result' = [result EXCEPT ![t] = st]
  /\ req' = [req EXCEPT ![t] = NoPage]
  /\ mem' = [mem EXCEPT ![t] = [i \in 1 .. MaxPages |-> NoPage]]

StoreNext == \E t \in Threads : Call(t) \/ Scribble(t) \/ Return(t)

StoreSpec == StoreInit /\ [][StoreNext]_storeVars
=============================================================================

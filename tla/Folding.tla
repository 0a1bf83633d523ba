------------------------------ MODULE Folding ------------------------------
(***************************************************************************)
(* What a FoldLeft over a sequence computes, for every length: the facts   *)
(* the proofs about Dd16 rest on.  The library's theorems of induction     *)
(* take an operator as a parameter, which the provers cannot instantiate;  *)
(* here induction is over a set of naturals (Inductive), and the function  *)
(* folded is the constant Op, given by INSTANCE ... WITH.  Op's first      *)
(* argument is what stays the same along the fold.                         *)
(***************************************************************************)
EXTENDS Integers, Sequences

CONSTANT Op(_, _, _)

Last(s) == CHOOSE x \in s : \A y \in s : x >= y

(* FoldLeft as the community modules define it, over the same sets.        *)
Fold(b, base, seq) ==
  LET iter[s \in SUBSET DOMAIN seq] ==
        IF s = {} THEN base ELSE Op(b, iter[s \ {Last(s)}], seq[Last(s)])
  IN  iter[DOMAIN seq]

(* f is the row of values a fold over seq, n long, goes through.           *)
Trace(b, base, seq, n, f) ==
  /\ DOMAIN f = 0 .. n /\ f[0] = base
  /\ \A i \in 0 .. n - 1 : f[i + 1] = Op(b, f[i], seq[i + 1])
  /\ Fold(b, base, seq) = f[n]

(* Induction over a set of naturals, the hypothesis of the facts below: an *)
(* instance carries no theory of induction with it, and the module that    *)
(* takes the instances proves this once.                                   *)
Inductive ==
  \A S : 0 \in S /\ (\A n \in Nat : n \in S => n + 1 \in S) => \A n \in Nat : n \in S

-----------------------------------------------------------------------------
(* FoldLeft is a recursion over sets of positions, by their largest: here  *)
(* it is the last one.                                                     *)
LEMMA MaxOf ==
  ASSUME NEW n \in Nat, NEW s \in SUBSET (1 .. n + 1), n + 1 \in s
  PROVE  Last(s) = n + 1
<1>1. n + 1 \in s /\ \A y \in s : n + 1 >= y
  OBVIOUS
<1>2. \A x \in s : (\A y \in s : x >= y) => x = n + 1
  <2> SUFFICES ASSUME NEW x \in s, \A y \in s : x >= y PROVE x = n + 1
    OBVIOUS
  <2>1. x >= n + 1 /\ x \in 1 .. n + 1
    OBVIOUS
  <2> QED
    BY <2>1
<1> QED
  BY <1>1, <1>2 DEF Last

(* g is that recursion on the sets of positions up to n.                   *)
Iter(b, base, seq, n, g) ==
  g = [s \in SUBSET (1 .. n) |-> IF s = {} THEN base ELSE Op(b, g[s \ {Last(s)}], seq[Last(s)])]

(* There is such a function, so that the CHOOSE in the fold denotes it.    *)
LEMMA IterExists ==
  ASSUME Inductive, NEW b, NEW base, NEW seq
  PROVE  \A n \in Nat : \E g : Iter(b, base, seq, n, g)
<1> DEFINE S == {n \in Nat : \E g : Iter(b, base, seq, n, g)}
<1>1. 0 \in S
  <2> DEFINE g == [s \in SUBSET (1 .. 0) |-> base]
  <2>1. SUBSET (1 .. 0) = {{}}
    OBVIOUS
  <2>2. Iter(b, base, seq, 0, g)
    BY <2>1 DEF Iter
  <2> QED
    BY <2>2
<1>2. ASSUME NEW n \in Nat, n \in S PROVE n + 1 \in S
  <2>1. PICK g : Iter(b, base, seq, n, g)
    BY <1>2
  <2> DEFINE h == [s \in SUBSET (1 .. n + 1) |->
                     IF n + 1 \in s THEN Op(b, g[s \ {n + 1}], seq[n + 1])
                     ELSE g[s]]
  <2>2. ASSUME NEW s \in SUBSET (1 .. n + 1)
        PROVE  h[s] = IF s = {} THEN base ELSE Op(b, h[s \ {Last(s)}], seq[Last(s)])
    <3>1. CASE n + 1 \in s
      <4>1. Last(s) = n + 1
        BY <3>1, MaxOf
      <4>2. s \ {n + 1} \in SUBSET (1 .. n + 1) /\ n + 1 \notin s \ {n + 1}
        OBVIOUS
      <4>3. h[s \ {n + 1}] = g[s \ {n + 1}]
        BY <4>2
      <4> QED
        BY <4>1, <4>3, <3>1
    <3>2. CASE n + 1 \notin s
      <4>1. s \in SUBSET (1 .. n)
        BY <3>2
      <4>2. h[s] = g[s]
        BY <3>2
      <4>3. g[s] = IF s = {} THEN base ELSE Op(b, g[s \ {Last(s)}], seq[Last(s)])
        BY <2>1, <4>1 DEF Iter
      <4>4. s \ {Last(s)} \in SUBSET (1 .. n + 1) /\ n + 1 \notin s \ {Last(s)}
        BY <3>2
      <4>5. h[s \ {Last(s)}] = g[s \ {Last(s)}]
        BY <4>4
      <4> QED
        BY <4>2, <4>3, <4>5
    <3> QED
      BY <3>1, <3>2
  <2>3. Iter(b, base, seq, n + 1, h)
    BY <2>2 DEF Iter
  <2> QED
    BY <2>3
<1> HIDE DEF S
<1>3. \A n \in Nat : n \in S
  BY <1>1, <1>2 DEF Inductive
<1> QED
  BY <1>3 DEF S

(* A fold is the last of a row of values, each got from the one before by  *)
(* an element of the sequence.                                             *)
LEMMA FoldTrace ==
  ASSUME Inductive, NEW b, NEW base, NEW seq, NEW n \in Nat, DOMAIN seq = 1 .. n
  PROVE  \E f : Trace(b, base, seq, n, f)
<1> DEFINE it == CHOOSE g : Iter(b, base, seq, n, g)
<1>1. Iter(b, base, seq, n, it)
  <2>1. \E g : Iter(b, base, seq, n, g)
    BY IterExists
  <2> QED
    BY <2>1
<1>2. Fold(b, base, seq) = it[1 .. n]
  BY DEF Fold, Iter
<1> HIDE DEF it
<1> DEFINE f == [i \in 0 .. n |-> it[1 .. i]]
<1>3. f[0] = base
  BY <1>1 DEF Iter
<1>4. ASSUME NEW i \in 0 .. n - 1
      PROVE  f[i + 1] = Op(b, f[i], seq[i + 1])
  <2>0. i \in Nat /\ i + 1 <= n
    OBVIOUS
  <2>a. i + 1 \in 1 .. i + 1
    BY <2>0
  <2>b. \A j \in 1 .. i + 1 : j \in 1 .. n
    BY <2>0
  <2>1. 1 .. i + 1 \in SUBSET (1 .. n) /\ 1 .. i + 1 # {} /\ i + 1 \in 1 .. i + 1
    BY <2>a, <2>b
  <2>2. Last(1 .. i + 1) = i + 1
    BY <2>0, <2>1, MaxOf
  <2>3. (1 .. i + 1) \ {i + 1} = 1 .. i
    BY <2>0
  <2>4. it[1 .. i + 1] = Op(b, it[1 .. i], seq[i + 1])
    BY <1>1, <2>1, <2>2, <2>3 DEF Iter
  <2>5. f[i + 1] = it[1 .. i + 1] /\ f[i] = it[1 .. i]
    BY <2>0
  <2> QED
    BY <2>4, <2>5
<1>5. f[n] = it[1 .. n] /\ DOMAIN f = 0 .. n
  OBVIOUS
<1> HIDE DEF f
<1> QED
  BY <1>2, <1>3, <1>4, <1>5 DEF Trace

(* The step a trace takes at a position of the sequence.                   *)
LEMMA TraceStep ==
  ASSUME NEW b, NEW base, NEW seq, NEW n \in Nat, NEW f, Trace(b, base, seq, n, f),
         NEW i \in Nat, i + 1 <= n
  PROVE  f[i + 1] = Op(b, f[i], seq[i + 1])
<1>1. i \in 0 .. n - 1
  OBVIOUS
<1> QED
  BY <1>1 DEF Trace

(* Over nothing, a fold is where it started.                               *)
LEMMA FoldEmpty ==
  ASSUME Inductive, NEW b, NEW base
  PROVE  Fold(b, base, << >>) = base
<1>1. DOMAIN << >> = 1 .. 0
  OBVIOUS
<1>2. PICK f : Trace(b, base, << >>, 0, f)
  BY <1>1, FoldTrace
<1> QED
  BY <1>2 DEF Trace

(* A fold over two sequences goes on where it ended on the first.          *)
LEMMA FoldConcat ==
  ASSUME Inductive, NEW X, NEW b, NEW base, NEW s \in Seq(X), NEW t \in Seq(X)
  PROVE  Fold(b, base, s \o t) = Fold(b, Fold(b, base, s), t)
<1> DEFINE n == Len(s)
           m == Len(t)
           st == s \o t
<1>1. /\ n \in Nat /\ m \in Nat /\ n + m \in Nat
      /\ DOMAIN s = 1 .. n /\ DOMAIN t = 1 .. m /\ DOMAIN st = 1 .. n + m
  OBVIOUS
<1>2. /\ \A i \in 1 .. n : st[i] = s[i]
      /\ \A i \in 1 .. m : st[n + i] = t[i]
  OBVIOUS
<1> HIDE DEF n, m, st
<1>3. PICK f : Trace(b, base, s, n, f)
  BY <1>1, FoldTrace
<1>4. PICK g : Trace(b, Fold(b, base, s), t, m, g)
  BY <1>1, FoldTrace
<1>5. PICK h : Trace(b, base, st, n + m, h)
  BY <1>1, FoldTrace
<1>6. \A i \in Nat : i <= n => h[i] = f[i]
  <2> DEFINE S == {i \in Nat : i <= n => h[i] = f[i]}
  <2>1. 0 \in S
    BY <1>3, <1>5 DEF Trace
  <2>2. ASSUME NEW i \in Nat, i \in S PROVE i + 1 \in S
    <3> SUFFICES ASSUME i + 1 <= n PROVE h[i + 1] = f[i + 1]
      OBVIOUS
    <3>1. i \in 0 .. n - 1 /\ i \in 0 .. n + m - 1 /\ i + 1 \in 1 .. n
      BY <1>1
    <3>2. h[i] = f[i]
      BY <2>2, <1>1
    <3>a. i + 1 <= n + m
      BY <1>1
    <3>b. h[i + 1] = Op(b, h[i], st[i + 1])
      BY <3>a, <1>1, <1>5, TraceStep
    <3>n. n \in Nat
      BY <1>1
    <3>c. f[i + 1] = Op(b, f[i], s[i + 1])
      BY <3>n, <1>3, TraceStep
    <3>3. h[i + 1] = Op(b, h[i], st[i + 1]) /\ f[i + 1] = Op(b, f[i], s[i + 1])
      BY <3>b, <3>c
    <3>4. st[i + 1] = s[i + 1]
      BY <3>1, <1>2
    <3> QED
      BY <3>2, <3>3, <3>4
  <2> HIDE DEF S
  <2>3. \A i \in Nat : i \in S
    BY <2>1, <2>2 DEF Inductive
  <2> QED
    BY <2>3 DEF S
<1>7. \A i \in Nat : i <= m => h[n + i] = g[i]
  <2> DEFINE S == {i \in Nat : i <= m => h[n + i] = g[i]}
  <2>1. 0 \in S
    <3>1. h[n] = f[n] /\ n + 0 = n
      BY <1>6, <1>1
    <3> QED
      BY <1>3, <1>4, <3>1 DEF Trace
  <2>2. ASSUME NEW i \in Nat, i \in S PROVE i + 1 \in S
    <3> SUFFICES ASSUME i + 1 <= m PROVE h[n + (i + 1)] = g[i + 1]
      OBVIOUS
    <3>1. i \in 0 .. m - 1 /\ n + i \in 0 .. n + m - 1 /\ i + 1 \in 1 .. m
          /\ (n + i) + 1 = n + (i + 1)
      BY <1>1
    <3>2. h[n + i] = g[i]
      BY <2>2, <1>1
    <3>a. n + i \in Nat /\ (n + i) + 1 <= n + m
      BY <1>1
    <3>b. \A j \in Nat : j + 1 <= n + m => h[j + 1] = Op(b, h[j], st[j + 1])
      BY <1>1, <1>5, TraceStep
    <3>3. h[(n + i) + 1] = Op(b, h[n + i], st[(n + i) + 1])
      BY <3>a, <3>b
    <3>4. g[i + 1] = Op(b, g[i], t[i + 1])
      BY <1>1, <1>4, TraceStep
    <3>5. st[n + (i + 1)] = t[i + 1]
      BY <3>1, <1>2
    <3> QED
      BY <3>1, <3>2, <3>3, <3>4, <3>5
  <2> HIDE DEF S
  <2>3. \A i \in Nat : i \in S
    BY <2>1, <2>2 DEF Inductive
  <2> QED
    BY <2>3 DEF S
<1> QED
  BY <1>1, <1>4, <1>5, <1>7 DEF Trace, st

(* A fold over one element is one application.                             *)
LEMMA FoldOne ==
  ASSUME Inductive, NEW b, NEW base, NEW e
  PROVE  Fold(b, base, <<e>>) = Op(b, base, e)
<1>1. DOMAIN <<e>> = 1 .. 1 /\ <<e>>[1] = e
  OBVIOUS
<1>2. PICK f : Trace(b, base, <<e>>, 1, f)
  BY <1>1, FoldTrace
<1>3. f[0 + 1] = Op(b, f[0], <<e>>[0 + 1])
  BY <1>2 DEF Trace
<1> QED
  BY <1>1, <1>2, <1>3 DEF Trace

(* One element more is one application more.                               *)
LEMMA FoldAppend ==
  ASSUME Inductive, NEW X, NEW b, NEW base, NEW s \in Seq(X), NEW e \in X
  PROVE  Fold(b, base, Append(s, e)) = Op(b, Fold(b, base, s), e)
<1>1. <<e>> \in Seq(X) /\ Append(s, e) = s \o <<e>>
  OBVIOUS
<1> DEFINE one == <<e>>
<1> HIDE DEF one
<1>2. Fold(b, base, s \o one) = Fold(b, Fold(b, base, s), one)
  <2>1. one \in Seq(X)
    BY <1>1 DEF one
  <2> QED
    BY <2>1, FoldConcat
<1> QED
  BY <1>1, <1>2, FoldOne DEF one

(* What each application keeps, the fold keeps.                            *)
LEMMA FoldKeeps ==
  ASSUME Inductive, NEW b, NEW T, NEW base \in T, NEW seq, NEW n \in Nat, DOMAIN seq = 1 .. n,
         \A x \in T, i \in 1 .. n : Op(b, x, seq[i]) \in T
  PROVE  Fold(b, base, seq) \in T
<1>1. PICK f : Trace(b, base, seq, n, f)
  BY FoldTrace
<1>a. \A i \in 0 .. n - 1 : f[i + 1] = Op(b, f[i], seq[i + 1])
  BY <1>1 DEF Trace
<1> DEFINE S == {i \in Nat : i <= n => f[i] \in T}
<1>2. 0 \in S
  BY <1>1 DEF Trace
<1>3. ASSUME NEW i \in Nat, i \in S PROVE i + 1 \in S
  <2> SUFFICES ASSUME i + 1 <= n PROVE f[i + 1] \in T
    OBVIOUS
  <2>1. i \in 0 .. n - 1 /\ i + 1 \in 1 .. n /\ i <= n
    OBVIOUS
  <2>2. f[i] \in T
    BY <1>3, <2>1
  <2>3. f[i + 1] = Op(b, f[i], seq[i + 1])
    BY <1>a, <2>1
  <2> QED
    BY <2>1, <2>2, <2>3
<1> HIDE DEF S
<1>4. \A i \in Nat : i \in S
  BY <1>2, <1>3 DEF Inductive
<1> QED
  BY <1>1, <1>4 DEF S, Trace
=============================================================================

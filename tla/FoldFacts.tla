----------------------------- MODULE FoldFacts -----------------------------
(***************************************************************************)
(* What FoldLeft computes.  The parsers of the repository are loops over   *)
(* the characters of a text, modelled as folds; a proof about one of them  *)
(* needs the states the loop goes through.  Here, for any operator and any *)
(* text: the loop has a run, one state per character, and the fold is the  *)
(* last state of every run.                                                *)
(***************************************************************************)
EXTENDS Naturals, Sequences, WellFoundedInduction, TLAPS

CONSTANTS
    Op(_, _),  \* the body of the loop: the state before and a character
    Base       \* the state before the loop

-----------------------------------------------------------------------------
(* Induction.                                                              *)

\* A set of numbers has a smallest one.
LEMMA Least ==
    ASSUME NEW S, S \subseteq Nat, S # {}
    PROVE  \E x \in S : \A y \in S : x <= y
<1> DEFINE R == OpToRel(<, Nat)
<1>1. IsWellFoundedOn(R, Nat)  BY NatLessThanWellFounded, Zenon
<1>2. \A y, x \in Nat : y < x => <<y, x>> \in R  BY Zenon DEF OpToRel
<1> HIDE DEF R
<1>3. PICK x \in S : \A y \in S : ~(<<y, x>> \in R)
  <2>1. \E x \in S : \A y \in S : ~(<<y, x>> \in R)  BY <1>1, WFMin
  <2> QED BY <2>1
<1>4. \A y \in S : x <= y
  <2> SUFFICES ASSUME NEW y \in S PROVE x <= y  OBVIOUS
  <2>1. x \in Nat /\ y \in Nat  OBVIOUS
  <2>2. ~(y < x)  BY <1>2, <1>3, <2>1, Zenon
  <2> QED BY <2>1, <2>2
<1> QED BY <1>4

\* Induction up to n over a set of numbers.
LEMMA Induct ==
    ASSUME NEW n \in Nat, NEW S, 0 \in S,
           \A k \in 0 .. n : k < n /\ k \in S => k + 1 \in S
    PROVE  \A k \in 0 .. n : k \in S
<1> DEFINE B == {k \in 0 .. n : k \notin S}
<1> SUFFICES ASSUME B # {} PROVE FALSE  OBVIOUS
<1>1. B \subseteq Nat  OBVIOUS
<1>2. PICK b \in B : \A c \in B : b <= c  BY <1>1, Least
<1>3. b \in 0 .. n /\ b # 0 /\ b \notin S  OBVIOUS
<1>4. b - 1 \in 0 .. n /\ b - 1 < n /\ b - 1 + 1 = b /\ ~(b <= b - 1)  BY <1>3
<1>5. b - 1 \in S  BY <1>2, <1>4
<1> QED BY <1>3, <1>4, <1>5

-----------------------------------------------------------------------------
(* Folds.                                                                  *)

\* The fold as SequencesExt defines it, by recursion over sets of positions.
Greatest(x) == CHOOSE m \in x : \A y \in x : m >= y
Fold(s) ==
    LET iter[x \in SUBSET DOMAIN s] ==
            IF x = {} THEN Base
            ELSE LET m == Greatest(x) IN Op(iter[x \ {m}], s[m])
    IN iter[DOMAIN s]

\* f is the fold of s over every set of its first n positions.
Folds(f, s, n) ==
    f = [x \in SUBSET (1 .. n) |->
            IF x = {} THEN Base ELSE Op(f[x \ {Greatest(x)}], s[Greatest(x)])]

\* v is the run of the loop over s.
Run(v, s) == v[0] = Base /\ \A k \in 1 .. Len(s) : v[k] = Op(v[k - 1], s[k])

\* The greatest position of a set that has one.
LEMMA GreatestIs ==
    ASSUME NEW k \in Nat, NEW x, x \subseteq 1 .. k, k \in x
    PROVE  Greatest(x) = k
<1>1. \A y \in x : y \in Nat /\ k >= y  OBVIOUS
<1>2. \E m \in x : \A y \in x : m >= y  BY <1>1
<1>3. Greatest(x) \in x /\ \A y \in x : Greatest(x) >= y  BY <1>2, Zenon DEF Greatest
<1>4. Greatest(x) \in Nat /\ k >= Greatest(x) /\ Greatest(x) >= k  BY <1>1, <1>3, Zenon
<1> QED BY <1>4

\* The recursion has a solution.
LEMMA FoldsExist ==
    ASSUME NEW n \in Nat, NEW s
    PROVE  \E f : Folds(f, s, n)
<1> DEFINE S == {k \in 0 .. n : \E f : Folds(f, s, k)}
<1>1. 0 \in S
  <2> DEFINE f == [x \in SUBSET (1 .. 0) |-> Base]
  <2>1. SUBSET (1 .. 0) = {{}}  OBVIOUS
  <2>2. f = [x \in SUBSET (1 .. 0) |->
              IF x = {} THEN Base ELSE Op(f[x \ {Greatest(x)}], s[Greatest(x)])]
    BY <2>1
  <2> QED BY <2>2 DEF Folds
<1>2. ASSUME NEW k \in 0 .. n, k < n, k \in S PROVE k + 1 \in S
  <2>1. PICK g : Folds(g, s, k)  BY <1>2
  <2> DEFINE f == [x \in SUBSET (1 .. (k + 1)) |->
                    IF k + 1 \in x THEN Op(g[x \ {k + 1}], s[k + 1]) ELSE g[x]]
  <2>2. ASSUME NEW x \in SUBSET (1 .. (k + 1)), x # {}
        PROVE  f[x] = Op(f[x \ {Greatest(x)}], s[Greatest(x)])
    <3>1. CASE k + 1 \in x
      <4>1. Greatest(x) = k + 1
        <5>1. k + 1 \in Nat /\ x \subseteq 1 .. (k + 1)  OBVIOUS
        <5> QED BY <3>1, <5>1, GreatestIs, Zenon
      <4>2. x \ {k + 1} \in SUBSET (1 .. k)  OBVIOUS
      <4>3. x \ {k + 1} \in SUBSET (1 .. (k + 1)) /\ k + 1 \notin x \ {k + 1}  OBVIOUS
      <4>4. f[x \ {k + 1}] = g[x \ {k + 1}]  BY <4>3
      <4>5. f[x] = Op(g[x \ {k + 1}], s[k + 1])  BY <3>1
      <4> HIDE DEF f
      <4> QED BY <4>1, <4>4, <4>5, Zenon
    <3>2. CASE k + 1 \notin x
      <4>1. x \in SUBSET (1 .. k)  BY <3>2
      <4>2. x \ {Greatest(x)} \in SUBSET (1 .. (k + 1)) /\ k + 1 \notin x \ {Greatest(x)}
        BY <3>2
      <4>3. f[x] = g[x] /\ f[x \ {Greatest(x)}] = g[x \ {Greatest(x)}]  BY <3>2, <4>2
      <4>4. g[x] = Op(g[x \ {Greatest(x)}], s[Greatest(x)])
        BY <2>1, <2>2, <4>1, Zenon DEF Folds
      <4> HIDE DEF f
      <4> QED BY <4>3, <4>4
    <3> QED BY <3>1, <3>2
  <2>3. f[{}] = Base
    <3>1. g[{}] = Base
      <4>1. {} \in SUBSET (1 .. k)  OBVIOUS
      <4> QED BY <2>1, <4>1, Zenon DEF Folds
    <3> QED BY <3>1
  <2> DEFINE D == SUBSET (1 .. (k + 1))
             h == [x \in D |->
                    IF x = {} THEN Base ELSE Op(f[x \ {Greatest(x)}], s[Greatest(x)])]
  <2>4. f = [x \in D |-> f[x]]  OBVIOUS
  <2> HIDE DEF f
  <2>5. \A x \in D : f[x] = h[x]  BY <2>2, <2>3
  <2>6. f = h
    <3> HIDE DEF D
    <3> QED BY <2>4, <2>5
  <2>7. Folds(f, s, k + 1)  BY <2>6 DEF Folds
  <2>8. k + 1 \in 0 .. n  BY <1>2
  <2> QED BY <2>7, <2>8
<1> HIDE DEF S
<1>3. \A k \in 0 .. n : k \in S  BY <1>1, <1>2, Induct
<1>4. n \in S  BY <1>3
<1> QED BY <1>4 DEF S

\* The fold of a text is the value of such a solution.
LEMMA FoldIsFolds ==
    ASSUME NEW X, NEW s \in Seq(X)
    PROVE  \E f : Folds(f, s, Len(s)) /\ Fold(s) = f[1 .. Len(s)]
<1> DEFINE f == CHOOSE f : Folds(f, s, Len(s))
<1>1. Folds(f, s, Len(s))
  <2>1. Len(s) \in Nat  OBVIOUS
  <2>2. \E g : Folds(g, s, Len(s))  BY <2>1, FoldsExist
  <2> QED BY <2>2
<1>2. DOMAIN s = 1 .. Len(s)  OBVIOUS
<1>3. Fold(s) = f[1 .. Len(s)]  BY <1>2, Zenon DEF Fold, Folds
<1> QED BY <1>1, <1>3

\* In such a solution, the first positions are a run.
LEMMA FoldsRun ==
    ASSUME NEW X, NEW s \in Seq(X), NEW f, Folds(f, s, Len(s)), NEW k \in 1 .. Len(s)
    PROVE  f[1 .. k] = Op(f[1 .. (k - 1)], s[k])
<1>1. 1 .. k \in SUBSET (1 .. Len(s)) /\ 1 .. k # {}  OBVIOUS
<1>2. Greatest(1 .. k) = k  BY GreatestIs
<1>3. (1 .. k) \ {k} = 1 .. (k - 1)  OBVIOUS
<1>4. f[1 .. k] = Op(f[(1 .. k) \ {Greatest(1 .. k)}], s[Greatest(1 .. k)])
  BY <1>1, Zenon DEF Folds
<1> QED BY <1>2, <1>3, <1>4

\* Every loop has a run.
LEMMA RunExists ==
    ASSUME NEW X, NEW s \in Seq(X)
    PROVE  \E v : Run(v, s)
<1>1. PICK f : Folds(f, s, Len(s))  BY FoldIsFolds
<1> DEFINE v == [k \in 0 .. Len(s) |-> f[1 .. k]]
<1>2. v[0] = Base
  <2>1. {} \in SUBSET (1 .. Len(s))  OBVIOUS
  <2>2. f[{}] = Base  BY <1>1, <2>1, Zenon DEF Folds
  <2>3. 1 .. 0 = {} /\ 0 \in 0 .. Len(s)  OBVIOUS
  <2> QED BY <2>2, <2>3
<1>3. ASSUME NEW k \in 1 .. Len(s) PROVE v[k] = Op(v[k - 1], s[k])
  <2>1. f[1 .. k] = Op(f[1 .. (k - 1)], s[k])  BY <1>1, FoldsRun
  <2>2. k \in 0 .. Len(s) /\ k - 1 \in 0 .. Len(s)  OBVIOUS
  <2> QED BY <2>1, <2>2
<1> QED BY <1>2, <1>3 DEF Run

\* The fold is where every run ends.
LEMMA FoldRun ==
    ASSUME NEW X, NEW s \in Seq(X), NEW v, Run(v, s)
    PROVE  Fold(s) = v[Len(s)]
<1>1. PICK f : Folds(f, s, Len(s)) /\ Fold(s) = f[1 .. Len(s)]  BY FoldIsFolds
<1> DEFINE S == {k \in 0 .. Len(s) : v[k] = f[1 .. k]}
<1>2. 0 \in S
  <2>1. {} \in SUBSET (1 .. Len(s))  OBVIOUS
  <2>2. f[{}] = Base  BY <1>1, <2>1, Zenon DEF Folds
  <2>3. 1 .. 0 = {} /\ 0 \in 0 .. Len(s)  OBVIOUS
  <2> QED BY <2>2, <2>3 DEF Run
<1>3. ASSUME NEW k \in 0 .. Len(s), k < Len(s), k \in S PROVE k + 1 \in S
  <2>1. k + 1 \in 1 .. Len(s) /\ k + 1 - 1 = k  BY <1>3
  <2>2. f[1 .. (k + 1)] = Op(f[1 .. k], s[k + 1])  BY <1>1, <2>1, FoldsRun
  <2>3. v[k + 1] = Op(v[k], s[k + 1])  BY <2>1 DEF Run
  <2> QED BY <1>3, <2>1, <2>2, <2>3
<1>4. Len(s) \in Nat  OBVIOUS
<1> HIDE DEF S
<1>5. \A k \in 0 .. Len(s) : k \in S  BY <1>2, <1>3, <1>4, Induct
<1>6. Len(s) \in S  BY <1>4, <1>5
<1> QED BY <1>1, <1>6 DEF S

\* An empty text leaves the state as it was before the loop.
LEMMA FoldEmpty == Fold(<<>>) = Base
<1>1. <<>> \in Seq({}) /\ Len(<<>>) = 0  OBVIOUS
<1>2. PICK v : Run(v, <<>>)  BY <1>1, RunExists
<1>3. Fold(<<>>) = v[0]  BY <1>1, <1>2, FoldRun
<1> QED BY <1>2, <1>3 DEF Run

\* One more character is one more turn of the loop.
LEMMA FoldPrefix ==
    ASSUME NEW X, NEW s \in Seq(X), NEW k \in 1 .. Len(s)
    PROVE  Fold(SubSeq(s, 1, k)) = Op(Fold(SubSeq(s, 1, k - 1)), s[k])
<1> DEFINE p == SubSeq(s, 1, k)
           q == SubSeq(s, 1, k - 1)
<1>1. p \in Seq(X) /\ Len(p) = k /\ \A j \in 1 .. k : p[j] = s[j]  OBVIOUS
<1>2. q \in Seq(X) /\ Len(q) = k - 1 /\ \A j \in 1 .. (k - 1) : q[j] = s[j]  OBVIOUS
<1> HIDE DEF p, q
<1>3. PICK v : Run(v, p)  BY <1>1, RunExists
<1>4. Fold(p) = v[k]  BY <1>1, <1>3, FoldRun
<1>5. Run(v, q)
  <2>1. \A j \in 1 .. (k - 1) : j \in 1 .. k  OBVIOUS
  <2>2. \A j \in 1 .. (k - 1) : v[j] = Op(v[j - 1], q[j])
    BY <1>1, <1>2, <1>3, <2>1 DEF Run
  <2> QED BY <1>2, <1>3, <2>2 DEF Run
<1>6. Fold(q) = v[k - 1]  BY <1>2, <1>5, FoldRun
<1>7. v[k] = Op(v[k - 1], s[k])  BY <1>1, <1>3 DEF Run
<1> QED BY <1>4, <1>6, <1>7 DEF p, q

\* The same for a text and a character appended to it.
LEMMA FoldAppend ==
    ASSUME NEW X, NEW s \in Seq(X), NEW c \in X
    PROVE  Fold(Append(s, c)) = Op(Fold(s), c)
<1> DEFINE t == Append(s, c)
           n == Len(s)
<1>1. t \in Seq(X) /\ n \in Nat /\ Len(t) = n + 1 /\ t[n + 1] = c  OBVIOUS
<1>2. SubSeq(t, 1, n + 1) = t /\ SubSeq(t, 1, n) = s  OBVIOUS
<1> HIDE DEF t, n
<1>3. n + 1 \in 1 .. Len(t) /\ n + 1 - 1 = n  BY <1>1
<1>4. Fold(SubSeq(t, 1, n + 1)) = Op(Fold(SubSeq(t, 1, n + 1 - 1)), t[n + 1])
  BY <1>1, <1>3, FoldPrefix
<1> QED BY <1>1, <1>2, <1>3, <1>4 DEF t
=============================================================================

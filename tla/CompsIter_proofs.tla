--------------------------- MODULE CompsIter_proofs ---------------------------
(***************************************************************************)
(* Proofs about CompsIter, for any multimap of children, any id and any    *)
(* removal of children while the loop runs.                                *)
(***************************************************************************)
EXTENDS CompsIter, FiniteSetTheorems, WellFoundedInduction, TLAPS

USE ConstantsAssumption

Types == TypeOK /\ Len(iChilds) =< MaxChilds

\* The loop over the root: one element, and then the end.
RootLoop ==
  iId.rel = "node" =>
    /\ it.pos = 0
    /\ used = <<>> \/ (used = <<0>> /\ it.mEnd)
    /\ pc = "use" => ~it.mEnd

\* A loop that has not begun has used nothing.
NotBegun == pc = "start" => used = <<>> /\ it.pos = 0

\* The loop over the children goes forward only: that is why it uses none of
\* them twice.
Forward ==
  iId.rel = "child" /\ pc # "start" =>
    /\ it.pos >= First
    /\ \A k \in DOMAIN used : used[k] \in 1 .. it.pos - 1

\* Inside its range it stands on a child of the owner wanted, and has left out
\* none that fits and that it has gone past.
Seeking ==
  iId.rel = "child" /\ pc # "start" /\ it.ranged =>
    /\ it.pos < PastEnd => Owned(it.pos)
    /\ \A i \in Named : i < it.pos /\ Fits(i) => i \in ToSet(used)

\* The inductive invariant.
IInv ==
  /\ Types /\ Grouped(iChilds)
  /\ RootLoop /\ NotBegun /\ Forward /\ Seeking /\ UsedFit /\ UsedOnce

-----------------------------------------------------------------------------
(* The least and the greatest of finitely many numbers.  The library has   *)
(* no theorem about them; that they exist follows from strict inclusion    *)
(* being well-founded on the subsets of a finite set.                      *)

\* A nonempty family of subsets of a finite set has a least member.
LEMMA LeastInFamily ==
  \A S : IsFiniteSet(S) => \A F \in SUBSET (SUBSET S) : F # {} =>
    \E T \in F : \A U \in F : U \subseteq T => U = T
<1> SUFFICES ASSUME NEW S, IsFiniteSet(S), NEW F \in SUBSET (SUBSET S), F # {}
             PROVE  \E T \in F : \A U \in F : U \subseteq T => U = T
  OBVIOUS
<1>1. F \subseteq FiniteSubsetsOf(S)
  BY FS_FiniteSubsetsOfFinite
<1>2. PICK T \in F : \A U \in F : ~ (<<U, T>> \in StrictSubsetOrdering(S))
  BY <1>1, FS_StrictSubsetOrderingWellFounded, WFMin
<1>3. ASSUME NEW U \in F, U \subseteq T
      PROVE  U = T
  <2>1. <<U, T>> \in (SUBSET S) \X (SUBSET S) /\ <<U, T>>[1] = U /\ <<U, T>>[2] = T
    OBVIOUS
  <2>2. <<U, T>> \notin StrictSubsetOrdering(S)
    BY <1>2
  <2> QED
    BY <1>3, <2>1, <2>2 DEF StrictSubsetOrdering
<1> QED
  BY <1>3

\* The numbers up to the least one are the least of the sets of such numbers.
LEMMA MinExists ==
  \A S : S # {} /\ IsFiniteSet(S) /\ S \subseteq Int =>
    Min(S) \in S /\ \A y \in S : Min(S) =< y
<1>1. SUFFICES ASSUME NEW S, S # {}, IsFiniteSet(S), S \subseteq Int
               PROVE  \E x \in S : \A y \in S : x =< y
  BY <1>1 DEF Min
<1> DEFINE Below(x) == {y \in S : y =< x}
<1>2. PICK F : F = {Below(x) : x \in S}
  OBVIOUS
<1>3. F \in SUBSET (SUBSET S) /\ F # {} /\ \A x \in S : Below(x) \in F
  BY <1>1, <1>2
<1>4. \E T \in F : \A U \in F : U \subseteq T => U = T
  <2>1. IsFiniteSet(S)
    BY <1>1
  <2>2. F \in SUBSET (SUBSET S) /\ F # {}
    BY <1>3
  <2> HIDE DEF Below
  <2> QED
    BY <2>1, <2>2, LeastInFamily
<1>5. PICK x \in S : \A U \in F : U \subseteq Below(x) => U = Below(x)
  BY <1>2, <1>4
<1>6. ASSUME NEW y \in S, y =< x PROVE x =< y
  <2>1. \A z \in S : z =< y => z =< x
    BY <1>1, <1>6
  <2>2. Below(y) \subseteq Below(x) /\ Below(y) \in F
    BY <2>1, <1>3
  <2>3. Below(y) = Below(x)
    BY <1>5, <2>2
  <2>4. x \in Below(x)
    BY <1>1
  <2> QED
    BY <2>3, <2>4
<1> QED
  BY <1>1, <1>6

\* The same from above.
LEMMA MaxExists ==
  \A S : S # {} /\ IsFiniteSet(S) /\ S \subseteq Int =>
    Max(S) \in S /\ \A y \in S : Max(S) >= y
<1>1. SUFFICES ASSUME NEW S, S # {}, IsFiniteSet(S), S \subseteq Int
               PROVE  \E x \in S : \A y \in S : x >= y
  BY <1>1 DEF Max
<1> DEFINE Above(x) == {y \in S : y >= x}
<1>2. PICK F : F = {Above(x) : x \in S}
  OBVIOUS
<1>3. F \in SUBSET (SUBSET S) /\ F # {} /\ \A x \in S : Above(x) \in F
  BY <1>1, <1>2
<1>4. \E T \in F : \A U \in F : U \subseteq T => U = T
  <2>1. IsFiniteSet(S)
    BY <1>1
  <2>2. F \in SUBSET (SUBSET S) /\ F # {}
    BY <1>3
  <2> HIDE DEF Above
  <2> QED
    BY <2>1, <2>2, LeastInFamily
<1>5. PICK x \in S : \A U \in F : U \subseteq Above(x) => U = Above(x)
  BY <1>2, <1>4
<1>6. ASSUME NEW y \in S, y >= x PROVE x >= y
  <2>1. \A z \in S : z >= y => z >= x
    BY <1>1, <1>6
  <2>2. Above(y) \subseteq Above(x) /\ Above(y) \in F
    BY <2>1, <1>3
  <2>3. Above(y) = Above(x)
    BY <1>5, <2>2
  <2>4. x \in Above(x)
    BY <1>1
  <2> QED
    BY <2>3, <2>4
<1> QED
  BY <1>1, <1>6

-----------------------------------------------------------------------------
(* The range of the loop, and the search in it.                            *)

\* In a multimap, what equal_range gives are the children named so, and no
\* others.
LEMMA RangeIs ==
  ASSUME iChilds \in Seq(Child), Grouped(iChilds)
  PROVE  /\ First \in 1 .. Len(iChilds) + 1 /\ PastEnd \in First .. Len(iChilds) + 1
         /\ Named = First .. PastEnd - 1
<1>1. Len(iChilds) \in Nat /\ DOMAIN iChilds = 1 .. Len(iChilds)
  OBVIOUS
<1>2. CASE Named = {}
  BY <1>1, <1>2 DEF First, PastEnd
<1>3. CASE Named # {}
  <2>1. Named \subseteq 1 .. Len(iChilds) /\ Named \subseteq Int
    BY <1>1 DEF Named
  <2>2. IsFiniteSet(1 .. Len(iChilds))
    BY <1>1, FS_Interval
  <2>3. IsFiniteSet(Named)
    BY <2>1, <2>2, FS_Subset
  <2>4. /\ Min(Named) \in Named /\ \A y \in Named : Min(Named) =< y
        /\ Max(Named) \in Named /\ \A y \in Named : Max(Named) >= y
    BY <1>3, <2>1, <2>3, MinExists, MaxExists
  <2>5. First = Min(Named) /\ PastEnd = Max(Named) + 1
    BY <1>3 DEF First, PastEnd
  <2>6. PICK lo, hi : lo = Min(Named) /\ hi = Max(Named)
    OBVIOUS
  <2>7. /\ lo \in 1 .. Len(iChilds) /\ hi \in lo .. Len(iChilds)
        /\ lo \in Named /\ hi \in Named
        /\ \A y \in Named : lo =< y /\ y =< hi
    <3>1. lo \in Named /\ hi \in Named /\ \A y \in Named : lo =< y /\ hi >= y
      BY <2>4, <2>6
    <3>2. \A y \in Named : y \in 1 .. Len(iChilds)
      BY <2>1
    <3>3. lo \in 1 .. Len(iChilds) /\ hi \in 1 .. Len(iChilds) /\ lo =< hi
      BY <3>1, <3>2
    <3>4. \A y \in Named : lo =< y /\ y =< hi
      <4> TAKE y \in Named
      <4>1. y \in Int /\ lo =< y /\ hi >= y
        BY <1>1, <3>1, <3>2
      <4> QED
        BY <3>3, <4>1, <1>1
    <3>5. lo \in 1 .. Len(iChilds) /\ hi \in lo .. Len(iChilds)
      BY <3>3, <1>1
    <3> QED
      BY <3>1, <3>4, <3>5
  <2>8. ASSUME NEW j \in lo .. hi
        PROVE  j \in Named
    <3>1. j \in DOMAIN iChilds /\ lo \in DOMAIN iChilds /\ hi \in DOMAIN iChilds
      BY <1>1, <2>7
    <3>2. /\ iId.name = AnyName \/ iId.name = iChilds[lo].name
          /\ iId.name = AnyName \/ iId.name = iChilds[hi].name
      BY <2>7 DEF Named
    <3>3. CASE iId.name = AnyName
      BY <3>1, <3>3 DEF Named
    <3>4. CASE lo = j \/ j = hi
      BY <2>7, <3>4
    <3>5. CASE iId.name # AnyName /\ lo < j /\ j < hi
      <4>1. iChilds[j].name = iChilds[lo].name
        BY <3>1, <3>2, <3>5 DEF Grouped
      <4> QED
        BY <3>1, <3>2, <3>5, <4>1 DEF Named
    <3> QED
      BY <2>7, <3>3, <3>4, <3>5
  <2>9. Named = lo .. hi
    <3>1. ASSUME NEW y \in Named PROVE y \in lo .. hi
      <4>1. y \in 1 .. Len(iChilds) /\ lo =< y /\ y =< hi
        BY <2>1, <2>7
      <4> QED
        BY <4>1, <2>7, <1>1
    <3> QED
      BY <3>1, <2>8
  <2> QED
    BY <1>1, <2>5, <2>6, <2>7, <2>9
<1> QED
  BY <1>2, <1>3

\* PostIncr and the constructor stop at the first child that fits, or at the
\* end.
LEMMA SeekIs ==
  ASSUME NEW i \in Nat, NEW end \in Nat, i =< end
  PROVE  /\ Seek(i, end) \in i .. end
         /\ \A j \in i .. Seek(i, end) - 1 : ~Fits(j)
         /\ Seek(i, end) < end => Fits(Seek(i, end))
<1>1. PICK fit : fit = {j \in i .. end - 1 : Fits(j)}
  OBVIOUS
<1>2. Seek(i, end) = IF fit = {} THEN end ELSE Min(fit)
  BY <1>1 DEF Seek
<1>3. CASE fit = {}
  <2>1. Seek(i, end) = end
    BY <1>2, <1>3
  <2> QED
    BY <1>1, <1>3, <2>1
<1>4. CASE fit # {}
  <2>1. fit \subseteq i .. end - 1 /\ fit \subseteq Int
    BY <1>1
  <2>2. IsFiniteSet(i .. end - 1)
    BY FS_Interval
  <2>3. IsFiniteSet(fit)
    BY <2>1, <2>2, FS_Subset
  <2>4. Min(fit) \in fit /\ \A y \in fit : Min(fit) =< y
    BY <1>4, <2>1, <2>3, MinExists
  <2>5. PICK m : m = Min(fit)
    OBVIOUS
  <2>6. m \in i .. end - 1 /\ Fits(m) /\ \A j \in i .. end - 1 : Fits(j) => m =< j
    BY <1>1, <2>4, <2>5
  <2>7. Seek(i, end) = m
    BY <1>2, <1>4, <2>5
  <2> QED
    BY <2>6, <2>7
<1> QED
  BY <1>3, <1>4

\* The range depends on the names and the owners of the children only.
LEMMA SameRange ==
  ASSUME DOMAIN iChilds' = DOMAIN iChilds, Len(iChilds') = Len(iChilds), iId' = iId,
         \A i \in DOMAIN iChilds : /\ iChilds'[i].name = iChilds[i].name
                                   /\ iChilds'[i].owner = iChilds[i].owner
  PROVE  /\ Named' = Named /\ First' = First /\ PastEnd' = PastEnd
         /\ \A i \in DOMAIN iChilds : Owned(i)' <=> Owned(i)
<1>1. Named' = Named
  BY DEF Named
<1>2. First' = First /\ PastEnd' = PastEnd
  BY <1>1 DEF First, PastEnd
<1>3. \A i \in DOMAIN iChilds : Owned(i)' <=> Owned(i)
  BY DEF Owned, Filtered
<1> QED
  BY <1>1, <1>2, <1>3

-----------------------------------------------------------------------------
(* The invariant holds at first, and every action keeps it.                *)

\* Where the multimap stands in the invariant: its positions and its range.
LEMMA Positions ==
  ASSUME IInv
  PROVE  /\ Len(iChilds) \in Nat /\ DOMAIN iChilds = 1 .. Len(iChilds)
         /\ Len(iChilds) =< MaxChilds /\ MaxChilds \in Nat
         /\ First \in 1 .. Len(iChilds) + 1 /\ PastEnd \in First .. Len(iChilds) + 1
         /\ Named = First .. PastEnd - 1
<1>1. iChilds \in Seq(Child) /\ Grouped(iChilds) /\ Len(iChilds) =< MaxChilds
  BY DEF IInv, Types, TypeOK
<1>2. Len(iChilds) \in Nat /\ DOMAIN iChilds = 1 .. Len(iChilds)
  BY <1>1
<1> QED
  BY <1>1, <1>2, RangeIs

\* A loop that has not begun satisfies the invariant.
LEMMA InitIInv == Init => IInv
<1> SUFFICES ASSUME Init PROVE IInv
  OBVIOUS
<1>1. iChilds \in Seq(Child) /\ Len(iChilds) =< MaxChilds /\ Grouped(iChilds)
  <2>1. PICK m \in 0 .. MaxChilds : iChilds \in [1 .. m -> Child]
    BY DEF Init, BoundedSeq, SeqOf
  <2> QED
    BY <2>1 DEF Init
<1>2. TypeOK
  BY <1>1 DEF Init, TypeOK, Iterator
<1>3. RootLoop /\ NotBegun /\ Forward /\ Seeking
  BY DEF Init, RootLoop, NotBegun, Forward, Seeking, Iterator
<1>4. UsedFit /\ UsedOnce
  BY DEF Init, UsedFit, UsedOnce, ToSet
<1> QED
  BY <1>1, <1>2, <1>3, <1>4 DEF IInv, Types

\* A step that leaves the children and the id alone leaves the range and what
\* fits in it.
LEMMA SameChilds ==
  ASSUME UNCHANGED <<iChilds, iId>>
  PROVE  /\ Named' = Named /\ First' = First /\ PastEnd' = PastEnd
         /\ \A i : (Owned(i)' <=> Owned(i)) /\ (Fits(i)' <=> Fits(i))
<1>1. Named' = Named
  BY DEF Named
<1>2. First' = First /\ PastEnd' = PastEnd
  BY <1>1 DEF First, PastEnd
<1>3. \A i : (Owned(i)' <=> Owned(i)) /\ (Fits(i)' <=> Fits(i))
  BY DEF Owned, Filtered, Fits
<1> QED
  BY <1>1, <1>2, <1>3

\* NodesLoc_Begin: the first child that fits, or the end.
LEMMA StartKeeps == IInv /\ Start => IInv'
<1> SUFFICES ASSUME IInv, Start PROVE IInv'
  OBVIOUS
<1>1. TypeOK /\ NotBegun /\ RootLoop
  BY DEF IInv, Types
<1>2. pc = "start" /\ used = <<>> /\ UNCHANGED <<agent, iChilds, mRroot, iId, used>>
  BY <1>1 DEF Start, NotBegun
<1>3. Len(iChilds)' =< MaxChilds /\ Grouped(iChilds')
  BY <1>2 DEF IInv, Types
<1>4. UsedFit' /\ UsedOnce'
  BY <1>2 DEF UsedFit, UsedOnce, ToSet
<1>5. CASE UsesNull
  <2>1. pc' = "lost" /\ it' = it /\ iId.rel = "node"
    BY <1>5 DEF Start, UsesNull
  <2>2. TypeOK'
    BY <1>1, <1>2, <2>1 DEF TypeOK
  <2>3. RootLoop' /\ NotBegun' /\ Forward' /\ Seeking'
    BY <1>1, <1>2, <2>1 DEF RootLoop, NotBegun, Forward, Seeking
  <2> QED
    BY <1>3, <1>4, <2>2, <2>3 DEF IInv, Types
<1>6. CASE ~UsesNull
  <2>1. pc' = "test" /\ it' = Begin
    BY <1>6 DEF Start
  <2>2. CASE iId.rel = "node"
    <3>1. it' = Iterator(0, Filtered)
      BY <2>1, <2>2 DEF Begin
    <3>2. it'.pos = 0 /\ it' \in [pos : 0 .. MaxChilds + 1, mEnd : BOOLEAN, ranged : BOOLEAN]
      BY <3>1 DEF Iterator, Filtered
    <3>3. TypeOK'
      BY <1>1, <1>2, <2>1, <3>2 DEF TypeOK
    <3>4. RootLoop' /\ NotBegun' /\ Forward' /\ Seeking'
      BY <1>2, <2>1, <2>2, <3>2 DEF RootLoop, NotBegun, Forward, Seeking
    <3> QED
      BY <1>3, <1>4, <3>3, <3>4 DEF IInv, Types
  <2>3. CASE iId.rel = "child"
    <3>1. PICK q : q = Seek(First, PastEnd)
      OBVIOUS
    <3>2. it' = Iterator(q, FALSE)
      BY <2>1, <2>3, <3>1 DEF Begin
    <3>3. First \in 1 .. Len(iChilds) + 1 /\ PastEnd \in First .. Len(iChilds) + 1
          /\ Named = First .. PastEnd - 1 /\ Len(iChilds) =< MaxChilds /\ Len(iChilds) \in Nat
      BY Positions
    <3>4. /\ q \in First .. PastEnd
          /\ \A j \in First .. q - 1 : ~Fits(j)
          /\ q < PastEnd => Fits(q)
      <4>1. First \in Nat /\ PastEnd \in Nat /\ First =< PastEnd
        BY <3>3
      <4> QED
        BY <3>1, <4>1, SeekIs
    <3>5. it'.pos = q /\ it' \in [pos : 0 .. MaxChilds + 1, mEnd : BOOLEAN, ranged : BOOLEAN]
      BY <3>2, <3>3, <3>4 DEF Iterator
    <3>6. TypeOK'
      BY <1>1, <1>2, <2>1, <3>5 DEF TypeOK
    <3>7. First' = First /\ PastEnd' = PastEnd /\ Named' = Named
          /\ \A i : (Owned(i)' <=> Owned(i)) /\ (Fits(i)' <=> Fits(i))
      BY <1>2, SameChilds
    <3>8. RootLoop' /\ NotBegun'
      BY <1>2, <2>1, <2>3 DEF RootLoop, NotBegun
    <3>9. Forward'
      BY <1>2, <3>3, <3>4, <3>5, <3>7 DEF Forward
    <3>10. Seeking'
      <4>1. it'.pos < PastEnd' => Owned(it.pos)'
        BY <3>4, <3>5, <3>7 DEF Fits
      <4>2. ASSUME NEW i \in Named', i < it'.pos, Fits(i)' PROVE FALSE
        BY <3>3, <3>4, <3>5, <3>7, <4>2
      <4> QED
        BY <4>1, <4>2 DEF Seeking
    <3> QED
      BY <1>3, <1>4, <3>6, <3>8, <3>9, <3>10 DEF IInv, Types
  <2>4. iId.rel \in {"child", "node"}
    BY <1>1 DEF TypeOK, Id
  <2> QED
    BY <2>2, <2>3, <2>4
<1> QED
  BY <1>5, <1>6

\* A copy has lost its range, and with it what the invariant says of the range.
LEMMA CopyKeeps == IInv /\ Copy => IInv'
<1> SUFFICES ASSUME IInv, Copy PROVE IInv'
  OBVIOUS
<1>1. TypeOK /\ RootLoop /\ Forward /\ UsedOnce
  BY DEF IInv, Types
<1>2. /\ pc = "test" /\ UNCHANGED <<agent, iChilds, mRroot, iId, pc, used>>
      /\ it' = [it EXCEPT !.ranged = FALSE]
  BY DEF Copy
<1>3. /\ it' \in [pos : 0 .. MaxChilds + 1, mEnd : BOOLEAN, ranged : BOOLEAN]
      /\ it'.pos = it.pos /\ it'.mEnd = it.mEnd /\ ~it'.ranged
  BY <1>1, <1>2 DEF TypeOK
<1>4. TypeOK' /\ Len(iChilds)' =< MaxChilds /\ Grouped(iChilds')
  BY <1>1, <1>2, <1>3 DEF TypeOK, IInv, Types
<1>5. RootLoop' /\ NotBegun'
  BY <1>1, <1>2, <1>3 DEF RootLoop, NotBegun
<1>6. Forward'
  <2>1. First' = First
    BY <1>2, SameChilds
  <2> QED
    BY <1>1, <1>2, <1>3, <2>1 DEF Forward
<1>7. Seeking' /\ UsedFit' /\ UsedOnce'
  BY <1>1, <1>2, <1>3 DEF Seeking, UsedFit, UsedOnce
<1> QED
  BY <1>4, <1>5, <1>6, <1>7 DEF IInv, Types

\* The comparison with the end moves nothing.
LEMMA TestKeeps == IInv /\ Test => IInv'
<1> SUFFICES ASSUME IInv, Test PROVE IInv'
  OBVIOUS
<1>1. TypeOK /\ RootLoop /\ Forward /\ Seeking /\ UsedFit /\ UsedOnce
  BY DEF IInv, Types
<1>2. /\ pc = "test" /\ UNCHANGED <<agent, iChilds, mRroot, iId, it, used>>
      /\ pc' = IF IsEqual(it, End) THEN "done" ELSE "use"
  BY DEF Test
<1>3. TypeOK' /\ Len(iChilds)' =< MaxChilds /\ Grouped(iChilds')
  BY <1>1, <1>2 DEF TypeOK, IInv, Types
<1>4. RootLoop'
  <2>1. iId.rel = "node" /\ it.mEnd /\ it.pos = 0 => IsEqual(it, End)
    BY <1>1 DEF End, Iterator, IsEqual, TypeOK
  <2> QED
    BY <1>1, <1>2, <2>1 DEF RootLoop
<1>5. First' = First /\ PastEnd' = PastEnd /\ Named' = Named
      /\ \A i : (Owned(i)' <=> Owned(i)) /\ (Fits(i)' <=> Fits(i))
  BY <1>2, SameChilds
<1>6. NotBegun' /\ Forward'
  BY <1>1, <1>2, <1>5 DEF NotBegun, Forward
<1>7. Seeking'
  BY <1>1, <1>2, <1>5 DEF Seeking
<1>8. UsedFit' /\ UsedOnce'
  BY <1>1, <1>2, <1>5 DEF UsedFit, UsedOnce
<1> QED
  BY <1>3, <1>4, <1>6, <1>7, <1>8 DEF IInv, Types

\* PostIncr goes on to the next child that fits: of the end of the range, or of
\* the map if the iterator has no range or is past it.
LEMMA NextChild ==
  ASSUME IInv, iId.rel = "child", it.pos =< Len(iChilds), pc # "start"
  PROVE  \E q \in it.pos + 1 .. Len(iChilds) + 1 :
           /\ Incremented = [it EXCEPT !.pos = q]
           /\ \A j \in it.pos + 1 .. q - 1 : ~Fits(j)
           /\ it.ranged /\ it.pos < PastEnd =>
                q =< PastEnd /\ (q < PastEnd => Fits(q))
           /\ it.ranged /\ it.pos >= PastEnd => q > PastEnd
<1>1. /\ Len(iChilds) \in Nat
      /\ First \in 1 .. Len(iChilds) + 1 /\ PastEnd \in First .. Len(iChilds) + 1
  BY Positions
<1>2. it.pos \in Nat
  BY DEF IInv, Types, TypeOK
<1>3. PICK end : end = IF it.ranged /\ it.pos < PastEnd THEN PastEnd ELSE Len(iChilds) + 1
  OBVIOUS
<1>4. end \in Nat /\ it.pos + 1 \in Nat /\ it.pos + 1 =< end /\ end =< Len(iChilds) + 1
  BY <1>1, <1>2, <1>3
<1>5. PICK q : q = Seek(it.pos + 1, end)
  OBVIOUS
<1>6. /\ q \in it.pos + 1 .. end
      /\ \A j \in it.pos + 1 .. q - 1 : ~Fits(j)
      /\ q < end => Fits(q)
  BY <1>4, <1>5, SeekIs
<1>7. Incremented = [it EXCEPT !.pos = q]
  BY <1>3, <1>5 DEF Incremented
<1>8. q \in it.pos + 1 .. Len(iChilds) + 1
  BY <1>1, <1>2, <1>4, <1>6
<1>9. it.ranged /\ it.pos < PastEnd => q =< PastEnd /\ (q < PastEnd => Fits(q))
  BY <1>1, <1>2, <1>3, <1>6
<1>10. it.ranged /\ it.pos >= PastEnd => q > PastEnd
  BY <1>1, <1>2, <1>8
<1> QED
  BY <1>6, <1>7, <1>8, <1>9, <1>10

\* What has been used after one more child.
LEMMA UsedMore ==
  ASSUME used \in Seq(Nat), NEW p \in Nat, used' = Append(used, p)
  PROVE  /\ DOMAIN used' = DOMAIN used \cup {Len(used) + 1}
         /\ Len(used) + 1 \notin DOMAIN used
         /\ \A k \in DOMAIN used : used'[k] = used[k]
         /\ used'[Len(used) + 1] = p
         /\ ToSet(used)' = ToSet(used) \cup {p}
<1>1. /\ DOMAIN used' = DOMAIN used \cup {Len(used) + 1}
      /\ Len(used) + 1 \notin DOMAIN used
      /\ \A k \in DOMAIN used : used'[k] = used[k]
      /\ used'[Len(used) + 1] = p
  OBVIOUS
<1>2. ToSet(used)' = {used'[k] : k \in DOMAIN used'}
  BY DEF ToSet
<1>3. ToSet(used) = {used[k] : k \in DOMAIN used}
  BY DEF ToSet
<1>4. ToSet(used)' = ToSet(used) \cup {p}
  BY <1>1, <1>2, <1>3
<1> QED
  BY <1>1, <1>4

\* GetElem and PostIncr over the children.
LEMMA UseChildKeeps ==
  ASSUME IInv, pc = "use", iId.rel = "child", it.pos =< Len(iChilds),
         used' = Append(used, it.pos), it' = Incremented, pc' = "test",
         UNCHANGED <<agent, iChilds, mRroot, iId>>
  PROVE  IInv'
<1>1. TypeOK /\ Forward /\ Seeking /\ UsedFit /\ UsedOnce
  BY DEF IInv, Types
<1>2. PICK q \in it.pos + 1 .. Len(iChilds) + 1 :
         /\ Incremented = [it EXCEPT !.pos = q]
         /\ \A j \in it.pos + 1 .. q - 1 : ~Fits(j)
         /\ it.ranged /\ it.pos < PastEnd =>
              q =< PastEnd /\ (q < PastEnd => Fits(q))
         /\ it.ranged /\ it.pos >= PastEnd => q > PastEnd
  BY NextChild
<1>3. PICK p : p = it.pos
  OBVIOUS
<1>4. /\ it'.pos = q /\ it'.ranged = it.ranged
      /\ it' \in [pos : 0 .. MaxChilds + 1, mEnd : BOOLEAN, ranged : BOOLEAN]
  <2>1. it \in [pos : 0 .. MaxChilds + 1, mEnd : BOOLEAN, ranged : BOOLEAN]
    BY <1>1 DEF TypeOK
  <2>2. Len(iChilds) \in Nat /\ Len(iChilds) =< MaxChilds /\ MaxChilds \in Nat
    BY Positions
  <2>3. q \in 0 .. MaxChilds + 1
    BY <1>2, <2>1, <2>2
  <2> QED
    BY <1>2, <2>1, <2>3
<1>5. /\ Len(iChilds) \in Nat /\ Len(iChilds) =< MaxChilds /\ MaxChilds \in Nat
      /\ First \in 1 .. Len(iChilds) + 1 /\ PastEnd \in First .. Len(iChilds) + 1
      /\ Named = First .. PastEnd - 1
  BY Positions
<1>6. p \in First .. Len(iChilds) /\ p \in Nat /\ p \in 0 .. MaxChilds /\ q > p /\ q \in Int
  BY <1>1, <1>2, <1>3, <1>5 DEF Forward, TypeOK
<1>7. used \in Seq(0 .. MaxChilds) /\ used \in Seq(Nat)
  BY <1>1, <1>5 DEF TypeOK
<1>8. /\ DOMAIN used' = DOMAIN used \cup {Len(used) + 1}
      /\ Len(used) + 1 \notin DOMAIN used
      /\ \A k \in DOMAIN used : used'[k] = used[k]
      /\ used'[Len(used) + 1] = p
      /\ ToSet(used)' = ToSet(used) \cup {p}
  BY <1>3, <1>6, <1>7, UsedMore
<1>9. First' = First /\ PastEnd' = PastEnd /\ Named' = Named
      /\ \A i : (Owned(i)' <=> Owned(i)) /\ (Fits(i)' <=> Fits(i))
  BY SameChilds
<1>10. TypeOK'
  <2>1. used' \in Seq(0 .. MaxChilds)
    BY <1>3, <1>6, <1>7
  <2> QED
    BY <1>1, <1>4, <2>1 DEF TypeOK
<1>11. Len(iChilds)' =< MaxChilds /\ Grouped(iChilds') /\ RootLoop' /\ NotBegun'
  BY DEF IInv, Types, RootLoop, NotBegun
<1>12. \A k \in DOMAIN used : used[k] \in 1 .. p - 1
  BY <1>1, <1>3 DEF Forward
<1>13. Forward'
  <2>1. it'.pos >= First'
    BY <1>4, <1>5, <1>6, <1>9
  <2>2. ASSUME NEW k \in DOMAIN used' PROVE used'[k] \in 1 .. it'.pos - 1
    <3>1. CASE k = Len(used) + 1
      BY <1>4, <1>5, <1>6, <1>8, <3>1
    <3>2. CASE k \in DOMAIN used
      BY <1>4, <1>6, <1>8, <1>12, <3>2
    <3> QED
      BY <1>8, <3>1, <3>2
  <2> QED
    BY <2>1, <2>2 DEF Forward
<1>14. Seeking'
  <2> SUFFICES ASSUME it'.ranged
               PROVE  /\ it'.pos < PastEnd' => Owned(it.pos)'
                      /\ \A i \in Named' : i < it'.pos /\ Fits(i)' => i \in ToSet(used)'
    BY DEF Seeking
  <2>1. ASSUME it'.pos < PastEnd' PROVE Owned(it.pos)'
    <3>1. q < PastEnd /\ p < PastEnd /\ it.ranged
      BY <1>4, <1>5, <1>6, <1>9, <2>1
    <3>2. Fits(q)
      BY <1>2, <1>3, <3>1
    <3> QED
      BY <1>4, <1>9, <3>2 DEF Fits
  <2>2. ASSUME NEW i \in Named', i < it'.pos, Fits(i)' PROVE i \in ToSet(used)'
    <3>1. i \in Named /\ i < q /\ Fits(i) /\ i \in Int
      BY <1>4, <1>5, <1>9, <2>2
    <3>2. CASE i < p
      BY <1>1, <1>3, <1>4, <1>8, <3>1, <3>2 DEF Seeking
    <3>3. CASE i = p
      BY <1>8, <3>3
    <3>4. CASE i > p
      BY <1>2, <1>3, <1>6, <3>1, <3>4
    <3> QED
      BY <1>6, <3>1, <3>2, <3>3, <3>4
  <2> QED
    BY <2>1, <2>2
<1>15. UsedFit'
  <2> SUFFICES ASSUME it'.pos =< PastEnd', it'.ranged, NEW i \in ToSet(used)'
               PROVE  i \in Named' /\ Owned(i)'
    BY DEF UsedFit
  <2>1. it.ranged /\ p < PastEnd
    BY <1>2, <1>3, <1>4, <1>5, <1>6, <1>9
  <2>2. CASE i = p
    <3>1. p \in Named
      BY <1>5, <1>6, <2>1
    <3>2. Owned(p)
      BY <1>1, <1>3, <2>1 DEF Seeking
    <3> QED
      BY <1>9, <2>2, <3>1, <3>2
  <2>3. CASE i \in ToSet(used)
    <3>1. it.pos =< PastEnd
      BY <1>3, <1>5, <1>6, <2>1
    <3> QED
      BY <1>1, <1>9, <2>1, <2>3, <3>1 DEF UsedFit
  <2> QED
    BY <1>8, <2>2, <2>3
<1>16. UsedOnce'
  <2> SUFFICES ASSUME NEW i \in DOMAIN used', NEW j \in DOMAIN used', used'[i] = used'[j]
               PROVE  i = j
    BY DEF UsedOnce
  <2>1. \A k \in DOMAIN used : used[k] # p
    BY <1>6, <1>12
  <2>2. CASE i \in DOMAIN used /\ j \in DOMAIN used
    BY <1>1, <1>8, <2>2 DEF UsedOnce
  <2>3. CASE ~ (i \in DOMAIN used /\ j \in DOMAIN used)
    BY <1>8, <2>1, <2>3
  <2> QED
    BY <2>2, <2>3
<1> QED
  BY <1>10, <1>11, <1>13, <1>14, <1>15, <1>16 DEF IInv, Types

\* GetElem and PostIncr over the remote root: there is one, and then the end.
LEMMA UseRootKeeps ==
  ASSUME IInv, pc = "use", iId.rel = "node",
         used' = Append(used, it.pos), it' = Incremented, pc' = "test",
         UNCHANGED <<agent, iChilds, mRroot, iId>>
  PROVE  IInv'
<1>1. TypeOK /\ RootLoop
  BY DEF IInv, Types
<1>2. it.pos = 0 /\ used = <<>>
  BY <1>1 DEF RootLoop
<1>3. used' = <<0>>
  BY <1>2
<1>4. /\ it' = [it EXCEPT !.mEnd = TRUE]
      /\ it' \in [pos : 0 .. MaxChilds + 1, mEnd : BOOLEAN, ranged : BOOLEAN]
      /\ it'.pos = 0 /\ it'.mEnd
  BY <1>1, <1>2 DEF Incremented, TypeOK
<1>5. TypeOK'
  BY <1>1, <1>3, <1>4 DEF TypeOK
<1>6. Len(iChilds)' =< MaxChilds /\ Grouped(iChilds')
  BY DEF IInv, Types
<1>7. RootLoop' /\ NotBegun' /\ Forward' /\ Seeking' /\ UsedFit' /\ UsedOnce'
  BY <1>3, <1>4 DEF RootLoop, NotBegun, Forward, Seeking, UsedFit, UsedOnce
<1> QED
  BY <1>5, <1>6, <1>7 DEF IInv, Types

\* GetElem and PostIncr; without an element the program is lost.
LEMMA UseKeeps == IInv /\ Use => IInv'
<1> SUFFICES ASSUME IInv, Use PROVE IInv'
  OBVIOUS
<1>1. TypeOK /\ RootLoop /\ Forward /\ Seeking /\ UsedFit /\ UsedOnce
  BY DEF IInv, Types
<1>2. pc = "use" /\ UNCHANGED <<agent, iChilds, mRroot, iId>>
  BY DEF Use
<1>3. CASE NoElement
  <2>1. pc' = "lost" /\ UNCHANGED <<it, used>>
    BY <1>3 DEF Use
  <2>2. First' = First /\ PastEnd' = PastEnd /\ Named' = Named
        /\ \A i : (Owned(i)' <=> Owned(i)) /\ (Fits(i)' <=> Fits(i))
    BY <1>2, SameChilds
  <2>3. TypeOK' /\ Len(iChilds)' =< MaxChilds /\ Grouped(iChilds')
    BY <1>1, <1>2, <2>1 DEF TypeOK, IInv, Types
  <2>4. RootLoop' /\ NotBegun' /\ Forward'
    BY <1>1, <1>2, <2>1, <2>2 DEF RootLoop, NotBegun, Forward
  <2>5. Seeking'
    BY <1>1, <1>2, <2>1, <2>2 DEF Seeking
  <2>6. UsedFit' /\ UsedOnce'
    BY <1>1, <1>2, <2>1, <2>2 DEF UsedFit, UsedOnce
  <2> QED
    BY <2>3, <2>4, <2>5, <2>6 DEF IInv, Types
<1>4. CASE ~NoElement
  <2>1. used' = Append(used, it.pos) /\ it' = Incremented /\ pc' = "test"
    BY <1>4 DEF Use
  <2>2. iId.rel = "child" => it.pos =< Len(iChilds)
    <3>1. Len(iChilds) \in Nat /\ it.pos \in Nat
      BY <1>1, Positions DEF TypeOK
    <3> QED
      BY <1>4, <3>1 DEF NoElement
  <2>3. iId.rel \in {"child", "node"}
    BY <1>1 DEF TypeOK, Id
  <2> QED
    BY <1>2, <2>1, <2>2, <2>3, UseChildKeeps, UseRootKeeps
<1> QED
  BY <1>3, <1>4

\* A child that is marked removed keeps its place, its name and its owner: the
\* range is the same, and less fits.
LEMMA SetRemovedKeeps ==
  ASSUME IInv, NEW c \in DOMAIN iChilds, SetRemoved(c)
  PROVE  IInv'
<1>1. TypeOK /\ RootLoop /\ Forward /\ Seeking /\ UsedFit /\ UsedOnce /\ Grouped(iChilds)
  BY DEF IInv, Types
<1>2. /\ pc \in {"test", "use"} /\ UNCHANGED <<agent, mRroot, iId, pc, it, used>>
      /\ iChilds' = [iChilds EXCEPT ![c].removed = TRUE]
  BY DEF SetRemoved
<1>3. iChilds \in Seq(Child) /\ Len(iChilds) \in Nat /\ DOMAIN iChilds = 1 .. Len(iChilds)
  BY <1>1 DEF TypeOK
<1>4. iChilds \in [1 .. Len(iChilds) -> Child]
  BY <1>3
<1>5. iChilds' \in [1 .. Len(iChilds) -> Child]
  <2>1. [iChilds[c] EXCEPT !.removed = TRUE] \in Child
    BY <1>3, <1>4 DEF Child
  <2> QED
    BY <1>2, <1>3, <1>4, <2>1
<1>6. iChilds' \in Seq(Child) /\ Len(iChilds') = Len(iChilds) /\ DOMAIN iChilds' = DOMAIN iChilds
  BY <1>3, <1>5
<1>7. \A i \in DOMAIN iChilds : /\ iChilds'[i].name = iChilds[i].name
                                /\ iChilds'[i].owner = iChilds[i].owner
                                /\ iChilds[i].removed => iChilds'[i].removed
  <2> TAKE i \in DOMAIN iChilds
  <2>1. iChilds[i] \in Child /\ iChilds[c] \in Child
    BY <1>3, <1>4
  <2>2. CASE i = c
    BY <1>2, <2>1, <2>2 DEF Child
  <2>3. CASE i # c
    BY <1>2, <2>3
  <2> QED
    BY <2>2, <2>3
<1>8. /\ Named' = Named /\ First' = First /\ PastEnd' = PastEnd
      /\ \A i \in DOMAIN iChilds : Owned(i)' <=> Owned(i)
  BY <1>2, <1>6, <1>7, SameRange
<1>9. \A i \in DOMAIN iChilds : Fits(i)' => Fits(i)
  BY <1>7, <1>8 DEF Fits
<1>10. /\ First \in 1 .. Len(iChilds) + 1 /\ PastEnd \in First .. Len(iChilds) + 1
       /\ Named = First .. PastEnd - 1
  BY Positions
<1>11. TypeOK' /\ Len(iChilds') =< MaxChilds
  BY <1>1, <1>2, <1>6 DEF TypeOK, IInv, Types
<1>12. Grouped(iChilds')
  <2> SUFFICES ASSUME NEW i \in DOMAIN iChilds, NEW j \in DOMAIN iChilds,
                      NEW k \in DOMAIN iChilds, i < j, j < k,
                      iChilds'[i].name = iChilds'[k].name
               PROVE  iChilds'[j].name = iChilds'[i].name
    BY <1>6 DEF Grouped
  <2>1. iChilds[i].name = iChilds[k].name
    BY <1>7
  <2>2. iChilds[j].name = iChilds[i].name
    BY <1>1, <2>1 DEF Grouped
  <2> QED
    BY <1>7, <2>2
<1>13. RootLoop' /\ NotBegun' /\ UsedOnce'
  BY <1>1, <1>2 DEF RootLoop, NotBegun, UsedOnce
<1>14. Forward'
  BY <1>1, <1>2, <1>8 DEF Forward
<1>15. Seeking'
  <2> SUFFICES ASSUME iId.rel = "child", it.ranged
               PROVE  /\ it.pos < PastEnd' => Owned(it.pos)'
                      /\ \A i \in Named' : i < it.pos /\ Fits(i)' => i \in ToSet(used)'
    BY <1>2 DEF Seeking
  <2>1. ASSUME it.pos < PastEnd PROVE Owned(it.pos)'
    <3>1. Owned(it.pos)
      BY <1>1, <1>2, <2>1 DEF Seeking
    <3>2. it.pos \in DOMAIN iChilds
      <4>1. it.pos \in Nat /\ it.pos >= First
        BY <1>1, <1>2 DEF Forward, TypeOK
      <4> QED
        BY <1>3, <1>10, <2>1, <4>1
    <3> QED
      BY <1>2, <1>8, <3>1, <3>2
  <2>2. ASSUME NEW i \in Named, i < it.pos, Fits(i)' PROVE i \in ToSet(used)
    <3>1. i \in DOMAIN iChilds
      BY DEF Named
    <3> QED
      BY <1>1, <1>2, <1>9, <2>2, <3>1 DEF Seeking
  <2>3. ToSet(used)' = ToSet(used)
    BY <1>2
  <2> QED
    BY <1>8, <2>1, <2>2, <2>3
<1>16. UsedFit'
  <2> SUFFICES ASSUME iId.rel = "child", it.pos =< PastEnd, it.ranged, NEW i \in ToSet(used)
               PROVE  i \in Named' /\ Owned(i)'
    BY <1>2, <1>8 DEF UsedFit
  <2>1. i \in Named /\ Owned(i) /\ i \in DOMAIN iChilds
    BY <1>1 DEF UsedFit, Named
  <2> QED
    BY <1>8, <2>1
<1> QED
  BY <1>11, <1>12, <1>13, <1>14, <1>15, <1>16 DEF IInv, Types

\* A stuttering step keeps the invariant.
LEMMA StutterKeeps == IInv /\ UNCHANGED vars => IInv'
<1> SUFFICES ASSUME IInv, UNCHANGED vars PROVE IInv'
  OBVIOUS
<1>1. /\ Types /\ Grouped(iChilds)
      /\ RootLoop /\ NotBegun /\ Forward /\ Seeking /\ UsedFit /\ UsedOnce
  BY DEF IInv
<1>2. UNCHANGED <<agent, iChilds, mRroot, iId, pc, it, used>>
  BY DEF vars
<1>3. First' = First /\ PastEnd' = PastEnd /\ Named' = Named
      /\ \A i : (Owned(i)' <=> Owned(i)) /\ (Fits(i)' <=> Fits(i))
  BY <1>2, SameChilds
<1>4. Types' /\ Grouped(iChilds')
  BY <1>1, <1>2 DEF Types, TypeOK
<1>5. RootLoop' /\ NotBegun' /\ UsedOnce'
  BY <1>1, <1>2 DEF RootLoop, NotBegun, UsedOnce
<1>6. Forward' /\ Seeking'
  BY <1>1, <1>2, <1>3 DEF Forward, Seeking
<1>7. UsedFit'
  BY <1>1, <1>2, <1>3 DEF UsedFit
<1> QED
  BY <1>4, <1>5, <1>6, <1>7 DEF IInv

\* The invariant is inductive.
LEMMA NextIInv == IInv /\ [Next]_vars => IInv'
<1> SUFFICES ASSUME IInv, [Next]_vars PROVE IInv'
  OBVIOUS
<1>1. CASE Start
  BY <1>1, StartKeeps
<1>2. CASE Copy
  BY <1>2, CopyKeeps
<1>3. CASE Test
  BY <1>3, TestKeeps
<1>4. CASE Use
  BY <1>4, UseKeeps
<1>5. CASE \E i \in DOMAIN iChilds : SetRemoved(i)
  BY <1>5, SetRemovedKeeps
<1>6. CASE Over \/ UNCHANGED vars
  BY <1>6, StutterKeeps DEF Over
<1> QED
  BY <1>1, <1>2, <1>3, <1>4, <1>5, <1>6 DEF Next

-----------------------------------------------------------------------------
(* What the invariant says of the loops.                                   *)

\* Every reachable state satisfies the inductive invariant.
LEMMA IterInvariant == Spec => []IInv
<1> QED
  BY InitIInv, NextIInv, PTL DEF Spec

\* The position of an iterator is one of the children's, or one past them.
THEOREM IterTypes == Spec => []TypeOK
<1>1. IInv => TypeOK
  BY DEF IInv, Types
<1> QED
  BY <1>1, IterInvariant, PTL

\* Before the end of its range, a loop has used children of the name and the
\* owner wanted only.
THEOREM LoopUsesWhatFits == Spec => []UsedFit
<1>1. IInv => UsedFit
  BY DEF IInv
<1> QED
  BY <1>1, IterInvariant, PTL

\* A loop that has come to the end of its range has used every child that fits
\* and is there, whatever was removed while it ran.
THEOREM LoopMissesNone == Spec => []NoneMissed
<1>1. IInv => NoneMissed
  <2> SUFFICES ASSUME IInv, iId.rel = "child", pc # "start", it.ranged, it.pos >= PastEnd,
                      NEW i \in Named, Fits(i)
               PROVE  i \in ToSet(used)
    BY DEF NoneMissed
  <2>1. /\ Len(iChilds) \in Nat
        /\ First \in 1 .. Len(iChilds) + 1 /\ PastEnd \in First .. Len(iChilds) + 1
        /\ Named = First .. PastEnd - 1
    BY Positions
  <2>2. it.pos \in Nat
    BY DEF IInv, Types, TypeOK
  <2>3. i < it.pos
    BY <2>1, <2>2
  <2> QED
    BY <2>3 DEF IInv, Seeking
<1> QED
  BY <1>1, IterInvariant, PTL

\* No loop uses an element twice.
THEOREM LoopUsesOnce == Spec => []UsedOnce
<1>1. IInv => UsedOnce
  BY DEF IInv
<1> QED
  BY <1>1, IterInvariant, PTL
=============================================================================

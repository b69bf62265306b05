---------------------------- MODULE StructureProofs ----------------------------
(***************************************************************************)
(* Facts about the two structures on a volume.  The allocation block map,  *)
(* for every number of blocks and every entry width: what a walk visits,   *)
(* in which order, and what leaves it alone; what allocation takes, and    *)
(* that the blocks it takes form one chain.  The file directory, for every *)
(* size of a sector and every length of name: what is written is what is   *)
(* parsed; entries fit when they can be laid out in their order at all, so *)
(* that those that were parsed fit, and those left when one has gone.      *)
(***************************************************************************)
EXTENDS BlockMap, Directory, FiniteSetTheorems, WellFoundedInduction, TLAPS

-----------------------------------------------------------------------------
(***************************************************************************)
(* Least elements, and induction on sets of natural numbers.               *)
(***************************************************************************)
\* A set of natural numbers that is not empty has a least element (the scans of
\* allocate and lookup stop at one).
LEMMA LeastOf ==
  ASSUME NEW S, S \subseteq Nat, S # {}
  PROVE  Least(S) \in S /\ \A c \in S : Least(S) <= c
<1> DEFINE T == {0 .. x : x \in S}
<1>1. IsWellFoundedOn(StrictSubsetOrdering(Nat), FiniteSubsetsOf(Nat))
  BY FS_StrictSubsetOrderingWellFounded
<1>2. T \subseteq FiniteSubsetsOf(Nat) /\ T # {}
  <2>1. ASSUME NEW x \in S PROVE 0 .. x \in FiniteSubsetsOf(Nat)
    <3>1. x \in Nat /\ 0 .. x \subseteq Nat
      OBVIOUS
    <3>2. IsFiniteSet(0 .. x)
      BY <3>1, FS_Interval
    <3> QED BY <3>1, <3>2, Zenon DEF FiniteSubsetsOf
  <2>2. PICK x \in S : TRUE
    OBVIOUS
  <2> QED BY <2>1, <2>2, Zenon
<1>3. PICK t \in T : \A u \in T : ~ (<<u, t>> \in StrictSubsetOrdering(Nat))
  BY <1>1, <1>2, WFMin, Zenon
<1>4. PICK x \in S : t = 0 .. x
  BY <1>3
<1>5. ASSUME NEW y \in S, y < x PROVE FALSE
  <2>1. 0 .. y \subseteq 0 .. x /\ 0 .. y # 0 .. x /\ 0 .. y \subseteq Nat /\ 0 .. x \subseteq Nat
    BY <1>5
  <2>2. <<0 .. y, 0 .. x>> \in StrictSubsetOrdering(Nat)
    BY <2>1, Zenon DEF StrictSubsetOrdering
  <2> QED BY <2>2, <1>3, <1>4
<1>6. \A c \in S : x <= c
  BY <1>5
<1> QED BY <1>6, Zenon DEF Least

\* Induction: a set of natural numbers that holds 0 and the successor of each of
\* its members holds them all.
LEMMA SetInduction ==
  ASSUME NEW P, P \subseteq Nat, 0 \in P, \A n \in P : n + 1 \in P
  PROVE  P = Nat
<1> SUFFICES ASSUME Nat \ P # {} PROVE FALSE
  OBVIOUS
<1> DEFINE x == Least(Nat \ P)
<1>1. x \in Nat \ P /\ \A y \in Nat \ P : x <= y
  BY LeastOf
<1> HIDE DEF x
<1>2. x # 0 /\ x - 1 \in Nat /\ x - 1 \notin Nat \ P
  BY <1>1
<1> QED BY <1>1, <1>2

\* A set of natural numbers with an upper bound has a greatest element.
LEMMA GreatestOf ==
  ASSUME NEW n \in Nat, NEW S, S \subseteq 0 .. n, S # {}
  PROVE  \E x \in S : \A y \in S : y <= x
<1> DEFINE D == {d \in Nat : n - d \in S}
<1>1. D \subseteq Nat /\ D # {}
  <2>1. PICK y \in S : TRUE
    OBVIOUS
  <2>2. y \in 0 .. n
    BY <2>1
  <2>3. n - y \in Nat /\ n - (n - y) = y
    BY <2>2
  <2> QED BY <2>3
<1>2. Least(D) \in D /\ \A c \in D : Least(D) <= c
  BY <1>1, LeastOf
<1> DEFINE x == n - Least(D)
<1>3. x \in S
  BY <1>2
<1>4. ASSUME NEW y \in S PROVE y <= x
  <2>1. y \in 0 .. n
    OBVIOUS
  <2>2. n - y \in D
    BY <2>1
  <2> QED BY <2>1, <2>2, <1>2
<1> QED BY <1>3, <1>4

\* There are NBlocks blocks, finitely many.
LEMMA BlocksFinite ==
  IsFiniteSet(Blocks) /\ Cardinality(Blocks) = NBlocks /\ Blocks \subseteq Nat
<1>1. NBlocks \in Nat
  BY BlockMapAssumption
<1>2. Blocks = 2 .. NBlocks + 1
  BY <1>1 DEF Blocks, FIRST_BLOCK
<1>3. NBlocks + 1 \in Int
  BY <1>1
<1>4. /\ IsFiniteSet(2 .. NBlocks + 1)
      /\ Cardinality(2 .. NBlocks + 1) = IF 2 > NBlocks + 1 THEN 0 ELSE (NBlocks + 1) - 2 + 1
  BY <1>3, FS_Interval
<1> QED BY <1>1, <1>2, <1>4

-----------------------------------------------------------------------------
(***************************************************************************)
(* Walks.                                                                  *)
(***************************************************************************)
\* The blocks a walk visits are the least set that holds its start and is closed
\* under moving on (the loop of chain).
LEMMA VisitedClosed ==
  ASSUME NEW m, NEW start \in Blocks
  PROVE  /\ Visited(m, start) \subseteq Blocks
         /\ start \in Visited(m, start)
         /\ ClosedUnder(m, Visited(m, start))
<1>1. Visited(m, start) \subseteq Blocks
  BY DEF Visited
<1>2. start \in Visited(m, start)
  BY DEF Visited
<1>3. ASSUME NEW b \in Visited(m, start), MovesOn(m, b) PROVE m[b] \in Visited(m, start)
  <2>1. m[b] \in Blocks
    BY <1>3 DEF MovesOn, InRange
  <2>2. ASSUME NEW R \in SUBSET Blocks, start \in R, ClosedUnder(m, R) PROVE m[b] \in R
    <3>1. b \in R
      BY <2>2 DEF Visited
    <3> QED BY <3>1, <2>2, <1>3 DEF ClosedUnder
  <2> QED BY <2>1, <2>2 DEF Visited
<1> QED BY <1>1, <1>2, <1>3 DEF ClosedUnder

\* A walk stays inside every closed set that holds its start.
LEMMA VisitedLeast ==
  ASSUME NEW m, NEW start, NEW R \in SUBSET Blocks, start \in R, ClosedUnder(m, R)
  PROVE  Visited(m, start) \subseteq R
BY DEF Visited

\* A map that agrees with another on the blocks a walk visits has the same walk:
\* freeing or allocating other blocks does not disturb a chain.
LEMMA VisitedFrame ==
  ASSUME NEW m, NEW o, NEW start \in Blocks,
         \A b \in Visited(m, start) : o[b] = m[b]
  PROVE  Visited(o, start) = Visited(m, start)
<1> DEFINE V == Visited(m, start)
           W == Visited(o, start)
<1>1. V \subseteq Blocks /\ start \in V /\ ClosedUnder(m, V)
  BY VisitedClosed
<1>2. W \subseteq Blocks /\ start \in W /\ ClosedUnder(o, W)
  BY VisitedClosed
<1>3. W \subseteq V
  <2>1. ClosedUnder(o, V)
    BY <1>1 DEF ClosedUnder, MovesOn
  <2> QED BY <2>1, <1>1, VisitedLeast
<1>4. V \subseteq W
  <2>1. ClosedUnder(m, W)
    BY <1>2, <1>3 DEF ClosedUnder, MovesOn
  <2> QED BY <2>1, <1>2, VisitedLeast
<1> QED BY <1>3, <1>4

\* Such a map has the same verdict on the chain, and the same length.
LEMMA ChainFrame ==
  ASSUME NEW m, NEW o, NEW start \in Blocks,
         \A b \in Visited(m, start) : o[b] = m[b]
  PROVE  /\ ChainOk(o, start) <=> ChainOk(m, start)
         /\ ChainLen(o, start) = ChainLen(m, start)
<1>1. Visited(o, start) = Visited(m, start)
  BY VisitedFrame
<1> QED BY <1>1 DEF ChainOk, ChainLen

-----------------------------------------------------------------------------
(***************************************************************************)
(* Freeing and allocating.                                                 *)
(***************************************************************************)
LEMMA FreeChainType ==
  ASSUME NEW m \in MapType, NEW start
  PROVE  FreeChain(m, start) \in MapType
BY BlockMapAssumption DEF FreeChain, MapType, FREE, Entry

\* The n lowest of a set of blocks: there are n, and none of the others is lower.
LEMMA LowestOf ==
  ASSUME NEW S \in SUBSET Blocks, NEW n \in Nat, n <= Cardinality(S)
  PROVE  /\ Lowest(S, n) \subseteq S
         /\ IsFiniteSet(Lowest(S, n))
         /\ Cardinality(Lowest(S, n)) = n
         /\ \A b \in Lowest(S, n), c \in S \ Lowest(S, n) : b < c
<1> DEFINE Is(T, k) == Cardinality(T) = k /\ \A b \in T, c \in S \ T : b < c
           P == {k \in Nat : k <= Cardinality(S) => \E T \in SUBSET S : Is(T, k)}
<1>0. IsFiniteSet(S) /\ Cardinality(S) \in Nat /\ S \subseteq Nat
  BY BlocksFinite, FS_Subset, FS_CardinalityType
<1>1. 0 \in P
  <2>1. Is({}, 0)
    BY FS_EmptySet
  <2> QED BY <2>1
<1>2. ASSUME NEW k \in P PROVE k + 1 \in P
  <2> SUFFICES ASSUME k + 1 <= Cardinality(S) PROVE \E T \in SUBSET S : Is(T, k + 1)
    OBVIOUS
  <2>1. k \in Nat /\ k <= Cardinality(S)
    BY <1>0
  <2>2. PICK T \in SUBSET S : Is(T, k)
    BY <2>1
  <2>3. IsFiniteSet(T)
    BY <1>0, FS_Subset
  <2>4. S \ T # {} /\ S \ T \subseteq Nat
    <3>1. T # S
      BY <2>1, <2>2, <1>0
    <3> QED BY <3>1, <1>0
  <2> DEFINE x == Least(S \ T)
             U == T \cup {x}
  <2>5. x \in S \ T /\ \A c \in S \ T : x <= c
    BY <2>4, LeastOf
  <2> HIDE DEF x
  <2>6. Cardinality(U) = k + 1
    BY <2>2, <2>3, <2>5, FS_AddElement
  <2>7. ASSUME NEW b \in U, NEW c \in S \ U PROVE b < c
    <3>1. c \in S \ T /\ c # x /\ c \in Nat /\ x \in Nat
      BY <2>4, <2>5
    <3>2. CASE b \in T
      BY <3>1, <3>2, <2>2
    <3>3. CASE b = x
      BY <3>1, <3>3, <2>5
    <3> QED BY <3>2, <3>3
  <2>8. U \in SUBSET S
    BY <2>5
  <2> QED BY <2>6, <2>7, <2>8
<1> HIDE DEF P
<1>3. P \subseteq Nat
  BY DEF P
<1>4. P = Nat
  BY <1>1, <1>2, <1>3, SetInduction
<1>5. \E T \in SUBSET S : Is(T, n)
  BY <1>4 DEF P
<1>6. Lowest(S, n) \in SUBSET S /\ Is(Lowest(S, n), n)
  BY <1>5, Zenon DEF Lowest
<1> QED BY <1>0, <1>6, FS_Subset

\* There is one such set only.
LEMMA LowestIs ==
  ASSUME NEW S \in SUBSET Blocks, NEW T \in SUBSET S, \A b \in T, c \in S \ T : b < c
  PROVE  T = Lowest(S, Cardinality(T))
<1> DEFINE n == Cardinality(T)
           L == Lowest(S, n)
<1>1. IsFiniteSet(S) /\ IsFiniteSet(T) /\ n \in Nat /\ n <= Cardinality(S) /\ S \subseteq Nat
  BY BlocksFinite, FS_Subset, FS_CardinalityType
<1>2. /\ L \subseteq S /\ IsFiniteSet(L) /\ Cardinality(L) = n
      /\ \A b \in L, c \in S \ L : b < c
  BY <1>1, LowestOf
<1> HIDE DEF L
<1>3. T \subseteq L \/ L \subseteq T
  <2>1. SUFFICES ASSUME NEW x \in T \ L, NEW y \in L \ T PROVE FALSE
    OBVIOUS
  <2>2. x \in S \ L /\ y \in S \ T
    BY <1>2
  <2>3. x < y /\ y < x /\ x \in Nat /\ y \in Nat
    BY <1>1, <1>2, <2>2
  <2> QED BY <2>3
<1>4. CASE T \subseteq L
  BY <1>2, <1>4, FS_Subset DEF L
<1>5. CASE L \subseteq T
  BY <1>1, <1>2, <1>5, FS_Subset DEF L
<1> QED BY <1>3, <1>4, <1>5

\* Linking blocks keeps every entry in its width.
LEMMA LinkedType ==
  ASSUME NEW m \in MapType, NEW S \in SUBSET Blocks
  PROVE  Linked(m, S) \in MapType
<1> SUFFICES ASSUME NEW b \in Blocks PROVE Linked(m, S)[b] \in Entry
  BY DEF Linked, MapType
<1>1. Linked(m, S)[b] = IF b \notin S THEN m[b]
                        ELSE IF After(S, b) = {} THEN LAST ELSE Masked(Least(After(S, b)))
  BY DEF Linked
<1>2. CASE b \notin S
  BY <1>1, <1>2 DEF MapType
<1>3. CASE b \in S /\ After(S, b) = {}
  BY <1>1, <1>3, BlockMapAssumption DEF LAST, Entry
<1>4. CASE b \in S /\ After(S, b) # {}
  <2>1. After(S, b) \subseteq Nat
    BY BlocksFinite DEF After
  <2>2. Least(After(S, b)) \in Nat
    BY <1>4, <2>1, LeastOf
  <2>3. Masked(Least(After(S, b))) \in Entry
    BY <2>2, BlockMapAssumption DEF Masked, Entry
  <2> QED BY <1>1, <1>4, <2>3
<1> QED BY <1>2, <1>3, <1>4

\* The blocks allocate links are one chain: a walk from the lowest of them visits
\* exactly them and ends at one marked last, as long as every block number is a
\* link an entry can hold.
LEMMA LinkedIsChain ==
  ASSUME Addressable, NEW m, NEW S \in SUBSET Blocks, S # {}
  PROVE  /\ Least(S) \in Blocks
         /\ Visited(Linked(m, S), Least(S)) = S
         /\ ChainOk(Linked(m, S), Least(S))
<1> DEFINE o == Linked(m, S)
           V == Visited(o, Least(S))
<1>0. S \subseteq Nat /\ Least(S) \in S /\ \A c \in S : Least(S) <= c
  BY BlocksFinite, LeastOf
<1>1. ASSUME NEW b \in S, After(S, b) # {}
      PROVE  /\ Least(After(S, b)) \in After(S, b)
             /\ \A c \in After(S, b) : Least(After(S, b)) <= c
             /\ o[b] = Least(After(S, b))
             /\ MovesOn(o, b)
  <2>1. After(S, b) \subseteq Nat
    BY <1>0 DEF After
  <2>2. Least(After(S, b)) \in After(S, b) /\ \A c \in After(S, b) : Least(After(S, b)) <= c
    BY <1>1, <2>1, LeastOf
  <2>3. o[b] = Masked(Least(After(S, b)))
    BY <1>1 DEF Linked
  <2>4. Least(After(S, b)) \in Blocks
    BY <2>2 DEF After
  <2>5. ASSUME NEW c \in Blocks PROVE c % EntryMod = c /\ c \notin {FREE, LAST, RESERVED}
    <3>1. c \in Nat /\ c >= 2 /\ c < EntryMod - 1 /\ EntryMod \in Nat
      BY BlockMapAssumption DEF Blocks, Addressable, FIRST_BLOCK, RESERVED
    <3>2. c % EntryMod = c
      BY <3>1
    <3> QED BY <3>1, <3>2 DEF FREE, LAST, RESERVED
  <2>6. Masked(Least(After(S, b))) = Least(After(S, b))
    BY <2>4, <2>5 DEF Masked
  <2> QED BY <2>2, <2>3, <2>4, <2>5, <2>6 DEF MovesOn, InRange
<1>2. ASSUME NEW b \in S, After(S, b) = {} PROVE o[b] = LAST
  BY <1>2 DEF Linked
<1>3. V \subseteq Blocks /\ Least(S) \in V /\ ClosedUnder(o, V)
  BY <1>0, VisitedClosed
<1>4. V \subseteq S
  <2>1. ASSUME NEW b \in S, MovesOn(o, b) PROVE o[b] \in S
    <3>1. CASE After(S, b) = {}
      BY <3>1, <2>1, <1>2 DEF MovesOn
    <3>2. CASE After(S, b) # {}
      BY <3>2, <1>1 DEF After
    <3> QED BY <3>1, <3>2
  <2>2. ClosedUnder(o, S)
    BY <2>1 DEF ClosedUnder
  <2> QED BY <2>2, <1>0, VisitedLeast
<1>5. S \subseteq V
  <2> SUFFICES ASSUME S \ V # {} PROVE FALSE
    OBVIOUS
  <2> DEFINE x == Least(S \ V)
             L == {c \in S : c < x}
  <2>1. x \in S \ V /\ \A c \in S \ V : x <= c
    BY <1>0, LeastOf
  <2> HIDE DEF x
  <2>2. x \in Nat /\ L \subseteq 0 .. x /\ Least(S) \in L
    <3>1. x \in S /\ x \in Nat /\ x # Least(S) /\ Least(S) <= x /\ Least(S) \in Nat
      BY <2>1, <1>0, <1>3
    <3>2. \A c \in L : c \in Nat /\ c < x
      BY <1>0
    <3>3. ASSUME NEW c \in L PROVE c \in 0 .. x
      <4>1. c \in Nat /\ c < x /\ x \in Nat
        BY <3>1, <3>2
      <4> QED BY <4>1
    <3>4. Least(S) < x
      BY <3>1
    <3> QED BY <3>1, <3>3, <3>4, <1>0
  <2>3. PICK p \in L : \A y \in L : y <= p
    BY <2>2, GreatestOf
  <2>4. p \in S /\ p \in V /\ p \in Nat /\ p < x
    BY <2>1, <2>3, <1>0
  <2>5. x \in After(S, p)
    BY <2>1, <2>4 DEF After
  <2>6. ASSUME NEW c \in After(S, p) PROVE x <= c
    <3>1. c \in S /\ c > p /\ c \in Nat
      BY <1>0 DEF After
    <3>2. c \notin L
      BY <3>1, <2>3, <2>4
    <3> QED BY <3>1, <3>2, <2>2
  <2>7. /\ Least(After(S, p)) \in After(S, p)
        /\ \A c \in After(S, p) : Least(After(S, p)) <= c
        /\ o[p] = Least(After(S, p)) /\ MovesOn(o, p)
    BY <2>4, <2>5, <1>1
  <2>8. Least(After(S, p)) = x
    <3>1. Least(After(S, p)) \in Nat
      BY <2>7, <1>0 DEF After
    <3> QED BY <3>1, <2>2, <2>5, <2>6, <2>7
  <2>9. o[p] \in V
    BY <2>4, <2>7, <1>3 DEF ClosedUnder
  <2> QED BY <2>1, <2>7, <2>8, <2>9
<1>6. \E b \in S : o[b] = LAST
  <2>1. S \subseteq 0 .. (NBlocks + 1) /\ NBlocks + 1 \in Nat
    BY BlockMapAssumption DEF Blocks, FIRST_BLOCK
  <2>2. PICK x \in S : \A y \in S : y <= x
    BY <2>1, GreatestOf
  <2>3. ASSUME NEW c \in S PROVE ~(c > x)
    <3>1. c <= x /\ c \in Nat /\ x \in Nat
      BY <2>2, <1>0
    <3> QED BY <3>1
  <2>4. After(S, x) = {}
    BY <2>3 DEF After
  <2> QED BY <2>4, <1>2
<1> QED BY <1>0, <1>3, <1>4, <1>5, <1>6 DEF ChainOk, InRange

-----------------------------------------------------------------------------
(***************************************************************************)
(* The order of a chain.                                                   *)
(***************************************************************************)
\* A walk from a block goes on from the block its entry names.
LEMMA VisitedNext ==
  ASSUME NEW m, NEW c \in Blocks, MovesOn(m, c)
  PROVE  m[c] \in Blocks /\ Visited(m, c) = {c} \cup Visited(m, m[c])
<1>1. m[c] \in Blocks
  BY DEF MovesOn, InRange
<1>2. /\ Visited(m, m[c]) \subseteq Blocks /\ m[c] \in Visited(m, m[c])
      /\ ClosedUnder(m, Visited(m, m[c]))
  BY <1>1, VisitedClosed
<1>3. ClosedUnder(m, {c} \cup Visited(m, m[c]))
  BY <1>2 DEF ClosedUnder
<1>4. Visited(m, c) \subseteq Blocks /\ c \in Visited(m, c) /\ ClosedUnder(m, Visited(m, c))
  BY VisitedClosed
<1>5. m[c] \in Visited(m, c)
  BY <1>4 DEF ClosedUnder
<1>6. Visited(m, m[c]) \subseteq Visited(m, c)
  BY <1>4, <1>5, VisitedLeast
<1>7. {c} \cup Visited(m, m[c]) \subseteq Blocks
  BY <1>2
<1>8. Visited(m, c) \subseteq {c} \cup Visited(m, m[c])
  BY <1>3, <1>7, VisitedLeast
<1> QED BY <1>1, <1>4, <1>6, <1>8

\* A walk from a block that does not move on visits that block only.
LEMMA VisitedStop ==
  ASSUME NEW m, NEW c \in Blocks, ~MovesOn(m, c)
  PROVE  Visited(m, c) = {c}
<1>1. ClosedUnder(m, {c})
  BY DEF ClosedUnder
<1> QED BY <1>1, VisitedLeast, VisitedClosed

\* What is visited from a block of a walk is visited by the walk.
LEMMA VisitedSuffix ==
  ASSUME NEW m, NEW start \in Blocks, NEW b \in Visited(m, start)
  PROVE  b \in Blocks /\ Visited(m, b) \subseteq Visited(m, start)
<1>1. Visited(m, start) \subseteq Blocks /\ ClosedUnder(m, Visited(m, start))
  BY VisitedClosed
<1> QED BY <1>1, VisitedLeast

\* From each of its blocks a chain that walks to its end does so.
LEMMA ChainSuffix ==
  ASSUME NEW m, NEW start, ChainOk(m, start), NEW b \in Visited(m, start)
  PROVE  ChainOk(m, b)
<1> DEFINE V == Visited(m, start)
<1>1. start \in Blocks /\ V \subseteq Blocks /\ start \in V /\ ClosedUnder(m, V)
  BY VisitedClosed DEF ChainOk, InRange
<1>2. PICK e \in V : m[e] = LAST
  BY DEF ChainOk
<1>3. ~MovesOn(m, e)
  BY <1>2 DEF MovesOn
<1> DEFINE D == {c \in V : e \in Visited(m, c)}
<1>4. ClosedUnder(m, D)
  <2> SUFFICES ASSUME NEW c \in D, MovesOn(m, c) PROVE m[c] \in D
    BY DEF ClosedUnder
  <2>1. c \in Blocks /\ m[c] \in V /\ c # e
    BY <1>1, <1>3 DEF ClosedUnder
  <2>2. Visited(m, c) = {c} \cup Visited(m, m[c])
    BY <2>1, VisitedNext
  <2> QED BY <2>1, <2>2
<1>5. start \in D /\ D \in SUBSET Blocks
  BY <1>1, <1>2
<1>6. V \subseteq D
  BY <1>4, <1>5, VisitedLeast
<1> QED BY <1>1, <1>2, <1>6 DEF ChainOk, InRange

\* A chain that walks to its end does not come back to a block.
LEMMA ChainNoReturn ==
  ASSUME NEW m, NEW b, ChainOk(m, b), MovesOn(m, b)
  PROVE  b \notin Visited(m, m[b])
<1> SUFFICES ASSUME b \in Visited(m, m[b]) PROVE FALSE
  OBVIOUS
<1> DEFINE V == Visited(m, b)
           C == {c \in V : b \in Visited(m, c)}
<1>1. b \in Blocks /\ V \subseteq Blocks /\ b \in V /\ ClosedUnder(m, V)
  BY VisitedClosed DEF ChainOk, InRange
<1>2. PICK e \in V : m[e] = LAST
  BY DEF ChainOk
<1>3. ~MovesOn(m, e) /\ e \in Blocks
  BY <1>1, <1>2 DEF MovesOn
<1>4. ClosedUnder(m, C)
  <2> SUFFICES ASSUME NEW c \in C, MovesOn(m, c) PROVE m[c] \in C
    BY DEF ClosedUnder
  <2>1. c \in Blocks /\ m[c] \in V
    BY <1>1 DEF ClosedUnder
  <2>2. Visited(m, c) = {c} \cup Visited(m, m[c])
    BY <2>1, VisitedNext
  <2> QED BY <2>1, <2>2
<1>5. b \in C /\ C \in SUBSET Blocks
  BY <1>1
<1>6. e \in C
  BY <1>2, <1>4, <1>5, VisitedLeast
<1>7. Visited(m, e) = {e}
  BY <1>3, VisitedStop
<1> QED BY <1>3, <1>6, <1>7

\* From one block to the next what is left of the chain is one block shorter.
LEMMA ChainShortens ==
  ASSUME NEW m, NEW b, ChainOk(m, b), MovesOn(m, b)
  PROVE  m[b] \in Visited(m, b) /\ ChainLen(m, b) = ChainLen(m, m[b]) + 1
<1>1. b \in Blocks
  BY DEF ChainOk, InRange
<1>2. m[b] \in Blocks /\ Visited(m, b) = {b} \cup Visited(m, m[b])
  BY <1>1, VisitedNext
<1>3. b \notin Visited(m, m[b])
  BY ChainNoReturn
<1>4. Visited(m, m[b]) \subseteq Blocks /\ m[b] \in Visited(m, m[b])
  BY <1>2, VisitedClosed
<1>5. IsFiniteSet(Visited(m, m[b]))
  BY <1>4, BlocksFinite, FS_Subset
<1>6. Cardinality(Visited(m, m[b]) \cup {b}) = Cardinality(Visited(m, m[b])) + 1
  BY <1>3, <1>5, FS_AddElement
<1>7. Visited(m, b) = Visited(m, m[b]) \cup {b}
  BY <1>2
<1> QED BY <1>2, <1>4, <1>6, <1>7 DEF ChainLen

\* The number of blocks of a chain: at least one, where it begins.
LEMMA ChainLenType ==
  ASSUME NEW m, NEW start \in Blocks
  PROVE  /\ IsFiniteSet(Visited(m, start))
         /\ ChainLen(m, start) \in Nat /\ ChainLen(m, start) >= 1
<1>1. Visited(m, start) \subseteq Blocks /\ start \in Visited(m, start)
  BY VisitedClosed
<1>2. IsFiniteSet(Visited(m, start))
  BY <1>1, BlocksFinite, FS_Subset
<1>3. Cardinality(Visited(m, start)) \in Nat /\ Cardinality(Visited(m, start)) # 0
  BY <1>1, <1>2, FS_CardinalityType, FS_EmptySet
<1> QED BY <1>2, <1>3 DEF ChainLen

\* At every distance from the end of a chain there is a block of it.
LEMMA ChainPlaces ==
  ASSUME NEW m, NEW start, ChainOk(m, start), NEW x \in 1 .. ChainLen(m, start)
  PROVE  \E b \in Visited(m, start) : ChainLen(m, b) = x
<1> DEFINE V == Visited(m, start)
           n == ChainLen(m, start)
           P == {d \in Nat : d < n => \E b \in V : ChainLen(m, b) = n - d}
<1>1. start \in Blocks /\ V \subseteq Blocks /\ start \in V /\ ClosedUnder(m, V)
  BY VisitedClosed DEF ChainOk, InRange
<1>2. n \in Nat
  BY <1>1, ChainLenType
<1>3. 0 \in P
  BY <1>1, <1>2
<1>4. ASSUME NEW d \in P PROVE d + 1 \in P
  <2> SUFFICES ASSUME d + 1 < n PROVE \E b \in V : ChainLen(m, b) = n - (d + 1)
    OBVIOUS
  <2>1. d \in Nat /\ d < n
    BY <1>2
  <2>2. PICK b \in V : ChainLen(m, b) = n - d
    BY <2>1
  <2>3. ChainOk(m, b) /\ b \in Blocks
    BY <1>1, ChainSuffix
  <2>4. MovesOn(m, b)
    <3> SUFFICES ASSUME ~MovesOn(m, b) PROVE FALSE
      OBVIOUS
    <3>1. Visited(m, b) = {b}
      BY <2>3, VisitedStop
    <3>2. ChainLen(m, b) = 1
      BY <3>1, FS_Singleton DEF ChainLen
    <3> QED BY <1>2, <2>1, <2>2, <3>2
  <2>5. m[b] \in Visited(m, b) /\ ChainLen(m, b) = ChainLen(m, m[b]) + 1
    BY <2>3, <2>4, ChainShortens
  <2>6. m[b] \in V /\ m[b] \in Blocks
    BY <1>1, <2>5, VisitedSuffix
  <2>7. ChainLen(m, m[b]) \in Nat
    BY <2>6, ChainLenType
  <2>8. ChainLen(m, m[b]) = n - (d + 1)
    BY <1>2, <2>1, <2>2, <2>5, <2>7
  <2> QED BY <2>6, <2>8
<1>5. P = Nat
  <2>1. P \subseteq Nat
    OBVIOUS
  <2> HIDE DEF P
  <2> QED BY <1>3, <1>4, <2>1, SetInduction
<1>6. n - x \in P /\ n - x < n /\ n - (n - x) = x
  BY <1>2, <1>5
<1> QED BY <1>6

\* The i-th block of a chain that walks to its end is one of its blocks, with all
\* but i - 1 of them still to come.
LEMMA ChainSeqBlock ==
  ASSUME NEW m, NEW start, ChainOk(m, start), NEW i \in 1 .. ChainLen(m, start)
  PROVE  /\ ChainSeq(m, start)[i] \in Visited(m, start)
         /\ ChainLen(m, ChainSeq(m, start)[i]) = ChainLen(m, start) - i + 1
<1> DEFINE V == Visited(m, start)
           n == ChainLen(m, start)
           left == [b \in V |-> ChainLen(m, b)]
<1>1. start \in Blocks
  BY DEF ChainOk, InRange
<1>2. n \in Nat /\ n = Cardinality(V)
  BY <1>1, ChainLenType DEF ChainLen
<1>3. n - i + 1 \in 1 .. n
  BY <1>2
<1>4. \E b \in V : left[b] = n - i + 1
  BY <1>3, ChainPlaces
<1>5. ChainSeq(m, start)[i] = CHOOSE b \in V : left[b] = n - i + 1
  BY <1>2 DEF ChainSeq
<1> HIDE DEF n, V
<1>6. ChainSeq(m, start)[i] \in V /\ left[ChainSeq(m, start)[i]] = n - i + 1
  BY <1>4, <1>5
<1> QED BY <1>6 DEF V, n

\* No two blocks of a chain that walks to its end are as far from the end.
LEMMA ChainPlaceOnce ==
  ASSUME NEW m, NEW start, ChainOk(m, start),
         NEW b \in Visited(m, start), NEW c \in Visited(m, start),
         ChainLen(m, b) = ChainLen(m, c)
  PROVE  b = c
<1> DEFINE V == Visited(m, start)
           n == ChainLen(m, start)
           f == [d \in V |-> ChainLen(m, d)]
<1>1. start \in Blocks /\ V \subseteq Blocks
  BY VisitedClosed DEF ChainOk, InRange
<1>2. IsFiniteSet(V) /\ n \in Nat /\ n = Cardinality(V)
  BY <1>1, ChainLenType DEF ChainLen
<1>3. ASSUME NEW d \in V PROVE ChainLen(m, d) \in 1 .. n
  <2>1. d \in Blocks /\ Visited(m, d) \subseteq V
    BY <1>1, VisitedSuffix
  <2>2. ChainLen(m, d) \in Nat /\ ChainLen(m, d) >= 1
    BY <2>1, ChainLenType
  <2>3. Cardinality(Visited(m, d)) <= Cardinality(V)
    BY <1>2, <2>1, FS_Subset
  <2> QED BY <1>2, <2>2, <2>3 DEF ChainLen
<1>4. \A x \in 1 .. n : \E d \in V : ChainLen(m, d) = x
  BY ChainPlaces
<1>5. Cardinality(1 .. n) = n
  <2> HIDE DEF n
  <2>1. 1 \in Int /\ n \in Int
    BY <1>2
  <2>2. Cardinality(1 .. n) = IF 1 > n THEN 0 ELSE n - 1 + 1
    BY <2>1, FS_Interval
  <2> QED BY <1>2, <2>2
<1> HIDE DEF V, n
<1>6. f \in Surjection(V, 1 .. n)
  BY <1>3, <1>4 DEF Surjection
<1>7. f \in Injection(V, 1 .. n)
  BY <1>2, <1>5, <1>6, FS_SurjSameCardinalityImpliesInj
<1> QED BY <1>7 DEF Injection, IsInjective, V

\* Hence the block at that distance is the one ChainSeq has there.
LEMMA ChainSeqIs ==
  ASSUME NEW m, NEW start, ChainOk(m, start), NEW i \in 1 .. ChainLen(m, start),
         NEW b \in Visited(m, start), ChainLen(m, b) = ChainLen(m, start) - i + 1
  PROVE  ChainSeq(m, start)[i] = b
<1>1. /\ ChainSeq(m, start)[i] \in Visited(m, start)
      /\ ChainLen(m, ChainSeq(m, start)[i]) = ChainLen(m, start) - i + 1
  BY ChainSeqBlock
<1> QED BY <1>1, ChainPlaceOnce

\* A map that agrees with another on the blocks of a walk gives them the same order.
LEMMA ChainSeqFrame ==
  ASSUME NEW m, NEW o, NEW start \in Blocks,
         \A b \in Visited(m, start) : o[b] = m[b]
  PROVE  ChainSeq(o, start) = ChainSeq(m, start)
<1> DEFINE V == Visited(m, start)
<1>1. Visited(o, start) = V
  BY VisitedFrame
<1>2. ASSUME NEW b \in V PROVE ChainLen(o, b) = ChainLen(m, b)
  <2>1. b \in Blocks /\ Visited(m, b) \subseteq V
    BY VisitedSuffix
  <2>2. \A c \in Visited(m, b) : o[c] = m[c]
    BY <2>1
  <2> QED BY <2>1, <2>2, ChainFrame
<1>3. [b \in V |-> ChainLen(o, b)] = [b \in V |-> ChainLen(m, b)]
  BY <1>2
<1> QED BY <1>1, <1>3 DEF ChainSeq

-----------------------------------------------------------------------------
(***************************************************************************)
(* The order of a chain allocate has linked.                               *)
(***************************************************************************)
\* What is behind a block in a set, itself included, and what is before it.
LEMMA PlaceAndRest ==
  ASSUME NEW S \in SUBSET Blocks, NEW b \in S
  PROVE  /\ PlaceOf(S, b) \in 1 .. Cardinality(S)
         /\ Cardinality({c \in S : c >= b}) = Cardinality(S) - PlaceOf(S, b) + 1
<1> DEFINE L == {c \in S : c <= b}
           G == {c \in S : c >= b}
<1>0. S \subseteq Nat /\ IsFiniteSet(S) /\ Cardinality(S) \in Nat
  BY BlocksFinite, FS_Subset, FS_CardinalityType
<1>1. L \subseteq S /\ G \subseteq S
  OBVIOUS
<1>2. /\ IsFiniteSet(L) /\ Cardinality(L) \in Nat /\ Cardinality(L) <= Cardinality(S)
      /\ IsFiniteSet(G) /\ Cardinality(G) \in Nat
  BY <1>0, <1>1, FS_Subset, FS_CardinalityType
<1>3. L \cap G = {b}
  <2>1. ASSUME NEW c \in L \cap G PROVE c = b
    BY <1>0
  <2>2. b \in L \cap G
    BY <1>0
  <2> QED BY <2>1, <2>2
<1>4. L \cup G = S
  <2>1. ASSUME NEW c \in S PROVE c <= b \/ c >= b
    BY <1>0
  <2> QED BY <2>1
<1> HIDE DEF L, G
<1>5. Cardinality(L \cup G) = Cardinality(L) + Cardinality(G) - Cardinality(L \cap G)
  BY <1>2, FS_Union
<1>6. Cardinality(L \cap G) = 1
  BY <1>3, FS_Singleton
<1>7. Cardinality(L) # 0
  BY <1>2, <1>3, FS_EmptySet
<1>8. PlaceOf(S, b) = Cardinality(L)
  BY DEF PlaceOf, L
<1> QED BY <1>0, <1>2, <1>4, <1>5, <1>6, <1>7, <1>8 DEF G

\* No two blocks have the same place.
LEMMA PlaceOnce ==
  ASSUME NEW S \in SUBSET Blocks, NEW b \in S, NEW c \in S, PlaceOf(S, b) = PlaceOf(S, c)
  PROVE  b = c
<1>1. S \subseteq Nat /\ IsFiniteSet(S)
  BY BlocksFinite, FS_Subset
<1>2. ASSUME NEW x \in S, NEW y \in S, x < y PROVE PlaceOf(S, x) # PlaceOf(S, y)
  <2> DEFINE X == {d \in S : d <= x}
             Y == {d \in S : d <= y}
  <2>1. X \subseteq Y
    <3>1. ASSUME NEW d \in S, d <= x PROVE d <= y
      <4>1. d \in Nat /\ x \in Nat /\ y \in Nat
        BY <1>1
      <4> QED BY <1>2, <3>1, <4>1
    <3> QED BY <3>1
  <2>2. y \in Y /\ y \notin X
    BY <1>1, <1>2
  <2>3. IsFiniteSet(Y)
    BY <1>1, FS_Subset
  <2> HIDE DEF X, Y
  <2>4. Cardinality(X) # Cardinality(Y)
    BY <2>1, <2>2, <2>3, FS_Subset
  <2> QED BY <2>4 DEF PlaceOf, X, Y
<1>3. b < c \/ c < b \/ b = c
  BY <1>1
<1> QED BY <1>2, <1>3

\* A walk from any of the blocks allocate links visits those that lie behind it.
LEMMA LinkedRest ==
  ASSUME Addressable, NEW m, NEW S \in SUBSET Blocks, NEW b \in S
  PROVE  Visited(Linked(m, S), b) = {c \in S : c >= b}
<1> DEFINE T == {c \in S : c >= b}
<1>0. S \subseteq Nat
  BY BlocksFinite
<1>1. T \in SUBSET Blocks /\ b \in T
  <2>1. b \in Nat /\ b >= b
    BY <1>0
  <2> QED BY <2>1
<1>2. Least(T) = b
  <2>1. T \subseteq Nat /\ T # {}
    BY <1>0, <1>1
  <2>2. Least(T) \in T /\ \A c \in T : Least(T) <= c
    BY <2>1, LeastOf
  <2> HIDE DEF T
  <2>3. Least(T) <= b
    BY <1>1, <2>2
  <2> QED BY <1>0, <1>1, <2>1, <2>2, <2>3 DEF T
<1>3. Visited(Linked(m, T), b) = T
  <2> HIDE DEF T
  <2> QED BY <1>1, <1>2, LinkedIsChain
<1>4. ASSUME NEW c \in T PROVE Linked(m, S)[c] = Linked(m, T)[c]
  <2>1. c \in S /\ c \in Blocks
    OBVIOUS
  <2>2. After(S, c) = After(T, c)
    <3>1. ASSUME NEW d \in S, d > c PROVE d >= b
      <4>1. c >= b /\ c \in Nat /\ d \in Nat /\ b \in Nat
        BY <1>0, <2>1
      <4> QED BY <3>1, <4>1
    <3> QED BY <3>1 DEF After
  <2> HIDE DEF T
  <2> QED BY <2>1, <2>2 DEF Linked
<1> HIDE DEF T
<1>5. Visited(Linked(m, S), b) = T
  BY <1>1, <1>3, <1>4, VisitedFrame
<1> QED BY <1>5 DEF T

\* A walk meets the blocks allocate has linked from the lowest up.
LEMMA LinkedOrder ==
  ASSUME Addressable, NEW m, NEW S \in SUBSET Blocks, NEW i \in 1 .. Cardinality(S)
  PROVE  LET b == ChainSeq(Linked(m, S), Least(S))[i]
         IN  b \in S /\ PlaceOf(S, b) = i
<1> DEFINE o == Linked(m, S)
           s == Least(S)
           b == ChainSeq(o, s)[i]
<1>0. IsFiniteSet(S) /\ Cardinality(S) \in Nat
  BY BlocksFinite, FS_Subset, FS_CardinalityType
<1>1. S # {} /\ IsFiniteSet(S) /\ Cardinality(S) \in Nat
  BY <1>0, FS_EmptySet
<1>2. Visited(o, s) = S /\ ChainOk(o, s)
  BY <1>1, LinkedIsChain
<1>3. ChainLen(o, s) = Cardinality(S)
  BY <1>2 DEF ChainLen
<1> HIDE DEF o, s
<1>4. b \in S /\ ChainLen(o, b) = Cardinality(S) - i + 1
  BY <1>2, <1>3, ChainSeqBlock
<1> HIDE DEF b
<1>5. ChainLen(o, b) = Cardinality({c \in S : c >= b})
  BY <1>4, LinkedRest DEF ChainLen, o
<1>6. /\ PlaceOf(S, b) \in 1 .. Cardinality(S)
      /\ Cardinality({c \in S : c >= b}) = Cardinality(S) - PlaceOf(S, b) + 1
  BY <1>4, PlaceAndRest
<1>7. PlaceOf(S, b) = i
  BY <1>1, <1>4, <1>5, <1>6
<1> QED BY <1>4, <1>7 DEF b, o, s

-----------------------------------------------------------------------------
(***************************************************************************)
(* Functions defined step by step.                                         *)
(***************************************************************************)
Follows(f, S, base, n, step) ==
  f \in [0 .. n -> S] /\ f[0] = base /\ \A i \in 1 .. n : f[i] = step[<<f[i - 1], i>>]

\* A step that stays within a set defines a function on 0 .. n.
LEMMA StepByStep ==
  ASSUME NEW S, NEW base \in S, NEW n \in Nat, NEW step,
         \A x \in S, i \in 1 .. n : step[<<x, i>>] \in S
  PROVE  \E f : Follows(f, S, base, n, step)
<1> DEFINE Good(f, k) == /\ f \in [0 .. k -> S] /\ f[0] = base
                         /\ \A i \in 1 .. k : f[i] = step[<<f[i - 1], i>>]
           P == {k \in Nat : k <= n => \E f : Good(f, k)}
<1>1. 0 \in P
  <2>1. Good([i \in 0 .. 0 |-> base], 0)
    OBVIOUS
  <2> QED BY <2>1
<1>2. ASSUME NEW k \in P PROVE k + 1 \in P
  <2>1. SUFFICES ASSUME k + 1 <= n PROVE \E f : Good(f, k + 1)
    OBVIOUS
  <2>2. PICK f : Good(f, k)
    BY <2>1
  <2> DEFINE g == [i \in 0 .. k + 1 |-> IF i = k + 1 THEN step[<<f[k], k + 1>>] ELSE f[i]]
  <2>3. f[k] \in S /\ k + 1 \in 1 .. n
    BY <2>1, <2>2
  <2>4. g \in [0 .. k + 1 -> S]
    BY <2>2, <2>3
  <2>5. g[0] = base
    BY <2>2
  <2>6. ASSUME NEW i \in 1 .. k + 1 PROVE g[i] = step[<<g[i - 1], i>>]
    <3>1. i - 1 \in 0 .. k /\ g[i - 1] = f[i - 1]
      OBVIOUS
    <3>2. CASE i = k + 1
      <4>1. g[i] = step[<<f[k], k + 1>>]
        BY <3>2
      <4>2. i - 1 = k
        BY <3>2
      <4> HIDE DEF g, Good, P
      <4> QED BY <3>1, <3>2, <4>1, <4>2
    <3>3. CASE i # k + 1
      <4>1. i \in 1 .. k /\ g[i] = f[i]
        BY <3>3
      <4>2. f[i] = step[<<f[i - 1], i>>]
        BY <2>2, <4>1
      <4> HIDE DEF g, Good
      <4> QED BY <3>1, <4>1, <4>2, Zenon
    <3> QED BY <3>2, <3>3
  <2>7. Good(g, k + 1)
    BY <2>4, <2>5, <2>6
  <2> QED BY <2>7
<1> HIDE DEF P
<1>3. P = Nat
  <2>1. P \subseteq Nat
    BY DEF P
  <2> QED BY <1>1, <1>2, <2>1, SetInduction
<1>4. n \in P /\ n <= n
  BY <1>3
<1>5. \E f : Good(f, n)
  <2> HIDE DEF Good
  <2> QED BY <1>4 DEF P
<1> QED BY <1>5 DEF Follows

-----------------------------------------------------------------------------
(***************************************************************************)
(* The plan.                                                               *)
(***************************************************************************)
Named(e)    == NameLen[e.name] \in Nat
Writable(e) == EntryLen(e) \in FixedLen .. SectorLen

\* An entry has room for its fixed part.
LEMMA EntryLenIs ==
  ASSUME NEW e, Named(e)
  PROVE  EntryLen(e) \in Nat /\ EntryLen(e) >= FixedLen
BY DirectoryAssumption DEF Named, EntryLen, EntryLenFor

PlanType == [sector : Nat \ {0}, off : Nat]

\* plan is what its loop says.
LEMMA PlanIs ==
  ASSUME NEW E, NEW es \in Seq(E), \A i \in 1 .. Len(es) : EntryLen(es[i]) \in Nat
  PROVE  /\ Plan(es) \in [0 .. Len(es) -> PlanType]
         /\ Plan(es)[0] = [sector |-> 1, off |-> 0]
         /\ \A i \in 1 .. Len(es) : Plan(es)[i] = Placed(Plan(es)[i - 1], es[i])
<1> DEFINE n == Len(es)
           start == [sector |-> 1, off |-> 0]
           Body(f) == [i \in 0 .. n |-> IF i = 0 THEN start ELSE Placed(f[i - 1], es[i])]
           step == [p \in PlanType \X (1 .. n) |-> Placed(p[1], es[p[2]])]
<1>1. n \in Nat /\ start \in PlanType
  BY DEF PlanType
<1>2. ASSUME NEW x \in PlanType, NEW i \in 1 .. n PROVE Placed(x, es[i]) \in PlanType
  BY DirectoryAssumption DEF Placed, PlanType
<1>3. ASSUME NEW x \in PlanType, NEW i \in 1 .. n PROVE step[<<x, i>>] = Placed(x, es[i])
  OBVIOUS
<1> HIDE DEF step
<1>4. PICK f \in [0 .. n -> PlanType] :
        f[0] = start /\ \A i \in 1 .. n : f[i] = step[<<f[i - 1], i>>]
  <2>1. \A x \in PlanType, i \in 1 .. n : step[<<x, i>>] \in PlanType
    BY <1>2, <1>3
  <2> DEFINE T == PlanType
  <2> HIDE DEF n, start, T
  <2>2. start \in T /\ n \in Nat /\ \A x \in T, i \in 1 .. n : step[<<x, i>>] \in T
    BY <1>1, <2>1 DEF T
  <2>3. \E f : Follows(f, T, start, n, step)
    BY <2>2, StepByStep
  <2> QED BY <2>3 DEF Follows, T
<1>5. f = Body(f)
  <2>1. ASSUME NEW i \in 0 .. n PROVE f[i] = IF i = 0 THEN start ELSE Placed(f[i - 1], es[i])
    <3>1. CASE i = 0
      BY <1>4, <3>1
    <3>2. CASE i # 0
      <4>1. i \in 1 .. n /\ i - 1 \in 0 .. n /\ f[i - 1] \in PlanType
        BY <3>2
      <4> QED BY <1>3, <1>4, <3>2, <4>1
    <3> QED BY <3>1, <3>2
  <2> HIDE DEF start, n
  <2> QED BY <2>1
<1> DEFINE g == CHOOSE h : h = Body(h)
<1>6. g = Body(g)
  <2> HIDE DEF Body
  <2> QED BY <1>5
<1>7. Plan(es) = g
  BY DEF Plan
<1> HIDE DEF g
<1>8. g[0] = start /\ \A i \in 1 .. n : g[i] = Placed(g[i - 1], es[i])
  <2>1. 0 \in 0 .. n /\ \A i \in 1 .. n : i \in 0 .. n /\ i # 0
    BY <1>1
  <2> HIDE DEF n, start
  <2> QED BY <1>6, <2>1
<1>9. ASSUME NEW i \in 0 .. n PROVE g[i] \in PlanType
  <2> DEFINE P == {k \in Nat : k <= n => g[k] \in PlanType}
  <2>1. 0 \in P
    BY <1>1, <1>8
  <2>2. ASSUME NEW k \in P PROVE k + 1 \in P
    <3>1. SUFFICES ASSUME k + 1 <= n PROVE g[k + 1] \in PlanType
      OBVIOUS
    <3>2. k + 1 \in 1 .. n /\ (k + 1) - 1 = k /\ g[k] \in PlanType
      BY <3>1
    <3> QED BY <1>2, <1>8, <3>2
  <2> HIDE DEF P
  <2>3. P = Nat
    <3>1. P \subseteq Nat
      BY DEF P
    <3> QED BY <2>1, <2>2, <3>1, SetInduction
  <2> QED BY <2>3 DEF P
<1>10. g \in [0 .. n -> PlanType]
  <2>1. g = [i \in 0 .. n |-> g[i]]
    BY <1>6
  <2> HIDE DEF n
  <2> QED BY <1>9, <2>1
<1> QED BY <1>7, <1>8, <1>10
\* One step of the plan, without the abbreviations of Placed.
LEMMA PlacedIs ==
  ASSUME NEW at \in PlanType, NEW e, EntryLen(e) \in Nat
  PROVE  /\ at.off + EntryLen(e) > SectorLen =>
              Placed(at, e).sector = at.sector + 1 /\ Placed(at, e).off = EntryLen(e)
         /\ at.off + EntryLen(e) <= SectorLen =>
              Placed(at, e).sector = at.sector /\ Placed(at, e).off = at.off + EntryLen(e)
<1>1. at.off \in Nat /\ at.sector \in Nat /\ SectorLen \in Nat
  BY DirectoryAssumption DEF PlanType
<1> QED BY <1>1 DEF Placed

\* Entries es lie in n sectors in their order: the i-th in sector sec[i], where it ends
\* with byte end[i].
LaidOut(es, n, sec, end) ==
  /\ \A i \in 1 .. Len(es) :
       /\ EntryLen(es[i]) \in Nat /\ sec[i] \in 1 .. n
       /\ end[i] \in EntryLen(es[i]) .. SectorLen
  /\ \A i \in 1 .. Len(es) - 1 :
       \/ sec[i] < sec[i + 1]
       \/ sec[i] = sec[i + 1] /\ end[i] + EntryLen(es[i + 1]) <= end[i + 1]

\* Behind what lies behind is behind.
LEMMA TwoPlacesOn ==
  ASSUME NEW a \in Int, NEW b \in Int, NEW c \in Int, NEW x \in Int, NEW y \in Int, NEW z \in Int,
         NEW p \in Nat, NEW q \in Nat,
         a < b \/ (a = b /\ x + p <= y),
         b < c \/ (b = c /\ y + q <= z)
  PROVE  a < c \/ (a = c /\ x + q <= z)
OBVIOUS

\* However entries are laid out in their order, plan is never behind.
LEMMA LaidOutFits ==
  ASSUME NEW E, NEW es \in Seq(E), NEW n \in Nat, NEW sec, NEW end, LaidOut(es, n, sec, end)
  PROVE  Fits(es, n)
<1> DEFINE at == Plan(es)
           L == Len(es)
           Room(i) == \/ at[i - 1].sector < sec[i]
                      \/ at[i - 1].sector = sec[i] /\ at[i - 1].off + EntryLen(es[i]) <= end[i]
           Ahead(i) == \/ at[i].sector < sec[i]
                       \/ at[i].sector = sec[i] /\ at[i].off <= end[i]
<1>1. /\ at \in [0 .. L -> PlanType] /\ at[0] = [sector |-> 1, off |-> 0]
      /\ \A i \in 1 .. L : at[i] = Placed(at[i - 1], es[i])
  <2>1. \A i \in 1 .. Len(es) : EntryLen(es[i]) \in Nat
    BY DEF LaidOut
  <2> QED BY <2>1, PlanIs
<1> HIDE DEF at
<1>2. L \in Nat /\ SectorLen \in Nat
  BY DirectoryAssumption
<1>3. ASSUME NEW i \in 1 .. L
      PROVE  /\ EntryLen(es[i]) \in Nat /\ sec[i] \in Nat /\ sec[i] >= 1 /\ sec[i] <= n
             /\ end[i] \in Nat /\ EntryLen(es[i]) <= end[i] /\ end[i] <= SectorLen
             /\ at[i] = Placed(at[i - 1], es[i]) /\ at[i - 1] \in PlanType
             /\ at[i - 1].sector \in Nat /\ at[i - 1].off \in Nat
  <2>1. EntryLen(es[i]) \in Nat /\ sec[i] \in 1 .. n /\ end[i] \in EntryLen(es[i]) .. SectorLen
    BY DEF LaidOut
  <2>2. at[i - 1] \in PlanType
    BY <1>1, <1>2
  <2> QED BY <1>1, <1>2, <2>1, <2>2 DEF PlanType
<1>4. ASSUME NEW i \in 1 .. L, Room(i) PROVE Ahead(i)
  <2> DEFINE p == at[i - 1]
             l == EntryLen(es[i])
  <2>1. /\ p \in PlanType /\ p.sector \in Nat /\ p.off \in Nat /\ l \in Nat
        /\ sec[i] \in Nat /\ end[i] \in Nat /\ l <= end[i] /\ end[i] <= SectorLen
        /\ at[i] = Placed(p, es[i])
    BY <1>3
  <2>2. CASE p.off + l > SectorLen
    <3>1. at[i].sector = p.sector + 1 /\ at[i].off = l
      BY <2>1, <2>2, PlacedIs
    <3>2. p.sector < sec[i]
      BY <1>2, <1>4, <2>1, <2>2
    <3> QED BY <2>1, <3>1, <3>2
  <2>3. CASE p.off + l <= SectorLen
    <3>1. at[i].sector = p.sector /\ at[i].off = p.off + l
      BY <2>1, <2>3, PlacedIs
    <3> QED BY <1>4, <2>1, <3>1
  <2> QED BY <1>2, <2>1, <2>2, <2>3
<1>5. \A i \in 1 .. L : Ahead(i)
  <2> DEFINE P == {k \in Nat : k + 1 <= L => Ahead(k + 1)}
  <2>1. 0 \in P
    <3>1. SUFFICES ASSUME 1 <= L PROVE Ahead(1)
      OBVIOUS
    <3>2. 1 \in 1 .. L /\ at[1 - 1].sector = 1 /\ at[1 - 1].off = 0
      BY <1>1, <1>2, <3>1
    <3>3. /\ EntryLen(es[1]) \in Nat /\ sec[1] \in Nat /\ sec[1] >= 1
          /\ EntryLen(es[1]) <= end[1] /\ end[1] \in Nat
      BY <1>3, <3>2
    <3>4. Room(1)
      BY <3>2, <3>3
    <3> HIDE DEF Ahead, Room
    <3> QED BY <1>4, <3>2, <3>4
  <2>2. ASSUME NEW k \in P PROVE k + 1 \in P
    <3>1. SUFFICES ASSUME (k + 1) + 1 <= L PROVE Ahead((k + 1) + 1)
      OBVIOUS
    <3> DEFINE i == k + 1
               j == i + 1
    <3>2. k \in Nat /\ i \in 1 .. L /\ j \in 1 .. L /\ i \in 1 .. L - 1 /\ j - 1 = i
      BY <1>2, <3>1
    <3>3. Ahead(i)
      BY <3>2
    <3>4. \/ sec[i] < sec[j]
          \/ sec[i] = sec[j] /\ end[i] + EntryLen(es[j]) <= end[j]
      BY <3>2 DEF LaidOut
    <3> HIDE DEF i
    <3>5. /\ at[i].sector \in Nat /\ at[i].off \in Nat /\ EntryLen(es[j]) \in Nat
          /\ sec[i] \in Nat /\ end[i] \in Nat /\ sec[j] \in Nat /\ end[j] \in Nat
      BY <1>3, <3>2
    <3> HIDE DEF j
    <3>6. \/ at[i].sector < sec[j]
          \/ at[i].sector = sec[j] /\ at[i].off + EntryLen(es[j]) <= end[j]
      BY <3>3, <3>4, <3>5
    <3>8. Room(j)
      BY <3>2, <3>6
    <3> HIDE DEF Ahead, Room
    <3>7. Ahead(j)
      BY <1>4, <3>2, <3>8
    <3> QED BY <3>7 DEF i, j
  <2> HIDE DEF P, Ahead
  <2>3. P = Nat
    <3>1. P \subseteq Nat
      BY DEF P
    <3> QED BY <2>1, <2>2, <3>1, SetInduction
  <2>4. ASSUME NEW i \in 1 .. L PROVE Ahead(i)
    <3>1. i - 1 \in P /\ (i - 1) + 1 = i /\ i <= L
      BY <1>2, <2>3
    <3>2. (i - 1) + 1 <= L => Ahead((i - 1) + 1)
      BY <3>1 DEF P
    <3> QED BY <3>1, <3>2
  <2> QED BY <2>4
<1>6. CASE L = 0
  BY <1>6 DEF Fits
<1>7. CASE L # 0
  <2>1. L \in 1 .. L
    BY <1>2, <1>7
  <2>0. Ahead(L)
    <3> HIDE DEF Ahead
    <3> QED BY <1>5, <2>1
  <2>2. Ahead(L) /\ sec[L] \in Nat /\ sec[L] <= n /\ at[L] \in PlanType
    <3>1. L \in 0 .. L
      BY <1>2
    <3>2. sec[L] \in Nat /\ sec[L] <= n
      BY <1>3, <2>1
    <3>3. at[L] \in PlanType
      BY <1>1, <3>1
    <3> QED BY <2>0, <3>2, <3>3
  <2>3. at[L].sector \in Nat
    BY <2>2 DEF PlanType
  <2>4. at[L].sector <= n
    BY <2>2, <2>3
  <2> QED BY <2>4 DEF Fits, at
<1> QED BY <1>6, <1>7
\* The plan itself lays the entries out, in a sector of its own each at worst.
LEMMA PlanLaysOut ==
  ASSUME NEW E, NEW es \in Seq(E), NEW n \in Nat, Fits(es, n),
         \A i \in 1 .. Len(es) : Writable(es[i])
  PROVE  /\ LaidOut(es, n, [i \in 1 .. Len(es) |-> Plan(es)[i].sector],
                           [i \in 1 .. Len(es) |-> Plan(es)[i].off])
         /\ \A i \in 1 .. Len(es) - 1 :
              \/ /\ Plan(es)[i + 1].sector = Plan(es)[i].sector
                 /\ Plan(es)[i + 1].off = Plan(es)[i].off + EntryLen(es[i + 1])
              \/ /\ Plan(es)[i + 1].sector = Plan(es)[i].sector + 1
                 /\ Plan(es)[i + 1].off = EntryLen(es[i + 1])
         /\ Len(es) > 0 => Plan(es)[1].sector = 1 /\ Plan(es)[1].off = EntryLen(es[1])
<1> DEFINE at == Plan(es)
           L == Len(es)
           l(i) == EntryLen(es[i])
<1>1. ASSUME NEW i \in 1 .. L PROVE l(i) \in Nat /\ l(i) <= SectorLen
  <2>1. Writable(es[i])
    OBVIOUS
  <2> QED BY <2>1, DirectoryAssumption DEF Writable
<1>2. /\ at \in [0 .. L -> PlanType] /\ at[0] = [sector |-> 1, off |-> 0]
      /\ \A i \in 1 .. L : at[i] = Placed(at[i - 1], es[i])
  <2>1. \A i \in 1 .. Len(es) : EntryLen(es[i]) \in Nat
    BY <1>1
  <2> QED BY <2>1, PlanIs
<1> HIDE DEF at
<1>3. L \in Nat /\ SectorLen \in Nat
  BY DirectoryAssumption
<1>4. ASSUME NEW i \in 0 .. L PROVE at[i].sector \in Nat /\ at[i].sector >= 1 /\ at[i].off \in Nat
  BY <1>2 DEF PlanType
<1>5. ASSUME NEW i \in 1 .. L
      PROVE  /\ \/ at[i].sector = at[i - 1].sector /\ at[i].off = at[i - 1].off + l(i)
                \/ at[i].sector = at[i - 1].sector + 1 /\ at[i].off = l(i)
             /\ l(i) <= at[i].off /\ at[i].off <= SectorLen
  <2>1. i - 1 \in 0 .. L /\ at[i - 1] \in PlanType /\ at[i] = Placed(at[i - 1], es[i])
    BY <1>2, <1>3
  <2>2. at[i - 1].off \in Nat /\ at[i - 1].sector \in Nat /\ l(i) \in Nat /\ l(i) <= SectorLen
    BY <1>1, <1>4, <2>1
  <2> DEFINE p == at[i - 1]
             q == at[i]
  <2>3. q = Placed(p, es[i]) /\ p.off \in Nat /\ p.sector \in Nat /\ EntryLen(es[i]) \in Nat
    BY <2>1, <2>2
  <2>4. EntryLen(es[i]) <= SectorLen /\ SectorLen \in Nat
    BY <1>3, <2>2
  <2> HIDE DEF p, q
  <2>5. /\ \/ q.sector = p.sector /\ q.off = p.off + EntryLen(es[i])
           \/ q.sector = p.sector + 1 /\ q.off = EntryLen(es[i])
        /\ EntryLen(es[i]) <= q.off /\ q.off <= SectorLen
    BY <2>3, <2>4 DEF Placed
  <2> QED BY <2>5 DEF p, q
<1>6. \A d \in Nat : d <= L => at[L - d].sector <= at[L].sector
  <2> DEFINE P == {d \in Nat : d <= L => at[L - d].sector <= at[L].sector}
  <2>1. 0 \in P
    BY <1>3, <1>4
  <2>2. ASSUME NEW d \in P PROVE d + 1 \in P
    <3>1. SUFFICES ASSUME d + 1 <= L PROVE at[L - (d + 1)].sector <= at[L].sector
      OBVIOUS
    <3> DEFINE i == L - d
    <3>2. i \in 1 .. L /\ i \in 0 .. L /\ i - 1 \in 0 .. L /\ L \in 0 .. L /\ L - (d + 1) = i - 1
      BY <1>3, <3>1
    <3>3. at[i].sector <= at[L].sector
      BY <3>1
    <3> HIDE DEF i
    <3>4. at[i - 1].sector <= at[i].sector
      BY <1>4, <1>5, <3>2
    <3>5. at[i - 1].sector \in Nat /\ at[i].sector \in Nat /\ at[L].sector \in Nat
      BY <1>4, <3>2
    <3> QED BY <3>2, <3>3, <3>4, <3>5
  <2> HIDE DEF P
  <2>3. P = Nat
    <3>1. P \subseteq Nat
      BY DEF P
    <3> QED BY <2>1, <2>2, <3>1, SetInduction
  <2> QED BY <2>3 DEF P
<1>7. ASSUME NEW i \in 1 .. L PROVE at[i].sector <= n
  <2>1. L \in 0 .. L /\ i \in 0 .. L /\ L - i \in Nat /\ L - i <= L /\ L - (L - i) = i
    BY <1>3
  <2>2. at[i].sector <= at[L].sector
    BY <1>6, <2>1
  <2>3. es # <<>>
    BY <1>3
  <2>4. at[L].sector <= n
    BY <2>3 DEF Fits, at
  <2>5. at[i].sector \in Nat /\ at[L].sector \in Nat
    BY <1>4, <2>1
  <2> QED BY <2>2, <2>4, <2>5
<1> DEFINE sec == [i \in 1 .. L |-> at[i].sector]
           end == [i \in 1 .. L |-> at[i].off]
<1>8. LaidOut(es, n, sec, end)
  <2>1. ASSUME NEW i \in 1 .. L
        PROVE  EntryLen(es[i]) \in Nat /\ sec[i] \in 1 .. n /\ end[i] \in EntryLen(es[i]) .. SectorLen
    <3>1. i \in 0 .. L
      BY <1>3
    <3>2. sec[i] \in Nat /\ sec[i] >= 1 /\ end[i] \in Nat
      BY <1>4, <3>1
    <3>3. sec[i] <= n /\ EntryLen(es[i]) <= end[i] /\ end[i] <= SectorLen
      BY <1>5, <1>7
    <3> QED BY <1>1, <1>3, <3>2, <3>3
  <2>2. ASSUME NEW i \in 1 .. L - 1
        PROVE  \/ sec[i] < sec[i + 1]
               \/ sec[i] = sec[i + 1] /\ end[i] + EntryLen(es[i + 1]) <= end[i + 1]
    <3>1. i \in 1 .. L /\ i + 1 \in 1 .. L /\ (i + 1) - 1 = i /\ i \in 0 .. L
      BY <1>3
    <3> DEFINE j == i + 1
    <3>2. sec[i] = at[i].sector /\ end[i] = at[i].off /\ sec[j] = at[j].sector /\ end[j] = at[j].off
      BY <3>1
    <3> HIDE DEF sec, end, j
    <3>3. \/ at[j].sector = at[i].sector /\ at[j].off = at[i].off + l(j)
          \/ at[j].sector = at[i].sector + 1 /\ at[j].off = l(j)
      BY <1>5, <3>1 DEF j
    <3>4. at[i].sector \in Nat /\ at[i].off \in Nat /\ l(j) \in Nat
      BY <1>1, <1>4, <3>1 DEF j
    <3>5. \/ sec[i] < sec[j]
          \/ sec[i] = sec[j] /\ end[i] + EntryLen(es[j]) <= end[j]
      BY <3>2, <3>3, <3>4
    <3> QED BY <3>5 DEF j
  <2> HIDE DEF sec, end
  <2> QED BY <2>1, <2>2 DEF LaidOut
<1>9. ASSUME NEW i \in 1 .. L - 1
      PROVE  \/ at[i + 1].sector = at[i].sector /\ at[i + 1].off = at[i].off + l(i + 1)
             \/ at[i + 1].sector = at[i].sector + 1 /\ at[i + 1].off = l(i + 1)
  <2>1. i + 1 \in 1 .. L /\ (i + 1) - 1 = i
    BY <1>3
  <2> QED BY <1>5, <2>1
<1>10. ASSUME L > 0 PROVE at[1].sector = 1 /\ at[1].off = l(1)
  <2>1. 1 \in 1 .. L
    BY <1>3, <1>10
  <2>2. at[1] = Placed([sector |-> 1, off |-> 0], es[1]) /\ [sector |-> 1, off |-> 0] \in PlanType
    BY <1>2, <2>1 DEF PlanType
  <2>3. l(1) \in Nat /\ l(1) <= SectorLen
    BY <1>1, <2>1
  <2> QED BY <2>2, <2>3, <1>3, PlacedIs
<1>11. /\ \A i \in 1 .. L - 1 :
             \/ at[i + 1].sector = at[i].sector /\ at[i + 1].off = at[i].off + l(i + 1)
             \/ at[i + 1].sector = at[i].sector + 1 /\ at[i + 1].off = l(i + 1)
       /\ L > 0 => at[1].sector = 1 /\ at[1].off = l(1)
  BY <1>9, <1>10
<1> QED BY <1>8, <1>11 DEF at

\* Entries under names of the same length, or shorter ones, fit where those fit.
LEMMA ShorterFit ==
  ASSUME NEW E, NEW es \in Seq(E), NEW F, NEW fs \in Seq(F), NEW n \in Nat, Fits(es, n),
         \A i \in 1 .. Len(es) : Writable(es[i]),
         Len(fs) = Len(es),
         \A i \in 1 .. Len(es) : EntryLen(fs[i]) \in Nat /\ EntryLen(fs[i]) <= EntryLen(es[i])
  PROVE  Fits(fs, n)
<1> DEFINE sec == [i \in 1 .. Len(es) |-> Plan(es)[i].sector]
           end == [i \in 1 .. Len(es) |-> Plan(es)[i].off]
           L == Len(es)
<1>1. LaidOut(es, n, sec, end)
  BY PlanLaysOut
<1> HIDE DEF sec, end
<1>2. L \in Nat /\ SectorLen \in Nat
  BY DirectoryAssumption
<1>3. ASSUME NEW i \in 1 .. L
      PROVE  /\ EntryLen(es[i]) \in Nat /\ sec[i] \in 1 .. n /\ end[i] \in EntryLen(es[i]) .. SectorLen
             /\ EntryLen(fs[i]) \in Nat /\ EntryLen(fs[i]) <= EntryLen(es[i])
  BY <1>1 DEF LaidOut
<1>4. LaidOut(fs, n, sec, end)
  <2>1. ASSUME NEW i \in 1 .. L
        PROVE  EntryLen(fs[i]) \in Nat /\ sec[i] \in 1 .. n /\ end[i] \in EntryLen(fs[i]) .. SectorLen
    BY <1>2, <1>3
  <2>2. ASSUME NEW i \in 1 .. L - 1
        PROVE  \/ sec[i] < sec[i + 1]
               \/ sec[i] = sec[i + 1] /\ end[i] + EntryLen(fs[i + 1]) <= end[i + 1]
    <3>1. i \in 1 .. L /\ i + 1 \in 1 .. L
      BY <1>2
    <3>2. \/ sec[i] < sec[i + 1]
          \/ sec[i] = sec[i + 1] /\ end[i] + EntryLen(es[i + 1]) <= end[i + 1]
      BY <1>1 DEF LaidOut
    <3>3. /\ EntryLen(fs[i + 1]) \in Nat /\ EntryLen(es[i + 1]) \in Nat
          /\ EntryLen(fs[i + 1]) <= EntryLen(es[i + 1])
          /\ end[i] \in Int /\ end[i + 1] \in Int
      BY <1>2, <1>3, <3>1
    <3> QED BY <3>2, <3>3
  <2> QED BY <2>1, <2>2 DEF LaidOut
<1> QED BY <1>4, LaidOutFits
\* What Vec::remove leaves: one entry less, and those behind it move up.
LEMMA RemovedEntry ==
  ASSUME NEW S, NEW s \in Seq(S), NEW i \in DOMAIN s
  PROVE  /\ RemoveAt(s, i) \in Seq(S)
         /\ Len(RemoveAt(s, i)) = Len(s) - 1
         /\ \A j \in 1 .. Len(s) - 1 :
              RemoveAt(s, i)[j] = IF j < i THEN s[j] ELSE s[j + 1]
<1>1. i \in 1 .. Len(s) /\ Len(s) \in Nat
  OBVIOUS
<1>2. /\ SubSeq(s, 1, i - 1) \in Seq(S) /\ Len(SubSeq(s, 1, i - 1)) = i - 1
      /\ \A j \in 1 .. i - 1 : SubSeq(s, 1, i - 1)[j] = s[j]
  BY <1>1
<1>3. /\ SubSeq(s, i + 1, Len(s)) \in Seq(S) /\ Len(SubSeq(s, i + 1, Len(s))) = Len(s) - i
      /\ \A j \in 1 .. Len(s) - i : SubSeq(s, i + 1, Len(s))[j] = s[i + j]
  BY <1>1
<1> DEFINE a == SubSeq(s, 1, i - 1)
           b == SubSeq(s, i + 1, Len(s))
<1> HIDE DEF a, b
<1>4. RemoveAt(s, i) = a \o b
  BY DEF RemoveAt, a, b
<1>5. a \in Seq(S) /\ Len(a) = i - 1 /\ \A j \in 1 .. i - 1 : a[j] = s[j]
  BY <1>2 DEF a
<1>6. b \in Seq(S) /\ Len(b) = Len(s) - i /\ \A j \in 1 .. Len(s) - i : b[j] = s[i + j]
  BY <1>3 DEF b
<1>7. a \o b \in Seq(S) /\ Len(a \o b) = Len(s) - 1
  BY <1>1, <1>5, <1>6
<1>8. ASSUME NEW j \in 1 .. Len(s) - 1
      PROVE  (a \o b)[j] = IF j < i THEN s[j] ELSE s[j + 1]
  <2>1. CASE j < i
    BY <1>1, <1>5, <1>6, <2>1
  <2>2. CASE ~(j < i)
    <3>1. j - (i - 1) \in 1 .. Len(s) - i /\ i + (j - (i - 1)) = j + 1
      BY <1>1, <2>2
    <3>2. (a \o b)[j] = b[j - (i - 1)]
      <4>1. /\ a \in Seq(S) /\ b \in Seq(S) /\ Len(a) = i - 1 /\ Len(b) = Len(s) - i
            /\ j \in 1 .. (i - 1) + (Len(s) - i) /\ j > i - 1
        BY <1>1, <1>5, <1>6, <2>2
      <4> QED BY <4>1
    <3> QED BY <1>6, <2>2, <3>1, <3>2
  <2> QED BY <2>1, <2>2
<1> QED BY <1>4, <1>7, <1>8

\* The entries that are left when one has gone fit where all of them did: those behind it
\* can stay where they were.
LEMMA ThinnedFit ==
  ASSUME NEW E, NEW es \in Seq(E), NEW n \in Nat, Fits(es, n),
         \A i \in 1 .. Len(es) : Writable(es[i]), NEW r \in DOMAIN es
  PROVE  Fits(RemoveAt(es, r), n)
<1> DEFINE sec == [i \in 1 .. Len(es) |-> Plan(es)[i].sector]
           end == [i \in 1 .. Len(es) |-> Plan(es)[i].off]
           L == Len(es)
           fs == RemoveAt(es, r)
           o(i) == IF i < r THEN i ELSE i + 1
           fsec == [i \in 1 .. L - 1 |-> sec[o(i)]]
           fend == [i \in 1 .. L - 1 |-> end[o(i)]]
<1>1. LaidOut(es, n, sec, end)
  BY PlanLaysOut
<1> HIDE DEF sec, end
<1>2. L \in Nat /\ SectorLen \in Nat /\ r \in 1 .. L
  BY DirectoryAssumption
<1>3. fs \in Seq(E) /\ Len(fs) = L - 1 /\ \A i \in 1 .. L - 1 : fs[i] = es[o(i)]
  <2>1. /\ RemoveAt(es, r) \in Seq(E) /\ Len(RemoveAt(es, r)) = Len(es) - 1
        /\ \A j \in 1 .. Len(es) - 1 : RemoveAt(es, r)[j] = IF j < r THEN es[j] ELSE es[j + 1]
    BY RemovedEntry
  <2> HIDE DEF fs
  <2> QED BY <2>1 DEF fs
<1> HIDE DEF fs
<1>4. ASSUME NEW i \in 1 .. L
      PROVE  EntryLen(es[i]) \in Nat /\ sec[i] \in 1 .. n /\ end[i] \in EntryLen(es[i]) .. SectorLen
  BY <1>1 DEF LaidOut
<1>5. ASSUME NEW i \in 1 .. L - 1
      PROVE  \/ sec[i] < sec[i + 1]
             \/ sec[i] = sec[i + 1] /\ end[i] + EntryLen(es[i + 1]) <= end[i + 1]
  BY <1>1 DEF LaidOut
<1>6. ASSUME NEW i \in 1 .. L - 1
      PROVE  /\ o(i) \in 1 .. L /\ fs[i] = es[o(i)] /\ fsec[i] = sec[o(i)] /\ fend[i] = end[o(i)]
  BY <1>2, <1>3
<1> HIDE DEF fsec, fend
<1>7. LaidOut(fs, n, fsec, fend)
  <2>1. ASSUME NEW i \in 1 .. L - 1
        PROVE  /\ EntryLen(fs[i]) \in Nat /\ fsec[i] \in 1 .. n
               /\ fend[i] \in EntryLen(fs[i]) .. SectorLen
    <3> HIDE DEF o
    <3> QED BY <1>4, <1>6
  <2>2. ASSUME NEW i \in 1 .. (L - 1) - 1
        PROVE  \/ fsec[i] < fsec[i + 1]
               \/ fsec[i] = fsec[i + 1] /\ fend[i] + EntryLen(fs[i + 1]) <= fend[i + 1]
    <3>1. i \in 1 .. L - 1 /\ i + 1 \in 1 .. L - 1 /\ i \in Nat
      BY <1>2
    <3>2. CASE i + 1 # r
      <4>1. o(i + 1) = o(i) + 1 /\ o(i) \in 1 .. L - 1
        BY <1>2, <3>1, <3>2
      <4> HIDE DEF o
      <4>2. /\ fsec[i] = sec[o(i)] /\ fend[i] = end[o(i)]
            /\ fsec[i + 1] = sec[o(i) + 1] /\ fend[i + 1] = end[o(i) + 1] /\ fs[i + 1] = es[o(i) + 1]
        <5>1. fsec[i] = sec[o(i)] /\ fend[i] = end[o(i)]
          BY <1>6, <3>1
        <5>2. /\ fsec[i + 1] = sec[o(i + 1)] /\ fend[i + 1] = end[o(i + 1)]
              /\ fs[i + 1] = es[o(i + 1)]
          BY <1>6, <3>1
        <5> QED BY <4>1, <5>1, <5>2
      <4> QED BY <1>5, <4>1, <4>2
    <3>3. CASE i + 1 = r
      <4> DEFINE j == i + 1
                 k == j + 1
      <4>1. /\ o(i) = i /\ o(j) = k /\ j \in 1 .. L - 1 /\ i \in 1 .. L /\ j \in 1 .. L /\ k \in 1 .. L
        BY <1>2, <3>1, <3>3
      <4>2. /\ fsec[i] = sec[i] /\ fend[i] = end[i]
            /\ fsec[j] = sec[k] /\ fend[j] = end[k] /\ fs[j] = es[k]
        <5> HIDE DEF o, j, k
        <5>1. /\ fsec[i] = sec[o(i)] /\ fend[i] = end[o(i)]
          BY <1>6, <3>1
        <5>2. fsec[j] = sec[o(j)] /\ fend[j] = end[o(j)] /\ fs[j] = es[o(j)]
          BY <1>6, <4>1
        <5> QED BY <4>1, <5>1, <5>2
      <4>3. \/ sec[i] < sec[j]
            \/ sec[i] = sec[j] /\ end[i] + EntryLen(es[j]) <= end[j]
        BY <1>5, <3>1
      <4>4. \/ sec[j] < sec[k]
            \/ sec[j] = sec[k] /\ end[j] + EntryLen(es[k]) <= end[k]
        BY <1>5, <4>1
      <4> HIDE DEF j, k
      <4>5. /\ sec[i] \in Int /\ sec[j] \in Int /\ sec[k] \in Int
            /\ end[i] \in Int /\ end[j] \in Int /\ end[k] \in Int
            /\ EntryLen(es[j]) \in Nat /\ EntryLen(es[k]) \in Nat
        <5>1. ASSUME NEW x \in 1 .. L PROVE sec[x] \in Int /\ end[x] \in Int /\ EntryLen(es[x]) \in Nat
          BY <1>2, <1>4
        <5> QED BY <4>1, <5>1
      <4> HIDE DEF fs, fsec, fend
      <4>6. \/ fsec[i] < fsec[j]
            \/ fsec[i] = fsec[j] /\ fend[i] + EntryLen(fs[j]) <= fend[j]
        <5>1. /\ fsec[i] = sec[i] /\ fsec[j] = sec[k]
              /\ fend[i] = end[i] /\ fend[j] = end[k] /\ fs[j] = es[k]
          BY <4>2
        <5>2. \/ sec[i] < sec[k]
              \/ sec[i] = sec[k] /\ end[i] + EntryLen(es[k]) <= end[k]
          <6> DEFINE a == sec[i]
                     b == sec[j]
                     c == sec[k]
                     x == end[i]
                     y == end[j]
                     z == end[k]
                     u == EntryLen(es[j])
                     v == EntryLen(es[k])
          <6>1. a < b \/ (a = b /\ x + u <= y)
            BY <4>3
          <6>2. b < c \/ (b = c /\ y + v <= z)
            BY <4>4
          <6>3. /\ a \in Int /\ b \in Int /\ c \in Int /\ x \in Int /\ y \in Int /\ z \in Int
                /\ u \in Nat /\ v \in Nat
            BY <4>5
          <6> HIDE DEF a, b, c, x, y, z, u, v
          <6>4. a < c \/ (a = c /\ x + v <= z)
            BY <6>1, <6>2, <6>3, TwoPlacesOn
          <6> QED BY <6>4 DEF a, c, x, z, v
        <5> QED BY <5>1, <5>2
      <4> QED BY <4>6 DEF j
    <3> QED BY <3>2, <3>3
  <2> QED BY <1>3, <2>1, <2>2 DEF LaidOut
<1>8. Fits(fs, n)
  BY <1>3, <1>7, LaidOutFits
<1> QED BY <1>8 DEF fs
-----------------------------------------------------------------------------
(***************************************************************************)
(* Reading.                                                                *)
(***************************************************************************)
\* Where slots end is what the parser's position says.
LEMMA EndsIs ==
  ASSUME NEW T, NEW sector \in Seq(T), \A i \in 1 .. Len(sector) : EntryLen(sector[i].e) \in Nat
  PROVE  /\ Ends(sector) \in [0 .. Len(sector) -> Nat]
         /\ Ends(sector)[0] = 0
         /\ \A i \in 1 .. Len(sector) :
              Ends(sector)[i] = Ends(sector)[i - 1] + EntryLen(sector[i].e)
<1> DEFINE n == Len(sector)
           Body(f) == [i \in 0 .. n |-> IF i = 0 THEN 0 ELSE f[i - 1] + EntryLen(sector[i].e)]
           step == [p \in Nat \X (1 .. n) |-> p[1] + EntryLen(sector[p[2]].e)]
<1>1. n \in Nat
  OBVIOUS
<1>2. ASSUME NEW x \in Nat, NEW i \in 1 .. n
      PROVE  x + EntryLen(sector[i].e) \in Nat /\ step[<<x, i>>] = x + EntryLen(sector[i].e)
  OBVIOUS
<1> HIDE DEF step
<1>4. PICK f : f \in [0 .. n -> Nat] /\ f[0] = 0 /\ \A i \in 1 .. n : f[i] = step[<<f[i - 1], i>>]
  <2>1. \A x \in Nat, i \in 1 .. n : step[<<x, i>>] \in Nat
    BY <1>2
  <2> DEFINE Z == 0
             S == Nat
  <2> HIDE DEF n, Z, S
  <2>2. Z \in S /\ n \in Nat /\ \A x \in S, i \in 1 .. n : step[<<x, i>>] \in S
    BY <1>1, <2>1 DEF Z, S
  <2>3. \E f : Follows(f, S, Z, n, step)
    BY <2>2, StepByStep
  <2> QED BY <2>3 DEF Follows, Z, S
<1>5. f = Body(f)
  <2>1. ASSUME NEW i \in 0 .. n PROVE f[i] = IF i = 0 THEN 0 ELSE f[i - 1] + EntryLen(sector[i].e)
    <3>1. CASE i = 0
      BY <1>4, <3>1
    <3>2. CASE i # 0
      <4>1. n \in Nat
        BY <1>1
      <4> HIDE DEF n
      <4>2. i \in 1 .. n /\ i - 1 \in 0 .. n
        BY <3>2, <4>1
      <4>3. f[i - 1] \in Nat
        BY <1>4, <4>2
      <4> QED BY <1>2, <1>4, <3>2, <4>2, <4>3
    <3> QED BY <3>1, <3>2
  <2> HIDE DEF n
  <2> QED BY <1>4, <2>1
<1> DEFINE g == CHOOSE h : h = Body(h)
<1>6. g = Body(g)
  <2> HIDE DEF Body
  <2> QED BY <1>5
<1>7. Ends(sector) = g
  BY DEF Ends
<1> HIDE DEF g
<1>8. g[0] = 0 /\ \A i \in 1 .. n : g[i] = g[i - 1] + EntryLen(sector[i].e)
  <2>1. 0 \in 0 .. n /\ \A i \in 1 .. n : i \in 0 .. n /\ i # 0
    BY <1>1
  <2> HIDE DEF n
  <2> QED BY <1>6, <2>1
<1>9. ASSUME NEW i \in 0 .. n PROVE g[i] \in Nat
  <2> DEFINE P == {k \in Nat : k <= n => g[k] \in Nat}
  <2>1. 0 \in P
    BY <1>8
  <2>2. ASSUME NEW k \in P PROVE k + 1 \in P
    <3>1. SUFFICES ASSUME k + 1 <= n PROVE g[k + 1] \in Nat
      OBVIOUS
    <3>2. k + 1 \in 1 .. n /\ (k + 1) - 1 = k /\ g[k] \in Nat /\ EntryLen(sector[k + 1].e) \in Nat
      BY <3>1
    <3> QED BY <1>8, <3>2
  <2> HIDE DEF P
  <2>3. P = Nat
    <3>1. P \subseteq Nat
      BY DEF P
    <3> QED BY <2>1, <2>2, <3>1, SetInduction
  <2> QED BY <2>3 DEF P
<1>10. g \in [0 .. n -> Nat]
  <2>1. g = [i \in 0 .. n |-> g[i]]
    BY <1>6
  <2> HIDE DEF n
  <2> QED BY <1>9, <2>1
<1> QED BY <1>7, <1>8, <1>10

\* The slots of a finite set take turns: each has one, later ones have greater ones, and
\* no turn is left out.
LEMMA TurnsAre ==
  ASSUME NEW read, IsFiniteSet(read), read \subseteq Nat \X Nat
  PROVE  /\ Cardinality(read) \in Nat
         /\ \A p \in read : Turn(read, p) \in 1 .. Cardinality(read)
         /\ \A p, q \in read : p # q /\ UpTo(p, q) => Turn(read, p) < Turn(read, q)
         /\ \A p, q \in read : Turn(read, p) = Turn(read, q) => p = q
         /\ \A j \in 1 .. Cardinality(read) : \E p \in read : Turn(read, p) = j
<1> DEFINE N == Cardinality(read)
           Up(p) == {q \in read : UpTo(q, p)}
<1>1. N \in Nat
  BY FS_CardinalityType
<1>2. ASSUME NEW p \in read
      PROVE  IsFiniteSet(Up(p)) /\ Cardinality(Up(p)) \in Nat /\ Cardinality(Up(p)) <= N /\ p \in Up(p)
  <2>1. Up(p) \in SUBSET read
    OBVIOUS
  <2>2. p[1] \in Nat /\ p[2] \in Nat
    OBVIOUS
  <2>3. p \in Up(p)
    BY <2>2 DEF UpTo
  <2> HIDE DEF Up
  <2> QED BY <2>1, <2>3, FS_Subset, FS_CardinalityType
<1>3. ASSUME NEW p \in read PROVE Turn(read, p) \in 1 .. N
  <2>1. Turn(read, p) = Cardinality(Up(p))
    BY DEF Turn
  <2>2. Cardinality(Up(p)) # 0
    <3>1. Up(p) # {}
      BY <1>2
    <3> HIDE DEF Up
    <3> QED BY <1>2, <3>1, FS_EmptySet
  <2> HIDE DEF Up
  <2> QED BY <1>1, <1>2, <2>1, <2>2
<1>4. ASSUME NEW p \in read, NEW q \in read, p # q, UpTo(p, q) PROVE Turn(read, p) < Turn(read, q)
  <2>1. /\ p = <<p[1], p[2]>> /\ q = <<q[1], q[2]>>
        /\ p[1] \in Nat /\ p[2] \in Nat /\ q[1] \in Nat /\ q[2] \in Nat
    OBVIOUS
  <2>2. Up(p) \subseteq Up(q)
    <3> SUFFICES ASSUME NEW x \in read, UpTo(x, p) PROVE UpTo(x, q)
      OBVIOUS
    <3>1. x[1] \in Nat /\ x[2] \in Nat
      OBVIOUS
    <3> QED BY <1>4, <2>1, <3>1 DEF UpTo
  <2>3. ~UpTo(q, p)
    <3>1. p[1] # q[1] \/ p[2] # q[2]
      BY <1>4, <2>1
    <3> QED BY <1>4, <2>1, <3>1 DEF UpTo
  <2>4. q \in Up(q) /\ q \notin Up(p)
    BY <1>2, <2>3
  <2>5. Turn(read, p) = Cardinality(Up(p)) /\ Turn(read, q) = Cardinality(Up(q))
    BY DEF Turn
  <2>6. /\ IsFiniteSet(Up(q)) /\ Cardinality(Up(p)) \in Nat /\ Cardinality(Up(q)) \in Nat
    BY <1>2
  <2> HIDE DEF Up
  <2>7. Up(p) # Up(q) /\ Up(p) \in SUBSET Up(q)
    BY <2>2, <2>4
  <2>8. Cardinality(Up(p)) <= Cardinality(Up(q)) /\ (Cardinality(Up(q)) = Cardinality(Up(p)) => Up(q) = Up(p))
    BY <2>6, <2>7, FS_Subset
  <2> QED BY <2>5, <2>6, <2>7, <2>8
<1>5. ASSUME NEW p \in read, NEW q \in read, Turn(read, p) = Turn(read, q) PROVE p = q
  <2>1. p[1] \in Nat /\ p[2] \in Nat /\ q[1] \in Nat /\ q[2] \in Nat
    OBVIOUS
  <2>2. UpTo(p, q) \/ UpTo(q, p)
    BY <2>1 DEF UpTo
  <2>3. Turn(read, p) \in Nat /\ Turn(read, q) \in Nat
    BY <1>1, <1>3
  <2> QED BY <1>4, <1>5, <2>2, <2>3
<1>6. ASSUME NEW j \in 1 .. N PROVE \E p \in read : Turn(read, p) = j
  <2> DEFINE f == [p \in read |-> Turn(read, p)]
             T == 1 .. N
  <2>1. f \in [read -> T] /\ \A p, q \in read : f[p] = f[q] => p = q
    BY <1>3, <1>5
  <2>2. IsFiniteSet(T) /\ Cardinality(T) = N
    BY <1>1, FS_Interval
  <2> HIDE DEF f, T
  <2>3. f \in Injection(read, T)
    BY <2>1 DEF Injection, IsInjective
  <2>4. f \in Surjection(read, T)
    BY <2>2, <2>3, FS_Injection
  <2>5. j \in T
    BY DEF T
  <2>6. \E p \in read : f[p] = j
    BY <2>4, <2>5 DEF Surjection
  <2> QED BY <2>6 DEF f
<1> QED BY <1>1, <1>3, <1>4, <1>5, <1>6
\* The slots read of a region are pairs of numbers, and finitely many.
LEMMA SlotsReadAre ==
  ASSUME NEW T, NEW n \in Nat, NEW region \in [1 .. n -> Seq(T)]
  PROVE  /\ IsFiniteSet(SlotsRead(region)) /\ SlotsRead(region) \subseteq Nat \X Nat
         /\ \A s, i : <<s, i>> \in SlotsRead(region)
                        <=> s \in 1 .. n /\ i \in 1 .. Len(region[s]) /\ Reachable(region[s], i)
<1> DEFINE F == {{s} \X DOMAIN region[s] : s \in DOMAIN region}
<1>1. DOMAIN region = 1 .. n
  OBVIOUS
<1>2. ASSUME NEW s \in 1 .. n
      PROVE  region[s] \in Seq(T) /\ DOMAIN region[s] = 1 .. Len(region[s]) /\ Len(region[s]) \in Nat
  OBVIOUS
<1>3. IsFiniteSet(F)
  <2> DEFINE S == 1 .. n
             f == [s \in S |-> {s} \X DOMAIN region[s]]
  <2>1. f \in [S -> F] /\ \A t \in F : \E s \in S : f[s] = t
    BY <1>1
  <2>2. IsFiniteSet(S)
    BY FS_Interval
  <2> HIDE DEF f, S, F
  <2>3. f \in Surjection(S, F)
    BY <2>1 DEF Surjection
  <2> QED BY <2>2, <2>3, FS_Surjection
<1>4. \A t \in F : IsFiniteSet(t)
  <2> SUFFICES ASSUME NEW s \in 1 .. n PROVE IsFiniteSet({s} \X DOMAIN region[s])
    BY <1>1
  <2>1. IsFiniteSet({s}) /\ IsFiniteSet(1 .. Len(region[s]))
    <3>1. IsFiniteSet({s})
      BY FS_Singleton
    <3>2. Len(region[s]) \in Int
      BY <1>2
    <3>3. IsFiniteSet(1 .. Len(region[s]))
      BY <3>2, FS_Interval
    <3> QED BY <3>1, <3>3
  <2>2. DOMAIN region[s] = 1 .. Len(region[s])
    BY <1>2
  <2> QED BY <2>1, <2>2, FS_Product
<1>5. IsFiniteSet(UNION F)
  <2> HIDE DEF F
  <2> QED BY <1>3, <1>4, FS_UNION
<1>6. SlotsRead(region) = {p \in UNION F : Reachable(region[p[1]], p[2])}
  BY DEF SlotsRead
<1>7. SlotsRead(region) \in SUBSET (UNION F)
  <2> HIDE DEF F
  <2> QED BY <1>6
<1>8. IsFiniteSet(SlotsRead(region))
  <2> HIDE DEF F
  <2> QED BY <1>5, <1>7, FS_Subset
<1>9. \A p : p \in UNION F <=> \E s \in 1 .. n : p \in {s} \X (1 .. Len(region[s]))
  BY <1>1, <1>2
<1> HIDE DEF F
<1>10. SlotsRead(region) \subseteq Nat \X Nat
  BY <1>2, <1>7, <1>9
<1>11. ASSUME NEW s, NEW i
       PROVE  <<s, i>> \in SlotsRead(region)
                <=> s \in 1 .. n /\ i \in 1 .. Len(region[s]) /\ Reachable(region[s], i)
  <2>1. <<s, i>> \in UNION F <=> s \in 1 .. n /\ i \in 1 .. Len(region[s])
    BY <1>9
  <2> QED BY <1>6, <2>1
<1> QED BY <1>8, <1>10, <1>11

SlotAt(read, j) == CHOOSE p \in read : Turn(read, p) = j

\* What is parsed is the entries of the slots read, in turn.
LEMMA ParsedAre ==
  ASSUME NEW T, NEW E, \A t \in T : t.e \in E, NEW n \in Nat, NEW region \in [1 .. n -> Seq(T)]
  PROVE  LET read == SlotsRead(region)
             es   == ParseDirectory(region)
         IN  /\ es \in Seq(E) /\ Len(es) = Cardinality(read)
             /\ \A j \in 1 .. Len(es) :
                  /\ SlotAt(read, j) \in read /\ Turn(read, SlotAt(read, j)) = j
                  /\ es[j] = region[SlotAt(read, j)[1]][SlotAt(read, j)[2]].e
<1> DEFINE read == SlotsRead(region)
           N == Cardinality(read)
           es == ParseDirectory(region)
<1>1. /\ IsFiniteSet(read) /\ read \subseteq Nat \X Nat
      /\ \A s, i : <<s, i>> \in read => s \in 1 .. n /\ i \in 1 .. Len(region[s])
  BY SlotsReadAre
<1>2. es = [j \in 1 .. N |-> region[SlotAt(read, j)[1]][SlotAt(read, j)[2]].e]
  BY DEF ParseDirectory, SlotAt
<1> HIDE DEF read, es
<1>3. N \in Nat /\ \A j \in 1 .. N : \E p \in read : Turn(read, p) = j
  BY <1>1, TurnsAre
<1>4. ASSUME NEW j \in 1 .. N
      PROVE  /\ SlotAt(read, j) \in read /\ Turn(read, SlotAt(read, j)) = j
             /\ region[SlotAt(read, j)[1]][SlotAt(read, j)[2]].e \in E
  <2>1. SlotAt(read, j) \in read /\ Turn(read, SlotAt(read, j)) = j
    BY <1>3 DEF SlotAt
  <2> DEFINE p == SlotAt(read, j)
  <2> HIDE DEF p
  <2>2. p \in read
    BY <2>1 DEF p
  <2>3. p = <<p[1], p[2]>>
    BY <1>1, <2>2
  <2>4. p[1] \in 1 .. n /\ p[2] \in 1 .. Len(region[p[1]])
    BY <1>1, <2>2, <2>3
  <2>5. region[p[1]][p[2]] \in T
    BY <2>4
  <2> QED BY <2>1, <2>5 DEF p
<1>5. es \in Seq(E) /\ Len(es) = N
  <2> HIDE DEF N
  <2> QED BY <1>2, <1>3, <1>4
<1>6. ASSUME NEW j \in 1 .. Len(es)
      PROVE  /\ SlotAt(read, j) \in read /\ Turn(read, SlotAt(read, j)) = j
             /\ es[j] = region[SlotAt(read, j)[1]][SlotAt(read, j)[2]].e
  <2>1. j \in 1 .. N
    BY <1>5
  <2> HIDE DEF N
  <2> QED BY <1>2, <1>4, <2>1
<1> QED BY <1>5, <1>6 DEF read, es

\* Whatever layout is parsed, plan can pack what it held into as many sectors.
LEMMA ParsedFit ==
  ASSUME NEW T, \A t \in T : Named(t.e), NEW n \in Nat, NEW region \in [1 .. n -> Seq(T)],
         Parses(region)
  PROVE  /\ Fits(ParseDirectory(region), n)
         /\ \A i \in 1 .. Len(ParseDirectory(region)) : Writable(ParseDirectory(region)[i])
<1> DEFINE E == {t.e : t \in T}
           es == ParseDirectory(region)
           L == Len(es)
           read == SlotsRead(region)
           at(j) == SlotAt(read, j)
           sec == [j \in 1 .. L |-> at(j)[1]]
           end == [j \in 1 .. L |-> Ends(region[at(j)[1]])[at(j)[2]]]
<1>1. /\ es \in Seq(E) /\ L = Cardinality(read)
      /\ \A j \in 1 .. L : /\ at(j) \in read /\ Turn(read, at(j)) = j
                           /\ es[j] = region[at(j)[1]][at(j)[2]].e
  <2>1. \A t \in T : t.e \in E
    OBVIOUS
  <2> HIDE DEF E
  <2> QED BY <2>1, ParsedAre
<1> HIDE DEF es, E
<1>2. L \in Nat /\ SectorLen \in Nat /\ FixedLen \in Nat
  BY <1>1, DirectoryAssumption
<1>3. /\ IsFiniteSet(read) /\ read \subseteq Nat \X Nat
      /\ \A s, i : <<s, i>> \in read
                     <=> s \in 1 .. n /\ i \in 1 .. Len(region[s]) /\ Reachable(region[s], i)
  BY SlotsReadAre
<1> HIDE DEF read
<1>4. /\ \A p, q \in read : p # q /\ UpTo(p, q) => Turn(read, p) < Turn(read, q)
      /\ \A p \in read : Turn(read, p) \in Nat
  BY <1>3, TurnsAre
<1>5. ASSUME NEW s \in 1 .. n, NEW i \in 1 .. Len(region[s])
      PROVE  /\ EntryLen(region[s][i].e) \in Nat /\ EntryLen(region[s][i].e) >= FixedLen
             /\ Ends(region[s])[i] = Ends(region[s])[i - 1] + EntryLen(region[s][i].e)
             /\ Ends(region[s])[i] \in Nat /\ Ends(region[s])[i - 1] \in Nat
             /\ i \in Nat /\ Len(region[s]) \in Nat
  <2>1. region[s] \in Seq(T) /\ Len(region[s]) \in Nat
    OBVIOUS
  <2>2. ASSUME NEW h \in 1 .. Len(region[s])
        PROVE  EntryLen(region[s][h].e) \in Nat /\ EntryLen(region[s][h].e) >= FixedLen
    <3>1. region[s][h] \in T
      BY <2>1
    <3> QED BY <3>1, EntryLenIs
  <2>3. /\ Ends(region[s]) \in [0 .. Len(region[s]) -> Nat]
        /\ Ends(region[s])[i] = Ends(region[s])[i - 1] + EntryLen(region[s][i].e)
    BY <2>1, <2>2, EndsIs
  <2>4. i \in 0 .. Len(region[s]) /\ i - 1 \in 0 .. Len(region[s]) /\ i \in Nat
    BY <2>1
  <2> QED BY <2>1, <2>2, <2>3, <2>4
<1>6. ASSUME NEW j \in 1 .. L
      PROVE  /\ at(j) = <<at(j)[1], at(j)[2]>>
             /\ at(j)[1] \in 1 .. n /\ at(j)[2] \in 1 .. Len(region[at(j)[1]])
             /\ Reachable(region[at(j)[1]], at(j)[2])
             /\ es[j] = region[at(j)[1]][at(j)[2]].e
  <2>1. at(j) \in read /\ es[j] = region[at(j)[1]][at(j)[2]].e
    BY <1>1
  <2> HIDE DEF at
  <2>2. at(j) = <<at(j)[1], at(j)[2]>>
    BY <1>3, <2>1
  <2> QED BY <1>3, <2>1, <2>2
<1>7. ASSUME NEW j \in 1 .. L
      PROVE  /\ EntryLen(es[j]) \in Nat /\ EntryLen(es[j]) >= FixedLen
             /\ sec[j] \in 1 .. n /\ end[j] \in EntryLen(es[j]) .. SectorLen
  <2> DEFINE s == at(j)[1]
             i == at(j)[2]
  <2>1. sec[j] = s /\ end[j] = Ends(region[s])[i]
    OBVIOUS
  <2>2. /\ s \in 1 .. n /\ i \in 1 .. Len(region[s]) /\ Reachable(region[s], i)
        /\ es[j] = region[s][i].e
    BY <1>6
  <2> HIDE DEF s, i, sec, end
  <2>3. Offset(region[s], i) + EntryLen(region[s][i].e) <= SectorLen
    <3>1. ~Overruns(region[s]) /\ i \in DOMAIN region[s]
      BY <2>2 DEF Parses
    <3>2. ~(Offset(region[s], i) + EntryLen(region[s][i].e) > SectorLen)
      BY <2>2, <3>1 DEF Overruns
    <3>3. Offset(region[s], i) \in Nat /\ EntryLen(region[s][i].e) \in Nat
      BY <1>5, <2>2 DEF Offset
    <3> QED BY <1>2, <3>2, <3>3
  <2>4. /\ EntryLen(region[s][i].e) \in Nat /\ EntryLen(region[s][i].e) >= FixedLen
        /\ Ends(region[s])[i] = Ends(region[s])[i - 1] + EntryLen(region[s][i].e)
        /\ Ends(region[s])[i - 1] \in Nat
    BY <1>5, <2>2
  <2> QED BY <1>2, <2>1, <2>2, <2>3, <2>4 DEF Offset
<1>8. ASSUME NEW j \in 1 .. L - 1
      PROVE  \/ sec[j] < sec[j + 1]
             \/ sec[j] = sec[j + 1] /\ end[j] + EntryLen(es[j + 1]) <= end[j + 1]
  <2> DEFINE k == j + 1
             p == at(j)
             q == at(k)
  <2>1. j \in 1 .. L /\ k \in 1 .. L /\ j \in Nat /\ k = j + 1
    BY <1>2
  <2>2. /\ sec[j] = p[1] /\ end[j] = Ends(region[p[1]])[p[2]]
        /\ sec[k] = q[1] /\ end[k] = Ends(region[q[1]])[q[2]]
    BY <2>1
  <2> HIDE DEF k, sec, end
  <2>3. /\ p \in read /\ q \in read /\ Turn(read, p) = j /\ Turn(read, q) = k
    BY <1>1, <2>1
  <2>4. /\ p = <<p[1], p[2]>> /\ p[1] \in 1 .. n /\ p[2] \in 1 .. Len(region[p[1]])
        /\ Reachable(region[p[1]], p[2])
    BY <1>6, <2>1
  <2>5. /\ q = <<q[1], q[2]>> /\ q[1] \in 1 .. n /\ q[2] \in 1 .. Len(region[q[1]])
        /\ Reachable(region[q[1]], q[2]) /\ es[k] = region[q[1]][q[2]].e
    BY <1>6, <2>1
  <2> HIDE DEF p, q, at
  <2>6. p[1] \in Nat /\ p[2] \in Nat /\ q[1] \in Nat /\ q[2] \in Nat
    BY <1>3, <2>3
  <2>7. ~UpTo(q, p)
    <3>1. p # q /\ ~(k < j)
      BY <2>1, <2>3
    <3> QED BY <1>4, <2>3, <3>1
  <2>8. p[1] < q[1] \/ (p[1] = q[1] /\ p[2] < q[2])
    BY <2>6, <2>7 DEF UpTo
  <2>9. CASE p[1] < q[1]
    BY <2>2, <2>9 DEF k
  <2>10. CASE p[1] = q[1] /\ p[2] < q[2]
    <3> DEFINE s == q[1]
               r == <<s, q[2] - 1>>
    <3>1. r \in read
      <4>1. q[2] - 1 \in 1 .. Len(region[s])
        <5>1. Len(region[q[1]]) \in Nat /\ q[2] <= Len(region[q[1]])
          BY <1>5, <2>5
        <5>2. p[2] >= 1
          BY <2>4
        <5> QED BY <2>6, <2>10, <5>1, <5>2
      <4>2. Reachable(region[s], q[2] - 1)
        BY <2>5, <2>6 DEF Reachable
      <4> QED BY <1>3, <2>5, <4>1, <4>2
    <3>2. r # q /\ UpTo(r, q)
      BY <2>5, <2>6 DEF UpTo
    <3>3. r # p => UpTo(p, r)
      BY <2>4, <2>6, <2>10 DEF UpTo
    <3>4. Turn(read, r) < k /\ Turn(read, r) \in Nat
      BY <1>4, <2>3, <3>1, <3>2
    <3>5. r # p => j < Turn(read, r)
      BY <1>4, <2>3, <3>1, <3>3
    <3>6. r = p
      BY <2>1, <3>4, <3>5
    <3>7. p[2] = q[2] - 1
      BY <3>6
    <3>8. Ends(region[s])[q[2]] = Ends(region[s])[q[2] - 1] + EntryLen(region[s][q[2]].e)
      BY <1>5, <2>5
    <3>9. end[j] + EntryLen(es[k]) = end[k] /\ end[k] \in Nat
      <4>1. /\ Ends(region[s])[q[2]] \in Nat
        BY <1>5, <2>5
      <4> QED BY <2>2, <2>5, <2>10, <3>7, <3>8, <4>1
    <3> QED BY <2>2, <2>10, <3>9 DEF k
  <2> QED BY <2>8, <2>9, <2>10
<1>9. LaidOut(es, n, sec, end)
  <2> HIDE DEF sec, end
  <2> QED BY <1>7, <1>8 DEF LaidOut
<1>10. Fits(es, n)
  <2> HIDE DEF sec, end
  <2> QED BY <1>1, <1>9, LaidOutFits
<1>11. \A i \in 1 .. L : Writable(es[i])
  <2> HIDE DEF sec, end
  <2> SUFFICES ASSUME NEW j \in 1 .. L PROVE EntryLen(es[j]) \in FixedLen .. SectorLen
    BY DEF Writable
  <2>1. /\ EntryLen(es[j]) \in Nat /\ EntryLen(es[j]) >= FixedLen
        /\ end[j] \in EntryLen(es[j]) .. SectorLen
    BY <1>7
  <2> QED BY <1>2, <2>1
<1> QED BY <1>10, <1>11 DEF es
-----------------------------------------------------------------------------
(***************************************************************************)
(* Writing, and reading what was written.                                  *)
(***************************************************************************)
\* What never falls from one step to the next never falls.
LEMMA NeverFalls ==
  ASSUME NEW L \in Nat, NEW f, \A i \in 1 .. L : f[i] \in Int,
         \A i \in 1 .. L - 1 : f[i] <= f[i + 1],
         NEW h \in 1 .. L, NEW i \in 1 .. L, h <= i
  PROVE  f[h] <= f[i]
<1> DEFINE P == {d \in Nat : h + d <= L => f[h] <= f[h + d]}
<1>1. 0 \in P
  OBVIOUS
<1>2. ASSUME NEW d \in P PROVE d + 1 \in P
  <2>1. SUFFICES ASSUME h + (d + 1) <= L PROVE f[h] <= f[h + (d + 1)]
    OBVIOUS
  <2> DEFINE j == h + d
  <2>2. d \in Nat /\ j \in 1 .. L - 1 /\ j \in 1 .. L /\ j + 1 \in 1 .. L /\ h + (d + 1) = j + 1 /\ f[h] <= f[j]
    BY <2>1
  <2> HIDE DEF j
  <2>3. f[j] <= f[j + 1] /\ f[h] \in Int /\ f[j] \in Int /\ f[j + 1] \in Int
    BY <2>2
  <2> QED BY <2>2, <2>3
<1> HIDE DEF P
<1>3. P = Nat
  <2>1. P \subseteq Nat
    BY DEF P
  <2> QED BY <1>1, <1>2, <2>1, SetInduction
<1>4. i - h \in P /\ h + (i - h) = i
  BY <1>3
<1> QED BY <1>4 DEF P

\* A set of indices that has all those before its members has them from 1 up.
LEMMA FromTheFirst ==
  ASSUME NEW L \in Nat, NEW D \in SUBSET (1 .. L), \A i \in D, h \in 1 .. L : h <= i => h \in D
  PROVE  Cardinality(D) \in 0 .. L /\ D = 1 .. Cardinality(D)
<1>1. CASE D = {}
  <2>1. Cardinality(D) = 0
    BY <1>1, FS_EmptySet
  <2> QED BY <1>1, <2>1
<1>2. CASE D # {}
  <2>1. D \subseteq 0 .. L
    OBVIOUS
  <2>2. PICK x \in D : \A y \in D : y <= x
    BY <1>2, <2>1, GreatestOf
  <2>3. x \in 1 .. L /\ D = 1 .. x
    <3>1. x \in 1 .. L /\ x \in Nat
      OBVIOUS
    <3>2. ASSUME NEW h \in 1 .. x PROVE h \in D
      <4>1. h \in 1 .. L /\ h <= x
        BY <3>1
      <4> QED BY <4>1
    <3>3. ASSUME NEW y \in D PROVE y \in 1 .. x
      <4>1. y <= x /\ y \in 1 .. L
        BY <2>2
      <4> QED BY <3>1, <4>1
    <3> QED BY <3>1, <3>2, <3>3
  <2>4. Cardinality(1 .. x) = x
    <3>1. x \in Int /\ x >= 1
      BY <2>3
    <3> QED BY <3>1, FS_Interval
  <2> QED BY <2>3, <2>4
<1> QED BY <1>1, <1>2

\* The entries before the s-th sector, in what plan makes of es.
Earlier(es, s) == Cardinality({h \in 1 .. Len(es) : Plan(es)[h].sector < s})

\* What is written: the s-th sector has the entries from where the earlier ones end.
LEMMA WrittenIs ==
  ASSUME NEW E, NEW es \in Seq(E), NEW n \in Nat, Fits(es, n),
         \A i \in 1 .. Len(es) : Writable(es[i])
  PROVE  /\ \A s \in 1 .. n :
              /\ Earlier(es, s) \in Nat /\ Earlier(es, s) <= Earlier(es, s + 1)
              /\ Earlier(es, s + 1) \in Nat /\ Earlier(es, s + 1) <= Len(es)
              /\ WriteDirectory(es, n)[s] =
                   [j \in 1 .. Earlier(es, s + 1) - Earlier(es, s) |-> Slot(es[Earlier(es, s) + j])]
              /\ \A i \in 1 .. Len(es) :
                   Plan(es)[i].sector = s <=> Earlier(es, s) < i /\ i <= Earlier(es, s + 1)
         /\ \A i \in 1 .. Len(es) : Plan(es)[i].sector \in 1 .. n
         /\ \A h, i \in 1 .. Len(es) : h <= i => Plan(es)[h].sector <= Plan(es)[i].sector
<1> DEFINE L == Len(es)
           at == Plan(es)
           sec == [i \in 1 .. L |-> at[i].sector]
           D(s) == {h \in 1 .. L : at[h].sector < s}
           k(s) == Earlier(es, s)
<1>1. /\ LaidOut(es, n, sec, [i \in 1 .. L |-> at[i].off])
      /\ \A i \in 1 .. L - 1 :
           \/ at[i + 1].sector = at[i].sector
           \/ at[i + 1].sector = at[i].sector + 1
  BY PlanLaysOut
<1> HIDE DEF at
<1>2. L \in Nat
  OBVIOUS
<1>3. ASSUME NEW i \in 1 .. L PROVE sec[i] = at[i].sector /\ at[i].sector \in 1 .. n /\ sec[i] \in Int
  BY <1>1 DEF LaidOut
<1> HIDE DEF sec
<1>4. ASSUME NEW h \in 1 .. L, NEW i \in 1 .. L, h <= i PROVE at[h].sector <= at[i].sector
  <2>1. \A j \in 1 .. L - 1 : sec[j] <= sec[j + 1]
    <3> SUFFICES ASSUME NEW j \in 1 .. L - 1 PROVE sec[j] <= sec[j + 1]
      OBVIOUS
    <3>1. j \in 1 .. L /\ j + 1 \in 1 .. L
      BY <1>2
    <3>2. sec[j] = at[j].sector /\ sec[j + 1] = at[j + 1].sector /\ sec[j] \in Int
      BY <1>3, <3>1
    <3> QED BY <1>1, <3>2
  <2>2. \A j \in 1 .. L : sec[j] \in Int
    BY <1>3
  <2> HIDE DEF L
  <2>3. sec[h] <= sec[i]
    BY <1>2, <1>4, <2>1, <2>2, NeverFalls
  <2> QED BY <1>3, <2>3
<1>5. ASSUME NEW s \in Nat
      PROVE  k(s) \in Nat /\ k(s) <= L /\ D(s) = 1 .. k(s)
  <2>1. \A i \in D(s), h \in 1 .. L : h <= i => h \in D(s)
    <3> SUFFICES ASSUME NEW i \in 1 .. L, at[i].sector < s, NEW h \in 1 .. L, h <= i
                 PROVE  at[h].sector < s
      OBVIOUS
    <3>1. at[h].sector <= at[i].sector /\ at[h].sector \in Int /\ at[i].sector \in Int
      BY <1>3, <1>4
    <3> QED BY <3>1
  <2> DEFINE S == D(s)
  <2>2. S \in SUBSET (1 .. L) /\ \A i \in S, h \in 1 .. L : h <= i => h \in S
    BY <2>1
  <2> HIDE DEF S
  <2>3. Cardinality(S) \in 0 .. L /\ S = 1 .. Cardinality(S)
    BY <1>2, <2>2, FromTheFirst
  <2>4. k(s) = Cardinality(S)
    BY DEF Earlier, S, at
  <2> HIDE DEF D, k
  <2> QED BY <1>2, <2>3, <2>4 DEF S
<1>6. ASSUME NEW s \in 1 .. n, NEW i \in 1 .. L
      PROVE  at[i].sector = s <=> k(s) < i /\ i <= k(s + 1)
  <2>1. s \in Nat /\ s + 1 \in Nat /\ at[i].sector \in Int
    BY <1>3
  <2>2. D(s) = 1 .. k(s) /\ D(s + 1) = 1 .. k(s + 1)
    BY <1>5, <2>1
  <2>3. (i \in D(s) <=> i <= k(s)) /\ (i \in D(s + 1) <=> i <= k(s + 1))
    <3>1. k(s) \in Nat /\ k(s + 1) \in Nat
      BY <1>5, <2>1
    <3> HIDE DEF D, k
    <3> QED BY <2>2, <3>1
  <2>4. (i \in D(s) <=> at[i].sector < s) /\ (i \in D(s + 1) <=> at[i].sector < s + 1)
    OBVIOUS
  <2>5. k(s) \in Nat /\ k(s + 1) \in Nat
    BY <1>5, <2>1
  <2> HIDE DEF D, k
  <2> QED BY <2>1, <2>3, <2>4, <2>5
<1>7. ASSUME NEW s \in 1 .. n
      PROVE  /\ k(s) \in Nat /\ k(s) <= k(s + 1) /\ k(s + 1) \in Nat /\ k(s + 1) <= L
  <2>1. s \in Nat /\ s + 1 \in Nat
    OBVIOUS
  <2>2. k(s) \in Nat /\ k(s + 1) \in Nat /\ k(s + 1) <= L /\ D(s) = 1 .. k(s) /\ D(s + 1) = 1 .. k(s + 1)
    BY <1>5, <2>1
  <2>3. D(s) \subseteq D(s + 1)
    <3> SUFFICES ASSUME NEW h \in 1 .. L, at[h].sector < s PROVE at[h].sector < s + 1
      OBVIOUS
    <3>1. at[h].sector \in Int
      BY <1>3
    <3> QED BY <2>1, <3>1
  <2> HIDE DEF D, k
  <2> QED BY <2>2, <2>3
<1>8. ASSUME NEW s \in 1 .. n
      PROVE  WriteDirectory(es, n)[s] = [j \in 1 .. k(s + 1) - k(s) |-> Slot(es[k(s) + j])]
  <2> DEFINE In == {i \in DOMAIN es : at[i].sector = s}
             a == k(s)
             b == k(s + 1)
             Upto(i) == {h \in In : h <= i}
  <2>1. a \in Nat /\ b \in Nat /\ a <= b /\ b <= L
    BY <1>7
  <2>2. In = a + 1 .. b
    <3>1. \A i \in 1 .. L : at[i].sector = s <=> a < i /\ i <= b
      BY <1>6
    <3>2. DOMAIN es = 1 .. L
      OBVIOUS
    <3> HIDE DEF a, b
    <3> QED BY <2>1, <3>1, <3>2
  <2>3. WriteDirectory(es, n)[s] =
          [j \in 1 .. Cardinality(In) |-> Slot(es[CHOOSE i \in In : Cardinality(Upto(i)) = j])]
    BY DEF WriteDirectory, SlotsOf, at
  <2> HIDE DEF a, b, In
  <2>4. Cardinality(In) = b - a
    <3>1. a + 1 \in Int /\ b \in Int
      BY <2>1
    <3>2. Cardinality(a + 1 .. b) = IF a + 1 > b THEN 0 ELSE b - (a + 1) + 1
      BY <3>1, FS_Interval
    <3> QED BY <2>1, <2>2, <3>2
  <2>5. ASSUME NEW i \in In PROVE Cardinality(Upto(i)) = i - a
    <3>1. Upto(i) = a + 1 .. i /\ i \in Int /\ i >= a + 1
      BY <2>1, <2>2
    <3> HIDE DEF Upto
    <3> QED BY <2>1, <3>1, FS_Interval
  <2>6. ASSUME NEW j \in 1 .. b - a
        PROVE  (CHOOSE i \in In : Cardinality(Upto(i)) = j) = a + j
    <3>1. a + j \in In /\ (a + j) - a = j
      BY <2>1, <2>2
    <3>2. ASSUME NEW i \in In, i - a = j PROVE i = a + j
      BY <2>1, <2>2, <3>2
    <3> HIDE DEF Upto
    <3> QED BY <2>5, <3>1, <3>2
  <2>7. [j \in 1 .. b - a |-> Slot(es[CHOOSE i \in In : Cardinality(Upto(i)) = j])]
          = [j \in 1 .. b - a |-> Slot(es[a + j])]
    <3> DEFINE pick(j) == CHOOSE i \in In : Cardinality(Upto(i)) = j
    <3>1. \A j \in 1 .. b - a : pick(j) = a + j
      BY <2>6
    <3> HIDE DEF pick
    <3>2. [j \in 1 .. b - a |-> Slot(es[pick(j)])] = [j \in 1 .. b - a |-> Slot(es[a + j])]
      BY <3>1
    <3> QED BY <3>2 DEF pick
  <2> QED BY <2>3, <2>4, <2>7 DEF a, b
<1> QED BY <1>3, <1>4, <1>6, <1>7, <1>8 DEF at
\* Entries that fit are written so that they are parsed again, all of them, in order and
\* as they were.
LEMMA RoundTrip ==
  ASSUME NEW E, NEW es \in Seq(E), NEW n \in Nat, Fits(es, n),
         \A i \in 1 .. Len(es) : Writable(es[i])
  PROVE  /\ WriteDirectory(es, n) \in [1 .. n -> Seq({Slot(e) : e \in E})]
         /\ Parses(WriteDirectory(es, n))
         /\ ParseDirectory(WriteDirectory(es, n)) = es
<1> DEFINE L == Len(es)
           at == Plan(es)
           k(s) == Earlier(es, s)
           R == WriteDirectory(es, n)
           T == {Slot(e) : e \in E}
           l(i) == EntryLen(es[i])
<1>1. /\ \A s \in 1 .. n :
            /\ k(s) \in Nat /\ k(s) <= k(s + 1) /\ k(s + 1) \in Nat /\ k(s + 1) <= L
            /\ R[s] = [j \in 1 .. k(s + 1) - k(s) |-> Slot(es[k(s) + j])]
            /\ \A i \in 1 .. L : at[i].sector = s <=> k(s) < i /\ i <= k(s + 1)
      /\ \A i \in 1 .. L : at[i].sector \in 1 .. n
      /\ \A h, i \in 1 .. L : h <= i => at[h].sector <= at[i].sector
  BY WrittenIs
<1>2. /\ \A i \in 1 .. L - 1 :
           \/ at[i + 1].sector = at[i].sector /\ at[i + 1].off = at[i].off + l(i + 1)
           \/ at[i + 1].sector = at[i].sector + 1 /\ at[i + 1].off = l(i + 1)
      /\ L > 0 => at[1].sector = 1 /\ at[1].off = l(1)
      /\ \A i \in 1 .. L : at[i].off <= SectorLen
  <2> DEFINE sec == [i \in 1 .. L |-> at[i].sector]
             end == [i \in 1 .. L |-> at[i].off]
  <2>1. LaidOut(es, n, sec, end)
    BY PlanLaysOut
  <2>2. \A i \in 1 .. L : at[i].off <= SectorLen
    <3> SUFFICES ASSUME NEW i \in 1 .. L PROVE at[i].off <= SectorLen
      OBVIOUS
    <3>1. end[i] \in EntryLen(es[i]) .. SectorLen /\ end[i] = at[i].off
      BY <2>1 DEF LaidOut
    <3> QED BY <3>1, DirectoryAssumption
  <2> HIDE DEF sec, end
  <2> QED BY <2>2, PlanLaysOut
<1>3. L \in Nat /\ SectorLen \in Nat /\ FixedLen \in Nat
  BY DirectoryAssumption
<1>4. ASSUME NEW i \in 1 .. L PROVE l(i) \in Nat /\ l(i) >= FixedLen /\ l(i) <= SectorLen /\ es[i] \in E
  <2>1. Writable(es[i])
    OBVIOUS
  <2> QED BY <1>3, <2>1 DEF Writable
<1>5. R = [s \in 1 .. n |-> R[s]]
  BY DEF WriteDirectory
<1> HIDE DEF at, k, R
<1>6. ASSUME NEW s \in 1 .. n
      PROVE  /\ R[s] \in Seq(T) /\ Len(R[s]) = k(s + 1) - k(s) /\ Len(R[s]) \in Nat
             /\ \A j \in 1 .. Len(R[s]) :
                  /\ k(s) + j \in 1 .. L /\ at[k(s) + j].sector = s
                  /\ R[s][j] = Slot(es[k(s) + j])
  <2>1. /\ k(s) \in Nat /\ k(s) <= k(s + 1) /\ k(s + 1) \in Nat /\ k(s + 1) <= L
        /\ R[s] = [j \in 1 .. k(s + 1) - k(s) |-> Slot(es[k(s) + j])]
    BY <1>1
  <2>2. ASSUME NEW j \in 1 .. k(s + 1) - k(s)
        PROVE  k(s) + j \in 1 .. L /\ Slot(es[k(s) + j]) \in T /\ at[k(s) + j].sector = s
    <3>1. k(s) + j \in 1 .. L /\ k(s) < k(s) + j /\ k(s) + j <= k(s + 1)
      BY <1>3, <2>1
    <3>2. es[k(s) + j] \in E
      BY <1>4, <3>1
    <3> QED BY <1>1, <3>1, <3>2
  <2>3. k(s + 1) - k(s) \in Nat
    BY <2>1
  <2> HIDE DEF T
  <2>4. R[s] \in Seq(T) /\ Len(R[s]) = k(s + 1) - k(s)
    BY <2>1, <2>2, <2>3
  <2>5. \A j \in 1 .. k(s + 1) - k(s) : R[s][j] = Slot(es[k(s) + j])
    BY <2>1
  <2> QED BY <2>2, <2>3, <2>4, <2>5
<1>7. R \in [1 .. n -> Seq(T)]
  <2> HIDE DEF T
  <2> QED BY <1>5, <1>6
<1>8. ASSUME NEW s \in 1 .. n, NEW j \in 1 .. Len(R[s])
      PROVE  /\ Offset(R[s], j) \in Nat /\ Offset(R[s], j) + l(k(s) + j) = at[k(s) + j].off
             /\ R[s][j].used /\ R[s][j].e = es[k(s) + j]
  <2> DEFINE m == Len(R[s])
             a == k(s)
             P == {d \in Nat : d + 1 <= m => Ends(R[s])[d + 1] = at[a + (d + 1)].off}
  <2>1. m \in Nat /\ a \in Nat
    BY <1>1, <1>6
  <2>2. ASSUME NEW i \in 1 .. m
        PROVE  R[s][i].used /\ R[s][i].e = es[a + i] /\ a + i \in 1 .. L /\ EntryLen(R[s][i].e) = l(a + i)
               /\ at[a + i].sector = s
    <3>1. i \in 1 .. Len(R[s])
      OBVIOUS
    <3> HIDE DEF m
    <3>2. k(s) + i \in 1 .. L /\ at[k(s) + i].sector = s /\ R[s][i] = Slot(es[k(s) + i])
      BY <1>6, <3>1
    <3>3. R[s][i].used /\ R[s][i].e = es[a + i]
      BY <3>2 DEF Slot
    <3> QED BY <3>2, <3>3
  <2>3. /\ Ends(R[s]) \in [0 .. m -> Nat] /\ Ends(R[s])[0] = 0
        /\ \A i \in 1 .. m : Ends(R[s])[i] = Ends(R[s])[i - 1] + EntryLen(R[s][i].e)
    <3>1. \A i \in 1 .. Len(R[s]) : EntryLen(R[s][i].e) \in Nat
      BY <1>4, <2>2
    <3>2. R[s] \in Seq(T)
      BY <1>6
    <3> HIDE DEF T
    <3> QED BY <3>1, <3>2, EndsIs
  <2> HIDE DEF m
  <2>4. 0 \in P
    <3> SUFFICES ASSUME 1 <= m PROVE Ends(R[s])[1] = at[a + 1].off
      OBVIOUS
    <3>1. 1 \in 1 .. m
      BY <2>1
    <3>2. Ends(R[s])[1] = l(a + 1) /\ a + 1 \in 1 .. L /\ at[a + 1].sector = s /\ l(a + 1) \in Nat
      <4>1. Ends(R[s])[1] = Ends(R[s])[1 - 1] + EntryLen(R[s][1].e)
        BY <2>3, <3>1
      <4>2. EntryLen(R[s][1].e) = l(a + 1) /\ a + 1 \in 1 .. L /\ at[a + 1].sector = s
        BY <2>2, <3>1
      <4>3. l(a + 1) \in Nat
        BY <1>4, <4>2
      <4> QED BY <2>3, <4>1, <4>2, <4>3
    <3>3. CASE a = 0
      BY <1>2, <1>3, <3>2, <3>3
    <3>4. CASE a # 0
      <4>1. a \in 1 .. L - 1 /\ a \in 1 .. L
        BY <1>3, <2>1, <3>2, <3>4
      <4>2. at[a].sector # s
        <5>1. ~(k(s) < a)
          BY <2>1
        <5> HIDE DEF a
        <5> QED BY <1>1, <4>1, <5>1
      <4> QED BY <1>2, <3>2, <4>1, <4>2
    <3> QED BY <3>3, <3>4
  <2>5. ASSUME NEW d \in P PROVE d + 1 \in P
    <3> DEFINE i == d + 1
    <3>1. SUFFICES ASSUME i + 1 <= m PROVE Ends(R[s])[i + 1] = at[a + (i + 1)].off
      OBVIOUS
    <3>2. d \in Nat /\ i \in 1 .. m /\ i + 1 \in 1 .. m /\ Ends(R[s])[i] = at[a + i].off
      BY <2>1, <3>1
    <3> HIDE DEF i, P, a
    <3>3. /\ a + i \in 1 .. L /\ at[a + i].sector = s /\ a + (i + 1) \in 1 .. L
          /\ at[a + (i + 1)].sector = s /\ EntryLen(R[s][i + 1].e) = l(a + (i + 1))
      BY <2>2, <3>2
    <3>4. a + (i + 1) = (a + i) + 1 /\ a + i \in 1 .. L - 1
      BY <1>3, <2>1, <3>2, <3>3
    <3>5. at[a + (i + 1)].off = at[a + i].off + l(a + (i + 1))
      <4>1. ~(at[(a + i) + 1].sector = at[a + i].sector + 1)
        BY <3>3, <3>4
      <4> QED BY <1>2, <3>4, <4>1
    <3>6. Ends(R[s])[i + 1] = Ends(R[s])[i] + EntryLen(R[s][i + 1].e)
      <4>1. (i + 1) - 1 = i
        BY <3>2
      <4> QED BY <2>3, <3>2, <4>1
    <3> QED BY <3>2, <3>3, <3>5, <3>6
  <2> HIDE DEF P
  <2>6. P = Nat
    <3>1. P \subseteq Nat
      BY DEF P
    <3> QED BY <2>4, <2>5, <3>1, SetInduction
  <2>7. j \in 1 .. m
    BY DEF m
  <2>8. Ends(R[s])[j] = at[a + j].off
    <3>1. j - 1 \in P /\ (j - 1) + 1 = j /\ j <= m
      BY <2>1, <2>6, <2>7
    <3>2. (j - 1) + 1 <= m => Ends(R[s])[(j - 1) + 1] = at[a + ((j - 1) + 1)].off
      BY <3>1 DEF P
    <3> QED BY <3>1, <3>2
  <2>9. Offset(R[s], j) \in Nat /\ Ends(R[s])[j] = Offset(R[s], j) + EntryLen(R[s][j].e)
    <3>1. j - 1 \in 0 .. m
      BY <2>1, <2>7
    <3> QED BY <2>3, <2>7, <3>1 DEF Offset
  <2> QED BY <2>2, <2>7, <2>8, <2>9
<1>9. ASSUME NEW s \in 1 .. n, NEW j \in 1 .. Len(R[s])
      PROVE  /\ Offset(R[s], j) + EntryLen(R[s][j].e) <= SectorLen
             /\ Offset(R[s], j) + FixedLen <= SectorLen
  <2>1. /\ Offset(R[s], j) \in Nat /\ Offset(R[s], j) + l(k(s) + j) = at[k(s) + j].off
        /\ R[s][j].e = es[k(s) + j]
    BY <1>8
  <2>2. k(s) + j \in 1 .. L
    BY <1>6
  <2>3. at[k(s) + j].off <= SectorLen /\ l(k(s) + j) \in Nat /\ l(k(s) + j) >= FixedLen
    BY <1>2, <1>4, <2>2
  <2> QED BY <1>3, <2>1, <2>3
<1>10. Parses(R)
  <2> SUFFICES ASSUME NEW s \in 1 .. n, NEW j \in DOMAIN R[s]
               PROVE  ~(Offset(R[s], j) + EntryLen(R[s][j].e) > SectorLen)
    BY <1>5 DEF Parses, Overruns
  <2>1. j \in 1 .. Len(R[s])
    <3>1. R[s] \in Seq(T)
      BY <1>6
    <3> HIDE DEF T
    <3>2. DOMAIN R[s] = 1 .. Len(R[s])
      BY <3>1
    <3> QED BY <3>2
  <2>2. Offset(R[s], j) \in Nat /\ EntryLen(R[s][j].e) \in Nat
    <3>1. k(s) + j \in 1 .. L /\ R[s][j].e = es[k(s) + j] /\ Offset(R[s], j) \in Nat
      BY <1>6, <1>8, <2>1
    <3> QED BY <1>4, <3>1
  <2> QED BY <1>3, <1>9, <2>1, <2>2
<1>11. ASSUME NEW s \in 1 .. n, NEW j \in 1 .. Len(R[s]) PROVE Reachable(R[s], j)
  <2> SUFFICES ASSUME NEW h \in 1 .. j PROVE R[s][h].used /\ Offset(R[s], h) + FixedLen <= SectorLen
    BY DEF Reachable
  <2>1. h \in 1 .. Len(R[s])
    BY <1>6
  <2> QED BY <1>8, <1>9, <2>1
<1> DEFINE read == SlotsRead(R)
           sigma == [i \in 1 .. L |-> <<at[i].sector, i - k(at[i].sector)>>]
<1>12. /\ IsFiniteSet(read) /\ read \subseteq Nat \X Nat
       /\ \A s, j : <<s, j>> \in read <=> s \in 1 .. n /\ j \in 1 .. Len(R[s])
  <2> HIDE DEF T
  <2> QED BY <1>7, <1>11, SlotsReadAre
<1> HIDE DEF read
<1>13. ASSUME NEW i \in 1 .. L
       PROVE  LET s == at[i].sector
              IN  /\ sigma[i] = <<s, i - k(s)>> /\ s \in 1 .. n /\ k(s) \in Nat
                  /\ i - k(s) \in 1 .. Len(R[s]) /\ sigma[i] \in read
  <2> DEFINE s == at[i].sector
  <2>1. s \in 1 .. n /\ sigma[i] = <<s, i - k(s)>>
    BY <1>1
  <2>2. at[i].sector = s
    OBVIOUS
  <2> HIDE DEF s, sigma
  <2>3. k(s) \in Nat /\ k(s + 1) \in Nat /\ k(s) < i /\ i <= k(s + 1)
    BY <1>1, <2>1, <2>2
  <2>4. i - k(s) \in 1 .. Len(R[s])
    <3>1. Len(R[s]) = k(s + 1) - k(s)
      BY <1>6, <2>1
    <3>2. i \in Int
      BY <1>3
    <3> QED BY <2>3, <3>1, <3>2
  <2>5. sigma[i] \in read
    BY <1>12, <2>1, <2>4
  <2> QED BY <2>1, <2>3, <2>4, <2>5 DEF s
<1>14. ASSUME NEW h \in 1 .. L, NEW i \in 1 .. L
       PROVE  UpTo(sigma[h], sigma[i]) <=> h <= i
  <2> DEFINE s == at[h].sector
             t == at[i].sector
  <2>1. /\ sigma[h] = <<s, h - k(s)>> /\ sigma[i] = <<t, i - k(t)>>
        /\ s \in Nat /\ t \in Nat /\ k(s) \in Nat /\ k(t) \in Nat
    <3>1. sigma[h] = <<s, h - k(s)>> /\ s \in 1 .. n /\ k(s) \in Nat
      BY <1>13
    <3>2. sigma[i] = <<t, i - k(t)>> /\ t \in 1 .. n /\ k(t) \in Nat
      BY <1>13
    <3> HIDE DEF s, t, sigma
    <3> QED BY <3>1, <3>2
  <2>2. (h <= i => s <= t) /\ (i <= h => t <= s)
    BY <1>1
  <2> HIDE DEF s, t, sigma
  <2>3. UpTo(sigma[h], sigma[i]) <=> s < t \/ (s = t /\ h - k(s) <= i - k(t))
    BY <2>1 DEF UpTo
  <2> QED BY <2>1, <2>2, <2>3
<1>15. ASSUME NEW q \in read PROVE \E i \in 1 .. L : q = sigma[i]
  <2> DEFINE s == q[1]
             j == q[2]
             i == k(s) + j
  <2>1. q = <<s, j>> /\ s \in 1 .. n /\ j \in 1 .. Len(R[s])
    BY <1>12
  <2>2. i \in 1 .. L /\ at[i].sector = s /\ k(s) \in Nat /\ j \in Nat
    <3>1. j \in Nat
      <4>1. Len(R[s]) \in Nat
        BY <1>6, <2>1
      <4> QED BY <2>1, <4>1
    <3> HIDE DEF s, j
    <3> QED BY <1>1, <1>6, <2>1, <3>1
  <2>3. sigma[i] = <<s, i - k(s)>> /\ i - k(s) = j
    BY <2>2
  <2> QED BY <2>1, <2>2, <2>3
<1> HIDE DEF sigma
<1>16. ASSUME NEW i \in 1 .. L PROVE Turn(read, sigma[i]) = i
  <2> DEFINE S == 1 .. i
             U == {q \in read : UpTo(q, sigma[i])}
             f == [h \in S |-> sigma[h]]
  <2>1. \A h \in S : h \in 1 .. L /\ h <= i
    BY <1>3
  <2>2. f \in [S -> U]
    BY <1>13, <1>14, <2>1
  <2>3. ASSUME NEW g \in S, NEW h \in S, f[g] = f[h] PROVE g = h
    <3>1. sigma[g] = sigma[h]
      BY <2>3
    <3>2. g <= g /\ h <= h
      BY <2>1
    <3>3. g <= h /\ h <= g
      BY <1>14, <2>1, <3>1, <3>2
    <3> QED BY <3>3
  <2>4. ASSUME NEW q \in U PROVE \E h \in S : f[h] = q
    <3>1. PICK h \in 1 .. L : q = sigma[h]
      BY <1>15
    <3>2. UpTo(sigma[h], sigma[i])
      BY <3>1
    <3>3. h <= i
      BY <1>14, <3>2
    <3>4. h \in S
      BY <3>3
    <3> QED BY <3>1, <3>4
  <2>5. IsFiniteSet(S) /\ Cardinality(S) = i
    <3>1. 1 \in Int /\ i \in Int /\ ~(1 > i)
      OBVIOUS
    <3> QED BY <3>1, FS_Interval
  <2>6. Turn(read, sigma[i]) = Cardinality(U)
    BY DEF Turn
  <2> HIDE DEF S, U, f
  <2>7. f \in Surjection(S, U) /\ f \in Injection(S, U)
    BY <2>2, <2>3, <2>4 DEF Surjection, Injection, IsInjective
  <2>8. Cardinality(U) = Cardinality(S)
    BY <2>5, <2>7, FS_Surjection
  <2> QED BY <2>5, <2>6, <2>8
<1>17. Cardinality(read) = L
  <2>1. /\ Cardinality(read) \in Nat
        /\ \A p \in read : Turn(read, p) \in 1 .. Cardinality(read)
        /\ \A j \in 1 .. Cardinality(read) : \E p \in read : Turn(read, p) = j
    BY <1>12, TurnsAre
  <2>2. Cardinality(read) <= L
    <3>1. CASE Cardinality(read) = 0
      BY <1>3, <3>1
    <3>2. CASE Cardinality(read) # 0
      <4>1. PICK p \in read : Turn(read, p) = Cardinality(read)
        BY <2>1, <3>2
      <4>2. PICK i \in 1 .. L : p = sigma[i]
        BY <1>15
      <4> QED BY <1>16, <4>1, <4>2
    <3> QED BY <3>1, <3>2
  <2>3. L <= Cardinality(read)
    <3>1. CASE L = 0
      BY <2>1, <3>1
    <3>2. CASE L # 0
      <4>1. L \in 1 .. L
        BY <1>3, <3>2
      <4>2. Turn(read, sigma[L]) = L /\ sigma[L] \in read
        BY <1>13, <1>16, <4>1
      <4> QED BY <2>1, <4>2
    <3> QED BY <3>1, <3>2
  <2> QED BY <1>3, <2>1, <2>2, <2>3
<1>18. ParseDirectory(R) = es
  <2> DEFINE fs == ParseDirectory(R)
  <2>1. /\ fs \in Seq(E) /\ Len(fs) = Cardinality(read)
        /\ \A j \in 1 .. Len(fs) :
             /\ SlotAt(read, j) \in read /\ Turn(read, SlotAt(read, j)) = j
             /\ fs[j] = R[SlotAt(read, j)[1]][SlotAt(read, j)[2]].e
    <3>1. \A t \in T : t.e \in E
      BY DEF Slot
    <3> HIDE DEF T
    <3> QED BY <1>7, <3>1, ParsedAre DEF read
  <2> HIDE DEF fs
  <2>2. ASSUME NEW j \in 1 .. L PROVE fs[j] = es[j]
    <3>1. /\ SlotAt(read, j) \in read /\ Turn(read, SlotAt(read, j)) = j
          /\ fs[j] = R[SlotAt(read, j)[1]][SlotAt(read, j)[2]].e
      BY <1>17, <2>1
    <3>2. SlotAt(read, j) = sigma[j]
      <4>1. \A p, q \in read : Turn(read, p) = Turn(read, q) => p = q
        BY <1>12, TurnsAre
      <4>2. sigma[j] \in read /\ Turn(read, sigma[j]) = j
        BY <1>13, <1>16
      <4> QED BY <3>1, <4>1, <4>2
    <3> DEFINE s == at[j].sector
    <3>3. /\ sigma[j] = <<s, j - k(s)>> /\ s \in 1 .. n /\ k(s) \in Nat
          /\ j - k(s) \in 1 .. Len(R[s])
      BY <1>13
    <3> HIDE DEF s
    <3>4. R[s][j - k(s)].e = es[k(s) + (j - k(s))]
      BY <1>8, <3>3
    <3>5. k(s) + (j - k(s)) = j
      BY <3>3
    <3> QED BY <3>1, <3>2, <3>3, <3>4, <3>5
  <2>3. fs = [j \in 1 .. L |-> fs[j]] /\ es = [j \in 1 .. L |-> es[j]]
    BY <1>17, <2>1
  <2>4. fs = es
    BY <2>2, <2>3
  <2> QED BY <2>4 DEF fs
<1> QED BY <1>7, <1>10, <1>18 DEF R
=============================================================================

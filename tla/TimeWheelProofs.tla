-------------------------- MODULE TimeWheelProofs --------------------------
(***************************************************************************)
(* Proofs about TimeWheel, for every number of timers and every size of    *)
(* the wheel.                                                              *)
(***************************************************************************)
EXTENDS TimeWheel, FiniteSetTheorems, WellFoundedInduction, TLAPS

-----------------------------------------------------------------------------
(* The inductive invariant *)

\* On the links R, p and q are inverse to each other.
Mutual(p, q, R) ==
    \A x \in R : p[x] \in R /\ q[x] \in R /\ q[p[x]] = x /\ p[q[x]] = x

\* Following p from h goes round all of R.
Round(p, R, h) ==
    /\ h \in R
    /\ \A X \in SUBSET R : h \in X /\ (\A y \in X : p[y] \in X) => X = R

\* Following p from x goes through all of C, each once, and ends at h.
Path(p, x, h, C) ==
    /\ h \notin C /\ x \in C \cup {h}
    /\ \A y \in C : p[y] \in (C \cup {h}) \ {x}
    /\ \A y, z \in C : p[y] = p[z] => y = z
    /\ \A X \in SUBSET (C \cup {h}) :
          x \in X /\ (\A y \in X \ {h} : p[y] \in X) => X = C \cup {h}

List(s) == Nodes(s) \cup {s}

\* The nodes that ForEachSafe has still to meet, those behind pos, and the
\* one that is next.
Chain == NodesFrom(next, pos, tmp)
Rest == IF wheel = "again" THEN Chain \ {pos} ELSE Chain
First == IF wheel = "again" THEN next[pos] ELSE pos

NodeBase(n) ==
    /\ n \in Stops /\ ~stop[n] => calls[n] = MaxStops
    /\ stop[n] => calls[n] < MaxStops /\ adding[n] = "done"
    /\ stopper[n] # "idle" => stop[n]
    /\ nversion[n] <= version[nlist[n]]
    /\ period[n] \in Periods \cup {-1}
    /\ adding[n] # "done" <=> pushed[n] = "no"
    /\ loaded[n] <= jiffies

Base ==
    /\ TypeOK
    /\ wheel \in {"cascade", "readd", "inc"} => jiffies < Horizon
    /\ wheel \in {"take", "exec", "again"} => jiffies > 0
    /\ wheel = "again" => pos \in Timers
    /\ \A n \in Timers : NodeBase(n)

Ringed(s) ==
    /\ Nodes(s) \subseteq Timers
    /\ Mutual(next, prev, List(s))
    /\ Round(next, List(s), s) /\ Round(prev, List(s), s)
    /\ len[s] = Cardinality(Nodes(s))

RingInv ==
    \A s \in Slots :
        Ringed(s) /\ \A n \in Nodes(s) : adding[n] = "done" /\ Unmoved(n, s)

ChainInv ==
    /\ Chain \subseteq Timers /\ Path(next, pos, tmp, Chain)
    /\ \A n \in Chain : adding[n] = "done" /\ nversion[n] < version[nlist[n]]
    /\ wheel \notin {"readd", "exec", "again"} => pos = tmp
    /\ wheel = "again" => pos # tmp
    /\ wheel # "readd" => Mutual(next, prev, Rest \cup {tmp}) /\ next[tmp] = First

\* No Stop of n has reached StopDel.
Fresh(n) == ~stop[n] \/ (calls[n] = MaxStops - 1 /\ stopper[n] # "idle")

HomeInv ==
    \A n \in Timers :
        /\ adding[n] = "done" /\ Unmoved(n, nlist[n]) /\ Fresh(n) => n \in Nodes(nlist[n])
        /\ Pending(n) /\ ~Unmoved(n, nlist[n]) => n \in Chain

\* Is n pushed in its caller's tick, with a period that is not zero?
Prompt(n) == pushed[n] = "prompt" /\ period[n] # 0

\* The cascade of level l is still to come in this tick.
Uncascaded(l) ==
    \/ wheel \in {"take", "exec", "again", "idle"}
    \/ wheel = "cascade" /\ level <= l
    \/ wheel = "readd" /\ level < l

\* A node anywhere.  An expire before due, of a period of zero, is past.
NodeTime(n) ==
    /\ adding[n] # "done" => ~ran[n]
    /\ adding[n] = "push" => loaded[n] <= expire[n] /\ due[n] = expire[n]
    /\ pushed[n] # "edge" => due[n] <= expire[n] \/ expire[n] < jiffies
    /\ pushed[n] # "edge" /\ ran[n] => lag[n] >= 0
    /\ Prompt(n) => due[n] = expire[n] /\ (ran[n] => lag[n] = 0)

\* A node of the near list i: its tick is less than a turn ahead.
NearTime(n, i) ==
    /\ pushed[n] # "edge" =>
          /\ expire[n] % NearSize = i /\ due[n] <= expire[n]
          /\ expire[n] < jiffies + NearSize
          /\ wheel = "take" => expire[n] + 1 < jiffies + NearSize
    /\ Prompt(n) => jiffies <= expire[n] \/ (wheel = "take" /\ expire[n] + 1 = jiffies)

\* A node of the list i of level l: the tick in which the list is cascaded
\* next is not after the tick of the node.
LevelTime(n, l, i) ==
    Prompt(n) => \E k \in 0 .. expire[n] :
        /\ k % LevelSize = i
        /\ jiffies <= k * LevelMax[l] /\ k * LevelMax[l] <= expire[n]
        /\ k * LevelMax[l] = jiffies => Uncascaded(l)

\* A node of the taken list, to be added again or to be run.
ChainTime(n) ==
    IF wheel = "readd" \/ (wheel = "again" /\ n = pos)
    THEN Prompt(n) => jiffies <= expire[n]
    ELSE /\ pushed[n] # "edge" => due[n] <= expire[n] /\ expire[n] < jiffies
         /\ Prompt(n) => expire[n] + 1 = jiffies

Times ==
    /\ \A n \in Timers : NodeTime(n)
    /\ \A i \in 0 .. NearSize - 1 : \A n \in Nodes(Near(i)) : NearTime(n, i)
    /\ \A l \in 0 .. Levels - 1, i \in 0 .. LevelSize - 1 :
          \A n \in Nodes(<<l + 2, i>>) : LevelTime(n, l, i)
    /\ \A n \in Chain : ChainTime(n)

Lists == RingInv /\ ChainInv /\ HomeInv
ListInv == ~cut => Lists
TimeInv == ~cut => Times

-----------------------------------------------------------------------------
(* Recursion: what LevelMax and the following of pointers compute *)

\* Induction over the natural numbers, with a set in place of a predicate.
LEMMA NatSetInduction ==
    ASSUME NEW S, 0 \in S, \A n \in Nat : n \in S => n + 1 \in S
    PROVE  Nat \subseteq S
<1> DEFINE Below == {p \in Nat \X Nat : p[1] < p[2]}
           T == Nat \ S
<1> SUFFICES ASSUME T # {} PROVE FALSE
  OBVIOUS
<1>1. IsWellFoundedOn(Below, Nat)
  BY NatLessThanWellFounded, Zenon DEF OpToRel
<1> HIDE DEF T
<1>2. T \subseteq Nat
  BY DEF T
<1>3. PICK x \in T : \A y \in T : ~ (<<y, x>> \in Below)
  BY <1>1, <1>2, WFMin
<1>4. x # 0 /\ x \in Nat /\ x \notin S
  BY DEF T
<1>5. x - 1 \in Nat /\ <<x - 1, x>> \in Below
  BY <1>4
<1>6. x - 1 \in S
  BY <1>3, <1>5 DEF T
<1>7. (x - 1) + 1 \in S
  BY <1>5, <1>6
<1>8. QED
  BY <1>4, <1>7

\* f is a record of N steps of g from x.
Steps(f, A, x, g, N) ==
    f \in [0 .. N -> A] /\ f[0] = x /\ \A k \in 0 .. N : k > 0 => f[k] = g[f[k - 1]]

\* Steps of g from x can be followed for any number of steps.
LEMMA StepsExist ==
    ASSUME NEW A, NEW x \in A, NEW g \in [A -> A], NEW N \in Nat
    PROVE  \E f : Steps(f, A, x, g, N)
<1> DEFINE Is(f, m) == f[0] = x /\ \A k \in 0 .. m : k > 0 => f[k] = g[f[k - 1]]
           S == {m \in Nat : \E f \in [0 .. m -> A] : Is(f, m)}
<1>1. 0 \in S
  <2>1. [k \in 0 .. 0 |-> x] \in [0 .. 0 -> A] /\ Is([k \in 0 .. 0 |-> x], 0)
    OBVIOUS
  <2>2. QED
    BY <2>1
<1>2. \A m \in Nat : m \in S => m + 1 \in S
  <2> SUFFICES ASSUME NEW m \in Nat, NEW f \in [0 .. m -> A], Is(f, m)
               PROVE  \E h \in [0 .. m + 1 -> A] : Is(h, m + 1)
    OBVIOUS
  <2> DEFINE h == [k \in 0 .. m + 1 |-> IF k = m + 1 THEN g[f[m]] ELSE f[k]]
  <2>1. h \in [0 .. m + 1 -> A]
    OBVIOUS
  <2>2. h[0] = x
    OBVIOUS
  <2>3. ASSUME NEW k \in 0 .. m + 1, k > 0 PROVE h[k] = g[h[k - 1]]
    <3>1. k - 1 \in 0 .. m /\ h[k - 1] = f[k - 1]
      BY <2>3
    <3>2. CASE k = m + 1
      BY <3>1, <3>2
    <3>3. CASE k # m + 1
      BY <3>1, <3>3, <2>3
    <3>4. QED
      BY <3>2, <3>3
  <2>4. QED
    BY <2>1, <2>2, <2>3
<1> HIDE DEF S
<1>3. Nat \subseteq S
  BY <1>1, <1>2, NatSetInduction
<1>4. QED
  BY <1>3 DEF S, Steps

\* Each level reaches LevelSize times as far as the one before it.
LEMMA LevelMaxDef ==
    /\ LevelMax[0] = NearSize
    /\ \A i \in 0 .. Levels : i > 0 => LevelMax[i] = LevelSize * LevelMax[i - 1]
    /\ \A i \in 0 .. Levels : LevelMax[i] \in Nat \ {0}
<1> DEFINE A == Nat \ {0}
           g == [v \in A |-> LevelSize * v]
           Body(f) == [i \in 0 .. Levels |-> IF i = 0 THEN NearSize ELSE LevelSize * f[i - 1]]
<1>0. NearSize \in A /\ LevelSize \in A /\ Levels \in Nat
  BY SizesAssumption
<1>1. g \in [A -> A]
  <2> SUFFICES ASSUME NEW v \in A PROVE LevelSize * v \in A
    OBVIOUS
  <2>1. LevelSize * v \in Nat /\ LevelSize * v # 0
    BY <1>0
  <2>2. QED
    BY <2>1
<1> HIDE DEF A
<1>2. PICK f \in [0 .. Levels -> A] :
         f[0] = NearSize /\ \A k \in 0 .. Levels : k > 0 => f[k] = g[f[k - 1]]
  <2> HIDE DEF g
  <2>1. \E f : Steps(f, A, NearSize, g, Levels)
    BY <1>0, <1>1, StepsExist, Zenon
  <2>2. QED
    BY <2>1 DEF Steps
<1>3. f = Body(f)
  <2>1. ASSUME NEW k \in 0 .. Levels PROVE f[k] = Body(f)[k]
    <3>1. CASE k = 0
      BY <1>2, <3>1
    <3>2. CASE k # 0
      <4>1. k - 1 \in 0 .. Levels /\ k > 0
        BY <3>2, <1>0
      <4>2. f[k] = g[f[k - 1]] /\ f[k - 1] \in A
        BY <4>1, <1>2
      <4>3. QED
        BY <4>2, <3>2
    <3>3. QED
      BY <3>1, <3>2
  <2>2. QED
    BY <2>1
<1>4. LevelMax = Body(LevelMax)
  BY <1>3, Zenon DEF LevelMax
<1>5. LevelMax[0] = NearSize /\ \A i \in 0 .. Levels : i > 0 => LevelMax[i] = LevelSize * LevelMax[i - 1]
  <2> DEFINE L == LevelMax
  <2> HIDE DEF L
  <2>1. L = Body(L)
    BY <1>4 DEF L
  <2>2. L[0] = NearSize /\ \A i \in 0 .. Levels : i > 0 => L[i] = LevelSize * L[i - 1]
    BY <2>1, <1>0
  <2>3. QED
    BY <2>2 DEF L
<1>6. \A i \in 0 .. Levels : LevelMax[i] \in A
  <2> DEFINE S == {i \in Nat : i <= Levels => LevelMax[i] \in A}
  <2>1. 0 \in S
    BY <1>5, <1>0
  <2>2. ASSUME NEW i \in Nat, i \in S PROVE i + 1 \in S
    <3> SUFFICES ASSUME i + 1 <= Levels PROVE LevelMax[i + 1] \in A
      OBVIOUS
    <3>1. LevelMax[i] \in A
      BY <2>2, <1>0
    <3>2. i + 1 \in 0 .. Levels /\ i + 1 > 0 /\ (i + 1) - 1 = i
      BY <1>0
    <3>3. LevelMax[i + 1] = LevelSize * LevelMax[i]
      BY <3>2, <1>5
    <3>4. LevelSize * LevelMax[i] = g[LevelMax[i]]
      BY <3>1
    <3>5. QED
      BY <3>1, <3>3, <3>4, <1>1
  <2> HIDE DEF S
  <2>3. Nat \subseteq S
    BY <2>1, <2>2, NatSetInduction
  <2>4. QED
    BY <2>3, <1>0 DEF S
<1>7. QED
  BY <1>5, <1>6 DEF A

-----------------------------------------------------------------------------
(* Paths and rings of pointers *)

\* NodesFrom finds exactly the nodes of a path: it goes far enough.
LEMMA PathNodes ==
    ASSUME NEW p, NEW x, NEW h, NEW C \in SUBSET Timers, Path(p, x, h, C)
    PROVE  NodesFrom(p, x, h) = C
<1> DEFINE N == Cardinality(Timers)
           A == C \cup {h}
           g == [y \in A |-> IF y = h THEN h ELSE p[y]]
           Body(f) == [k \in 0 .. N |-> IF k = 0 THEN x
                                        ELSE IF f[k - 1] = h THEN h ELSE p[f[k - 1]]]
           at == CHOOSE f : f = Body(f)
<1>0. /\ h \notin C /\ x \in A
      /\ \A y \in C : p[y] \in A /\ p[y] # x
      /\ \A y, z \in C : p[y] = p[z] => y = z
      /\ \A X \in SUBSET A : x \in X /\ (\A y \in X \ {h} : p[y] \in X) => X = A
  BY DEF Path
<1>N. N \in Nat /\ IsFiniteSet(Timers)
  BY TimersAssumption, FS_CardinalityType
<1>1. NodesFrom(p, x, h) = IF x = h THEN {} ELSE {at[k] : k \in DOMAIN at} \ {h}
  BY Zenon DEF NodesFrom
<1>2. CASE x = h
  <2>1. {h} = A
    BY <1>0, <1>2
  <2>2. QED
    BY <2>1, <1>0, <1>1, <1>2
<1>3. CASE x # h
  <2>1. \E f : f = Body(f)
    <3> HIDE DEF N
    <3>1. g \in [A -> A]
      BY <1>0
    <3>2. PICK f : Steps(f, A, x, g, N)
      <4> HIDE DEF A, g
      <4>1. QED
        BY <1>0, <1>N, <3>1, StepsExist, Zenon
    <3>3. /\ f \in [0 .. N -> A] /\ f[0] = x
          /\ \A k \in 0 .. N : k > 0 => f[k] = g[f[k - 1]]
      <4> HIDE DEF A, g
      <4>1. QED
        BY <3>2 DEF Steps
    <3>4. ASSUME NEW k \in 0 .. N PROVE f[k] = Body(f)[k]
      <4>1. CASE k = 0
        BY <3>3, <4>1
      <4>2. CASE k # 0
        <5>1. k - 1 \in 0 .. N /\ k > 0
          BY <4>2, <1>N
        <5>2. f[k - 1] \in A /\ f[k] = g[f[k - 1]]
          BY <5>1, <3>3
        <5>3. QED
          BY <5>2, <4>2
      <4>3. QED
        BY <4>1, <4>2
    <3>5. f = Body(f)
      BY <3>3, <3>4
    <3>6. QED
      BY <3>5
  <2>2. at = Body(at)
    BY <2>1, Zenon
  <2> HIDE DEF at, N
  <2>3. /\ DOMAIN at = 0 .. N /\ at[0] = x
        /\ \A k \in 0 .. N : k > 0 => at[k] = IF at[k - 1] = h THEN h ELSE p[at[k - 1]]
    BY <2>2, <1>N
  <2>4. \A k \in 0 .. N : at[k] \in A
    <3> DEFINE S == {k \in Nat : k <= N => at[k] \in A}
    <3>1. 0 \in S
      BY <2>3, <1>0
    <3>2. ASSUME NEW k \in Nat, k \in S PROVE k + 1 \in S
      <4> SUFFICES ASSUME k + 1 <= N PROVE at[k + 1] \in A
        OBVIOUS
      <4>1. at[k] \in A /\ k + 1 \in 0 .. N /\ k + 1 > 0 /\ (k + 1) - 1 = k
        BY <3>2, <1>N
      <4>2. at[k + 1] = IF at[k] = h THEN h ELSE p[at[k]]
        BY <4>1, <2>3
      <4>3. QED
        BY <4>1, <4>2, <1>0
    <3> HIDE DEF S
    <3>3. Nat \subseteq S
      BY <3>1, <3>2, NatSetInduction
    <3>4. QED
      BY <3>3, <1>N DEF S
  <2> DEFINE V == {at[k] : k \in 0 .. N}
  <2>5. h \in V
    <3> SUFFICES ASSUME h \notin V PROVE FALSE
      OBVIOUS
    <3>1. \A k \in 0 .. N : at[k] \in C
      BY <2>4
    <3>2. \A k \in 0 .. N : k > 0 => at[k] = p[at[k - 1]]
      <4> SUFFICES ASSUME NEW k \in 0 .. N, k > 0 PROVE at[k] = p[at[k - 1]]
        OBVIOUS
      <4>1. k - 1 \in 0 .. N
        BY <1>N
      <4>2. at[k - 1] # h
        BY <4>1, <3>1, <1>0
      <4>3. QED
        BY <4>2, <2>3
    <3> DEFINE S == {i \in Nat : \A j \in 0 .. N : i < j => at[i] # at[j]}
    <3>3. 0 \in S
      <4> SUFFICES ASSUME NEW j \in 0 .. N, 0 < j PROVE at[0] # at[j]
        OBVIOUS
      <4>1. j - 1 \in 0 .. N /\ at[j] = p[at[j - 1]]
        BY <3>2, <1>N
      <4>2. QED
        BY <4>1, <3>1, <1>0, <2>3
    <3>4. ASSUME NEW i \in Nat, i \in S PROVE i + 1 \in S
      <4> SUFFICES ASSUME NEW j \in 0 .. N, i + 1 < j, at[i + 1] = at[j] PROVE FALSE
        BY DEF S
      <4>1. /\ i \in 0 .. N /\ i + 1 \in 0 .. N /\ i + 1 > 0 /\ (i + 1) - 1 = i
            /\ j - 1 \in 0 .. N /\ j > 0 /\ i < j - 1
        BY <1>N
      <4>2. at[i + 1] = p[at[i]]
        BY <4>1, <3>2
      <4>3. at[j] = p[at[j - 1]]
        BY <4>1, <3>2
      <4>4. at[i] # at[j - 1]
        BY <4>1, <3>4
      <4>5. at[i] \in C /\ at[j - 1] \in C
        BY <4>1, <3>1
      <4>6. p[at[i]] = p[at[j - 1]]
        BY <4>2, <4>3
      <4>7. QED
        BY <4>4, <4>5, <4>6, <1>0, Zenon
    <3> HIDE DEF S
    <3>5. Nat \subseteq S
      BY <3>3, <3>4, NatSetInduction
    <3>6. \A i, j \in 0 .. N : i # j => at[i] # at[j]
      <4> SUFFICES ASSUME NEW i \in 0 .. N, NEW j \in 0 .. N, i # j PROVE at[i] # at[j]
        OBVIOUS
      <4>1. i \in S /\ j \in S
        BY <3>5, <1>N
      <4>2. i < j \/ j < i
        BY <1>N
      <4>3. QED
        BY <4>1, <4>2 DEF S
    <3> DEFINE f == [k \in 0 .. N |-> at[k]]
    <3>7. f \in [0 .. N -> Timers]
      BY <3>1
    <3>8. IsFiniteSet(0 .. N) /\ Cardinality(0 .. N) = N + 1
      BY FS_Interval, <1>N
    <3>9. Cardinality(Timers) < Cardinality(0 .. N)
      BY <3>8, <1>N DEF N
    <3> HIDE DEF f
    <3>10. \E i, j \in 0 .. N : i # j /\ f[i] = f[j]
      BY <3>7, <3>8, <3>9, <1>N, FS_PigeonHole
    <3>11. QED
      BY <3>10, <3>6 DEF f
  <2>6. \A k \in 0 .. N : at[k] = h => at[N] = h
    <3> SUFFICES ASSUME NEW k \in 0 .. N, at[k] = h PROVE at[N] = h
      OBVIOUS
    <3> DEFINE S == {i \in Nat : k + i <= N => at[k + i] = h}
    <3>1. 0 \in S
      BY <1>N
    <3>2. ASSUME NEW i \in Nat, i \in S PROVE i + 1 \in S
      <4> SUFFICES ASSUME k + (i + 1) <= N PROVE at[k + (i + 1)] = h
        OBVIOUS
      <4>1. k + (i + 1) \in 0 .. N /\ k + (i + 1) > 0 /\ (k + (i + 1)) - 1 = k + i /\ k + i <= N
        BY <1>N
      <4>2. at[k + i] = h
        BY <3>2, <4>1
      <4>3. QED
        BY <4>1, <4>2, <2>3
    <3> HIDE DEF S
    <3>3. N - k \in S
      BY <3>1, <3>2, NatSetInduction, <1>N
    <3>4. k + (N - k) = N /\ N <= N
      BY <1>N
    <3>5. QED
      BY <3>3, <3>4 DEF S
  <2>7. V = A
    <3>1. V \in SUBSET A
      BY <2>4
    <3>2. x \in V
      BY <2>3, <1>N
    <3>3. ASSUME NEW y \in V \ {h} PROVE p[y] \in V
      <4>1. PICK k \in 0 .. N : y = at[k]
        BY <3>3
      <4>2. k # N
        BY <2>5, <2>6, <4>1, <3>3
      <4>3. k + 1 \in 0 .. N /\ k + 1 > 0 /\ (k + 1) - 1 = k
        BY <4>2, <1>N
      <4>4. at[k + 1] = p[y]
        BY <4>3, <4>1, <3>3, <2>3
      <4>5. QED
        BY <4>3, <4>4
    <3> HIDE DEF V
    <3>4. QED
      BY <3>1, <3>2, <3>3, <1>0
  <2>8. QED
    BY <2>7, <2>3, <1>0, <1>1, <1>3
<1>4. QED
  BY <1>2, <1>3

\* A path goes on behind its first node, with pointers that agree on it.
LEMMA PathStep ==
    ASSUME NEW p, NEW r, NEW x, NEW h, NEW C, Path(p, x, h, C), x \in C,
           \A y \in C \ {x} : r[y] = p[y]
    PROVE  Path(r, p[x], h, C \ {x})
<1> DEFINE D == C \ {x}
<1>0. /\ h \notin C
      /\ \A y \in C : p[y] \in C \cup {h} /\ p[y] # x
      /\ \A y, z \in C : p[y] = p[z] => y = z
  BY DEF Path
<1>1. h \notin D /\ p[x] \in D \cup {h}
  BY <1>0
<1>2. \A y \in D : r[y] \in (D \cup {h}) \ {p[x]}
  BY <1>0
<1>3. \A y, z \in D : r[y] = r[z] => y = z
  BY <1>0
<1>4. ASSUME NEW X \in SUBSET (D \cup {h}), p[x] \in X, \A y \in X \ {h} : r[y] \in X
      PROVE  X = D \cup {h}
  <2>1. X \cup {x} \in SUBSET (C \cup {h})
    OBVIOUS
  <2>2. \A y \in (X \cup {x}) \ {h} : p[y] \in X \cup {x}
    BY <1>4
  <2>3. X \cup {x} = C \cup {h}
    BY <2>1, <2>2 DEF Path
  <2>4. QED
    BY <2>3, <1>0
<1> HIDE DEF D
<1>5. Path(r, p[x], h, D)
  BY <1>1, <1>2, <1>3, <1>4 DEF Path
<1>6. QED
  BY <1>5 DEF D

\* A path is not disturbed by changes elsewhere.
LEMMA PathSame ==
    ASSUME NEW p, NEW r, NEW x, NEW h, NEW C, Path(p, x, h, C),
           \A y \in C : r[y] = p[y]
    PROVE  Path(r, x, h, C)
<1>1. /\ h \notin C /\ x \in C \cup {h}
      /\ \A y \in C : r[y] \in (C \cup {h}) \ {x}
      /\ \A y, z \in C : r[y] = r[z] => y = z
  BY DEF Path
<1>2. ASSUME NEW X \in SUBSET (C \cup {h}), x \in X, \A y \in X \ {h} : r[y] \in X
      PROVE  X = C \cup {h}
  <2>1. \A y \in X \ {h} : p[y] \in X
    BY <1>2
  <2>2. QED
    BY <2>1, <1>2 DEF Path
<1>3. QED
  BY <1>1, <1>2 DEF Path

\* The path of no node.
LEMMA PathNone ==
    ASSUME NEW p, NEW h PROVE Path(p, h, h, {})
BY DEF Path

\* A ring gives the path from behind its head back to it.
LEMMA RingPath ==
    ASSUME NEW p, NEW q, NEW R, NEW h, Mutual(p, q, R), Round(p, R, h)
    PROVE  Path(p, p[h], h, R \ {h})
<1> DEFINE C == R \ {h}
<1>0. h \in R /\ C \cup {h} = R
  BY DEF Round
<1>1. \A x \in R : p[x] \in R /\ q[x] \in R /\ q[p[x]] = x /\ p[q[x]] = x
  BY DEF Mutual
<1>2. h \notin C /\ p[h] \in C \cup {h}
  BY <1>0, <1>1
<1>3. \A y \in C : p[y] \in (C \cup {h}) \ {p[h]}
  BY <1>0, <1>1
<1>4. \A y, z \in C : p[y] = p[z] => y = z
  <2> SUFFICES ASSUME NEW y \in R, NEW z \in R, p[y] = p[z] PROVE y = z
    OBVIOUS
  <2>1. q[p[y]] = y /\ q[p[z]] = z
    BY <1>1
  <2>2. QED
    BY <2>1
<1>5. ASSUME NEW X \in SUBSET (C \cup {h}), p[h] \in X, \A y \in X \ {h} : p[y] \in X
      PROVE  X = C \cup {h}
  <2>1. X \cup {h} \in SUBSET R
    BY <1>0
  <2>2. \A y \in X \cup {h} : p[y] \in X \cup {h}
    BY <1>5
  <2>3. X \cup {h} = R
    BY <2>1, <2>2 DEF Round
  <2>4. q[h] \in R /\ p[q[h]] = h
    BY <1>0, <1>1
  <2>5. h \in X
    <3>1. CASE q[h] = h
      BY <3>1, <2>4, <1>5
    <3>2. CASE q[h] # h
      BY <3>2, <2>3, <2>4, <1>5
    <3>3. QED
      BY <3>1, <3>2
  <2>6. QED
    BY <2>3, <2>5, <1>0
<1> HIDE DEF C
<1>6. Path(p, p[h], h, C)
  BY <1>2, <1>3, <1>4, <1>5 DEF Path
<1>7. QED
  BY <1>6 DEF C

\* NodesFrom finds the nodes of a ring.
LEMMA RingNodes ==
    ASSUME NEW p, NEW q, NEW R, NEW h, Mutual(p, q, R), Round(p, R, h),
           R \ {h} \in SUBSET Timers
    PROVE  NodesFrom(p, p[h], h) = R \ {h}
<1>1. Path(p, p[h], h, R \ {h})
  BY RingPath
<1>2. QED
  BY <1>1, PathNodes, Zenon

\* Backwards is as good as forwards.
LEMMA MutualSwap ==
    ASSUME NEW p, NEW q, NEW R, Mutual(p, q, R) PROVE Mutual(q, p, R)
BY DEF Mutual

\* A ring is not disturbed by changes elsewhere.
LEMMA RingSame ==
    ASSUME NEW p, NEW q, NEW pp, NEW qq, NEW R, NEW h, Mutual(p, q, R),
           \A y \in R : pp[y] = p[y] /\ qq[y] = q[y]
    PROVE  Mutual(pp, qq, R) /\ (Round(p, R, h) => Round(pp, R, h))
<1>1. Mutual(pp, qq, R)
  BY DEF Mutual
<1>2. ASSUME Round(p, R, h) PROVE Round(pp, R, h)
  <2> SUFFICES ASSUME NEW X \in SUBSET R, h \in X, \A y \in X : pp[y] \in X PROVE X = R
    BY <1>2 DEF Round
  <2>1. \A y \in X : p[y] \in X
    OBVIOUS
  <2>2. QED
    BY <2>1, <1>2 DEF Round
<1>3. QED
  BY <1>1, <1>2

\* Putting n behind a.
LEMMA InsertRound ==
    ASSUME NEW p, NEW r, NEW R, NEW h, NEW a \in R, NEW n, n \notin R,
           \A x \in R : p[x] \in R, Round(p, R, h),
           r[a] = n, r[n] = p[a], \A y \in R \ {a} : r[y] = p[y]
    PROVE  Round(r, R \cup {n}, h)
<1> SUFFICES ASSUME NEW X \in SUBSET (R \cup {n}), h \in X, \A y \in X : r[y] \in X
             PROVE  X = R \cup {n}
  BY DEF Round
<1>0. h \in R
  BY DEF Round
<1> DEFINE Y == X \ {n}
<1>1. Y \in SUBSET R /\ h \in Y
  BY <1>0
<1>2. ASSUME NEW y \in Y PROVE p[y] \in Y
  <2>1. p[y] \in R /\ p[y] # n
    BY <1>1
  <2>2. CASE y = a
    <3>1. n \in X
      BY <2>2
    <3>2. QED
      BY <3>1, <2>1, <2>2
  <2>3. CASE y # a
    BY <2>3, <2>1, <1>1
  <2>4. QED
    BY <2>2, <2>3
<1>3. Y = R
  <2> HIDE DEF Y
  <2>1. QED
    BY <1>1, <1>2 DEF Round
<1>4. n \in X
  BY <1>3
<1>5. QED
  BY <1>3, <1>4

\* The same for both directions, between a and b.
LEMMA InsertMutual ==
    ASSUME NEW p, NEW q, NEW pp, NEW qq, NEW R, NEW a \in R, NEW b, NEW n, n \notin R,
           Mutual(p, q, R), b = p[a],
           pp[a] = n, pp[n] = b, \A y \in R \ {a} : pp[y] = p[y],
           qq[b] = n, qq[n] = a, \A y \in R \ {b} : qq[y] = q[y]
    PROVE  Mutual(pp, qq, R \cup {n})
<1>1. \A x \in R : p[x] \in R /\ q[x] \in R /\ q[p[x]] = x /\ p[q[x]] = x
  BY DEF Mutual
<1>2. b \in R /\ q[b] = a
  BY <1>1
<1>3. ASSUME NEW x \in R, x # a PROVE p[x] # b
  BY <1>1, <1>2, <1>3
<1>4. ASSUME NEW x \in R, x # b PROVE q[x] # a
  BY <1>1, <1>2, <1>4
<1>5. ASSUME NEW x \in R \cup {n}
      PROVE  /\ pp[x] \in R \cup {n} /\ qq[pp[x]] = x
             /\ qq[x] \in R \cup {n} /\ pp[qq[x]] = x
  <2>1. CASE x = n
    BY <2>1, <1>2
  <2>2. CASE x # n
    <3>1. pp[x] \in R \cup {n} /\ qq[pp[x]] = x
      <4>1. CASE x = a
        BY <4>1
      <4>2. CASE x # a
        BY <4>2, <2>2, <1>1, <1>3
      <4>3. QED
        BY <4>1, <4>2
    <3>2. qq[x] \in R \cup {n} /\ pp[qq[x]] = x
      <4>1. CASE x = b
        BY <4>1
      <4>2. CASE x # b
        BY <4>2, <2>2, <1>1, <1>4
      <4>3. QED
        BY <4>1, <4>2
    <3>3. QED
      BY <3>1, <3>2
  <2>3. QED
    BY <2>1, <2>2
<1>6. QED
  BY <1>5 DEF Mutual

\* A node of a ring is not its own neighbour.
LEMMA NotAlone ==
    ASSUME NEW p, NEW q, NEW R, NEW h, Mutual(p, q, R), Round(p, R, h),
           NEW n \in R, n # h
    PROVE  p[n] # n /\ q[n] # n
<1>1. \A x \in R : p[x] \in R /\ q[p[x]] = x /\ p[q[x]] = x
  BY DEF Mutual
<1>2. SUFFICES ASSUME p[n] = n PROVE FALSE
  BY <1>1
<1> DEFINE X == R \ {n}
<1>3. X \in SUBSET R /\ h \in X
  BY DEF Round
<1>4. ASSUME NEW y \in X PROVE p[y] \in X
  BY <1>1, <1>2
<1>5. X = R
  <2> HIDE DEF X
  <2>1. QED
    BY <1>3, <1>4 DEF Round
<1>6. QED
  BY <1>5

\* Taking n out from behind a.
LEMMA RemoveRound ==
    ASSUME NEW p, NEW q, NEW r, NEW R, NEW h, NEW a \in R, NEW n \in R,
           Mutual(p, q, R), Round(p, R, h), n # h, a = q[n],
           r[a] = p[n], \A y \in R \ {a} : r[y] = p[y]
    PROVE  Round(r, R \ {n}, h)
<1>0. h \in R /\ p[a] = n /\ a # n
  <2>1. h \in R
    BY DEF Round
  <2>2. p[a] = n
    BY DEF Mutual
  <2>3. q[n] # n
    BY NotAlone
  <2>4. QED
    BY <2>1, <2>2, <2>3
<1> SUFFICES ASSUME NEW X \in SUBSET (R \ {n}), h \in X, \A y \in X : r[y] \in X
             PROVE  X = R \ {n}
  BY <1>0 DEF Round
<1>1. CASE a \in X
  <2> DEFINE Y == X \cup {n}
  <2>1. Y \in SUBSET R /\ h \in Y
    OBVIOUS
  <2>2. ASSUME NEW y \in Y PROVE p[y] \in Y
    <3>1. CASE y = n
      BY <3>1, <1>1
    <3>2. CASE y = a
      BY <3>2, <1>0
    <3>3. CASE y # n /\ y # a
      BY <3>3
    <3>4. QED
      BY <3>1, <3>2, <3>3
  <2>3. Y = R
    <3> HIDE DEF Y
    <3>1. QED
      BY <2>1, <2>2 DEF Round
  <2>4. QED
    BY <2>3
<1>2. CASE a \notin X
  <2>1. \A y \in X : p[y] \in X
    BY <1>2
  <2>2. X = R
    BY <2>1 DEF Round
  <2>3. QED
    BY <2>2, <1>2
<1>3. QED
  BY <1>1, <1>2

\* The same for both directions, from between a and b.
LEMMA RemoveMutual ==
    ASSUME NEW p, NEW q, NEW pp, NEW qq, NEW R, NEW a, NEW b, NEW n \in R,
           Mutual(p, q, R), a = q[n], b = p[n], a # n, b # n,
           pp[a] = b, \A y \in R \ {a} : pp[y] = p[y],
           qq[b] = a, \A y \in R \ {b} : qq[y] = q[y]
    PROVE  Mutual(pp, qq, R \ {n})
<1>1. \A x \in R : p[x] \in R /\ q[x] \in R /\ q[p[x]] = x /\ p[q[x]] = x
  BY DEF Mutual
<1>2. a \in R /\ b \in R /\ p[a] = n /\ q[b] = n
  BY <1>1
<1>3. ASSUME NEW x \in R \ {n}
      PROVE  /\ pp[x] \in R \ {n} /\ qq[pp[x]] = x
             /\ qq[x] \in R \ {n} /\ pp[qq[x]] = x
  <2>1. pp[x] \in R \ {n} /\ qq[pp[x]] = x
    <3>1. CASE x = a
      BY <3>1, <1>2
    <3>2. CASE x # a
      <4>1. p[x] \in R /\ p[x] # n /\ p[x] # b /\ q[p[x]] = x
        BY <3>2, <1>1, <1>2
      <4>2. QED
        BY <4>1, <3>2
    <3>3. QED
      BY <3>1, <3>2
  <2>2. qq[x] \in R \ {n} /\ pp[qq[x]] = x
    <3>1. CASE x = b
      BY <3>1, <1>2
    <3>2. CASE x # b
      <4>1. q[x] \in R /\ q[x] # n /\ q[x] # a /\ p[q[x]] = x
        BY <3>2, <1>1, <1>2
      <4>2. QED
        BY <4>1, <3>2
    <3>3. QED
      BY <3>1, <3>2
  <2>3. QED
    BY <2>1, <2>2
<1>4. QED
  BY <1>3 DEF Mutual

\* The head t takes the place of the head h at the end of a path.
LEMMA PathMove ==
    ASSUME NEW p, NEW r, NEW x, NEW h, NEW t, NEW C, Path(p, x, h, C), x \in C, t \notin C,
           \A y \in C : r[y] = IF p[y] = h THEN t ELSE p[y]
    PROVE  Path(r, x, t, C)
<1>0. /\ h \notin C /\ x \in C \cup {h}
      /\ \A y \in C : p[y] \in C \cup {h} /\ p[y] # x
      /\ \A y, z \in C : p[y] = p[z] => y = z
  BY DEF Path
<1>1. \A y \in C : r[y] \in (C \cup {t}) \ {x}
  BY <1>0
<1>2. ASSUME NEW y \in C, NEW z \in C, r[y] = r[z] PROVE y = z
  <2>1. p[y] = p[z]
    BY <1>0, <1>2
  <2>2. QED
    BY <2>1, <1>0
<1>3. ASSUME NEW X \in SUBSET (C \cup {t}), x \in X, \A y \in X \ {t} : r[y] \in X
      PROVE  X = C \cup {t}
  <2> DEFINE Y == {y \in C \cup {h} : IF y = h THEN t \in X ELSE y \in X}
  <2>1. Y \in SUBSET (C \cup {h}) /\ x \in Y
    BY <1>0, <1>3
  <2>2. ASSUME NEW y \in Y \ {h} PROVE p[y] \in Y
    <3>1. y \in C /\ y \in X /\ y # t
      BY <2>2
    <3>2. r[y] \in X
      BY <3>1, <1>3
    <3>3. QED
      BY <3>1, <3>2, <1>0
  <2>3. Y = C \cup {h}
    <3> HIDE DEF Y
    <3>1. QED
      BY <2>1, <2>2 DEF Path
  <2>4. t \in X /\ C \subseteq X
    BY <2>3, <1>0
  <2>5. QED
    BY <2>4
<1>4. QED
  BY <1>0, <1>1, <1>2, <1>3 DEF Path

\* The head t takes the place of the head h in a ring.
LEMMA MutualMove ==
    ASSUME NEW p, NEW q, NEW pp, NEW qq, NEW h, NEW t, NEW C, Mutual(p, q, C \cup {h}),
           h \notin C, t \notin C, p[h] # h,
           \A y \in C : pp[y] = IF p[y] = h THEN t ELSE p[y],
           \A y \in C : qq[y] = IF q[y] = h THEN t ELSE q[y],
           pp[t] = p[h], qq[t] = q[h]
    PROVE  Mutual(pp, qq, C \cup {t})
<1>1. \A x \in C \cup {h} : p[x] \in C \cup {h} /\ q[x] \in C \cup {h} /\ q[p[x]] = x /\ p[q[x]] = x
  BY DEF Mutual
<1>2. p[h] \in C /\ q[h] \in C
  BY <1>1
<1>3. ASSUME NEW x \in C \cup {t}
      PROVE  /\ pp[x] \in C \cup {t} /\ qq[pp[x]] = x
             /\ qq[x] \in C \cup {t} /\ pp[qq[x]] = x
  <2>1. CASE x = t
    BY <2>1, <1>1, <1>2
  <2>2. CASE x # t
    <3>1. pp[x] \in C \cup {t} /\ qq[pp[x]] = x
      <4>1. CASE p[x] = h
        BY <4>1, <2>2, <1>1
      <4>2. CASE p[x] # h
        BY <4>2, <2>2, <1>1
      <4>3. QED
        BY <4>1, <4>2
    <3>2. qq[x] \in C \cup {t} /\ pp[qq[x]] = x
      <4>1. CASE q[x] = h
        BY <4>1, <2>2, <1>1
      <4>2. CASE q[x] # h
        BY <4>2, <2>2, <1>1
      <4>3. QED
        BY <4>1, <4>2
    <3>3. QED
      BY <3>1, <3>2
  <2>3. QED
    BY <2>1, <2>2
<1>4. QED
  BY <1>3 DEF Mutual

-----------------------------------------------------------------------------
(* Arithmetic of ticks *)

\* Quotient and remainder.
LEMMA DivMod ==
    ASSUME NEW a \in Int, NEW b \in Nat \ {0}
    PROVE  /\ a \div b \in Int /\ a % b \in Int /\ 0 <= a % b /\ a % b < b
           /\ a = b * (a \div b) + (a % b)
<1>1. a \div b \in Int
  OBVIOUS
<1>2. a % b \in Int /\ 0 <= a % b /\ a % b < b
  OBVIOUS
<1>3. a = b * (a \div b) + (a % b)
  OBVIOUS
<1>4. QED
  BY <1>1, <1>2, <1>3

\* Each step of u is worth b.
LEMMA TimesMonotone ==
    ASSUME NEW b \in Nat \ {0}, NEW u \in Int, NEW v \in Int, u + 1 <= v
    PROVE  b * u + b <= b * v
OBVIOUS

\* Two ticks less than a turn apart with the same index are the same.
LEMMA SameTurn ==
    ASSUME NEW x \in Nat, NEW y \in Nat, NEW b \in Nat \ {0},
           x % b = y % b, x <= y, y < x + b
    PROVE  x = y
<1> DEFINE u == x \div b
           v == y \div b
           w == x % b
<1>1. u \in Int /\ v \in Int /\ w \in Int
  BY DivMod
<1>2. x = b * u + w /\ y = b * v + w
  BY DivMod
<1> HIDE DEF u, v, w
<1>3. b * u \in Int /\ b * v \in Int
  BY <1>1
<1>4. ASSUME u + 1 <= v PROVE FALSE
  <2>1. b * u + b <= b * v
    BY <1>1, <1>4, TimesMonotone
  <2>2. QED
    BY <2>1, <1>1, <1>2, <1>3
<1>5. ASSUME v + 1 <= u PROVE FALSE
  <2>1. b * v + b <= b * u
    BY <1>1, <1>5, TimesMonotone
  <2>2. QED
    BY <2>1, <1>1, <1>2, <1>3
<1>6. u = v
  BY <1>1, <1>4, <1>5
<1>7. QED
  BY <1>2, <1>6

\* The reach of a level is a whole number of turns of any level below it.
LEMMA LevelDivides ==
    ASSUME NEW j \in 0 .. Levels, NEW i \in 0 .. j
    PROVE  \E m \in Nat : LevelMax[j] = m * LevelMax[i]
<1>0. Levels \in Nat /\ LevelSize \in Nat /\ i \in Nat /\ j \in Nat
  BY SizesAssumption
<1> DEFINE S == {d \in Nat : i + d <= Levels => \E m \in Nat : LevelMax[i + d] = m * LevelMax[i]}
<1>1. 0 \in S
  <2>1. LevelMax[i + 0] = 1 * LevelMax[i]
    BY LevelMaxDef, <1>0
  <2>2. QED
    BY <2>1
<1>2. ASSUME NEW d \in Nat, d \in S PROVE d + 1 \in S
  <2> SUFFICES ASSUME i + (d + 1) <= Levels
               PROVE  \E m \in Nat : LevelMax[i + (d + 1)] = m * LevelMax[i]
    OBVIOUS
  <2>1. i + d <= Levels /\ i + (d + 1) \in 0 .. Levels /\ i + (d + 1) > 0 /\ (i + (d + 1)) - 1 = i + d
    BY <1>0
  <2>2. PICK m \in Nat : LevelMax[i + d] = m * LevelMax[i]
    BY <1>2, <2>1
  <2>3. LevelMax[i + (d + 1)] = LevelSize * (m * LevelMax[i])
    BY <2>1, <2>2, LevelMaxDef
  <2>4. LevelMax[i] \in Nat
    BY LevelMaxDef, <1>0
  <2>5. LevelSize * (m * LevelMax[i]) = (LevelSize * m) * LevelMax[i] /\ LevelSize * m \in Nat
    BY <2>4, <1>0
  <2>6. QED
    BY <2>3, <2>5
<1> HIDE DEF S
<1>3. j - i \in S /\ i + (j - i) = j
  BY <1>1, <1>2, NatSetInduction, <1>0
<1>4. QED
  BY <1>3, <1>0 DEF S

\* The first level that reaches a distance exists, and the level before it
\* does not reach it.
LEMMA LevelExists ==
    ASSUME NEW d \in Nat, NearSize <= d, d <= MaxVal
    PROVE  LET l == CHOOSE i \in 0 .. Levels - 1 :
                       /\ d < LevelMax[i + 1]
                       /\ \A k \in 0 .. i - 1 : d >= LevelMax[k + 1]
           IN  l \in 0 .. Levels - 1 /\ LevelMax[l] <= d
<1> DEFINE Is(i) == d < LevelMax[i + 1] /\ \A k \in 0 .. i - 1 : d >= LevelMax[k + 1]
           l == CHOOSE i \in 0 .. Levels - 1 : Is(i)
<1>0. Levels \in Nat /\ Levels > 0
  BY SizesAssumption
<1>1. \E i \in 0 .. Levels - 1 : Is(i)
  <2> SUFFICES ASSUME \A i \in 0 .. Levels - 1 : ~Is(i) PROVE FALSE
    OBVIOUS
  <2> DEFINE S == {i \in Nat : \A k \in 0 .. i - 1 : k < Levels => d >= LevelMax[k + 1]}
  <2>1. 0 \in S
    OBVIOUS
  <2>2. ASSUME NEW i \in Nat, i \in S PROVE i + 1 \in S
    <3> SUFFICES ASSUME NEW k \in 0 .. i, k < Levels PROVE d >= LevelMax[k + 1]
      OBVIOUS
    <3>1. CASE k < i
      BY <3>1, <2>2
    <3>2. CASE k = i
      <4>1. i \in 0 .. Levels - 1 /\ \A m \in 0 .. i - 1 : d >= LevelMax[m + 1]
        BY <3>2, <2>2, <1>0
      <4>2. ~(d < LevelMax[i + 1])
        BY <4>1
      <4>3. i + 1 \in 0 .. Levels
        BY <4>1, <1>0
      <4>4. LevelMax[i + 1] \in Nat
        BY <4>3, LevelMaxDef
      <4>5. QED
        BY <4>2, <4>4, <3>2
    <3>3. QED
      BY <3>1, <3>2
  <2> HIDE DEF S
  <2>3. Levels \in S
    BY <2>1, <2>2, NatSetInduction, <1>0
  <2>4. Levels - 1 \in 0 .. Levels - 1 /\ (Levels - 1) + 1 = Levels /\ Levels - 1 < Levels
    BY <1>0
  <2>5. d >= LevelMax[Levels]
    BY <2>3, <2>4 DEF S
  <2>6. LevelMax[Levels] \in Nat
    BY LevelMaxDef, <1>0
  <2>7. QED
    BY <2>5, <2>6 DEF MaxVal
<1>2. l \in 0 .. Levels - 1 /\ Is(l)
  <2> HIDE DEF Is
  <2>1. QED
    BY <1>1
<1> HIDE DEF l
<1>3. LevelMax[l] <= d
  <2>1. CASE l = 0
    BY <2>1, LevelMaxDef
  <2>2. CASE l # 0
    <3>1. l - 1 \in 0 .. l - 1 /\ (l - 1) + 1 = l /\ l \in 0 .. Levels
      BY <2>2, <1>2, <1>0
    <3>2. d >= LevelMax[l] /\ LevelMax[l] \in Nat
      BY <3>1, <1>2, LevelMaxDef
    <3>3. QED
      BY <3>2
  <2>3. QED
    BY <2>1, <2>2
<1>4. QED
  BY <1>2, <1>3 DEF l

\* Where a node is put: into the near list of its tick if the tick is at most
\* a turn ahead, and else into a list of a level that is cascaded after now
\* and, if the tick is not past, not after it.
LEMMA SlotForWhere ==
    ASSUME NEW e \in 0 .. Word - 1, NEW now \in 0 .. Horizon
    PROVE  \/ /\ now <= e /\ e < now + NearSize
              /\ SlotFor(e, now) = Near(e % NearSize)
           \/ \E l \in 0 .. Levels - 1, k \in Nat :
                 /\ SlotFor(e, now) = <<l + 2, k % LevelSize>>
                 /\ now <= e => now < k * LevelMax[l] /\ k * LevelMax[l] <= e
<1> DEFINE idx == Sub64(e, now)
           far == idx > MaxVal
           reach == IF far THEN MaxVal ELSE idx
           at == IF far THEN MaxVal + now ELSE e
           l == CHOOSE i \in 0 .. Levels - 1 :
                   /\ reach < LevelMax[i + 1]
                   /\ \A k \in 0 .. i - 1 : reach >= LevelMax[k + 1]
           L == LevelMax[l]
           k == at \div L
<1>1. /\ Horizon \in Nat /\ Word \in Nat /\ e \in Nat /\ now \in Nat /\ Word > 0
      /\ NearSize \in Nat /\ NearSize > 0 /\ Levels \in Nat /\ Levels > 0
  BY SizesAssumption, TimesAssumption, WordAssumption
<1>2. LevelMax[Levels] \in Nat /\ NearSize < LevelMax[Levels]
  <2>1. Levels \in 0 .. Levels /\ 0 \in 0 .. Levels - 1 /\ 1 \in 0 .. Levels /\ Levels - 1 \in 0 .. Levels
    BY <1>1
  <2>2. LevelMax[Levels] = LevelSize * LevelMax[Levels - 1] /\ LevelMax[Levels - 1] \in Nat \ {0}
        /\ LevelMax[Levels] \in Nat
    BY <2>1, <1>1, LevelMaxDef
  <2>3. PICK m \in Nat : LevelMax[Levels - 1] = m * NearSize
    BY <2>1, <1>1, LevelDivides, LevelMaxDef
  <2>4. LevelMax[Levels - 1] >= NearSize
    <3>1. m # 0
      BY <2>2, <2>3, <1>1
    <3>2. m * NearSize >= NearSize
      BY <3>1, <1>1
    <3>3. QED
      BY <3>2, <2>3
  <2> DEFINE u == LevelMax[Levels - 1]
  <2>5. u \in Nat /\ u >= NearSize /\ LevelMax[Levels] = LevelSize * u
    BY <2>2, <2>4
  <2> HIDE DEF u
  <2>6. LevelSize * u >= 2 * u
    BY <2>5, SizesAssumption
  <2>7. QED
    BY <2>2, <2>5, <2>6, <1>1
<1>3. MaxVal \in Nat /\ NearSize <= MaxVal /\ MaxVal + Horizon < Word
  BY <1>1, <1>2, WordAssumption DEF MaxVal
<1>4. idx \in Nat /\ IF now <= e THEN idx = e - now ELSE idx > MaxVal
  <2>1. CASE now <= e
    <3>1. e - now \in Nat /\ e - now < Word
      BY <2>1, <1>1
    <3>2. (e - now) % Word = e - now
      BY <3>1, <1>1
    <3>3. QED
      BY <3>1, <3>2, <2>1 DEF Sub64
  <2>2. CASE ~(now <= e)
    <3>1. e - now \in Int /\ e - now < 0 /\ -Word <= e - now
      BY <2>2, <1>1, <1>3
    <3>2. (e - now) % Word = (e - now) + Word
      BY <3>1, <1>1
    <3>3. (e - now) + Word \in Nat /\ (e - now) + Word > MaxVal
      BY <1>1, <1>3
    <3>4. QED
      BY <3>2, <3>3, <2>2 DEF Sub64
  <2>3. QED
    BY <2>1, <2>2
<1>5. SlotFor(e, now) = IF InNear(idx) THEN Near(e % NearSize) ELSE <<l + 2, k % LevelSize>>
  BY DEF SlotFor
<1> HIDE DEF idx
<1>6. CASE InNear(idx)
  <2>1. idx < NearSize
    BY <1>6 DEF InNear
  <2>2. now <= e /\ e < now + NearSize
    BY <2>1, <1>1, <1>3, <1>4
  <2>3. QED
    BY <2>2, <1>5, <1>6
<1>7. CASE ~InNear(idx)
  <2>1. idx >= NearSize
    BY <1>1, <1>4, <1>7 DEF InNear
  <2>2. reach \in Nat /\ NearSize <= reach /\ reach <= MaxVal
    BY <2>1, <1>1, <1>3, <1>4
  <2>3. at \in Nat /\ (now <= e => at = now + reach /\ at <= e)
    BY <1>1, <1>3, <1>4
  <2> HIDE DEF reach, at
  <2>4. l \in 0 .. Levels - 1 /\ LevelMax[l] <= reach
    BY <2>2, LevelExists
  <2> HIDE DEF l
  <2>5. L \in Nat \ {0} /\ L <= reach
    <3>1. l \in 0 .. Levels
      BY <2>4, <1>1
    <3>2. QED
      BY <3>1, <2>4, LevelMaxDef
  <2> HIDE DEF L
  <2>6. k \in Nat /\ L * k <= at /\ at < L * k + L
    BY <2>3, <2>5
  <2> HIDE DEF k
  <2>7. k * L = L * k /\ L * k \in Nat
    BY <2>5, <2>6
  <2>8. now <= e => now < k * L /\ k * L <= e
    BY <2>2, <2>3, <2>5, <2>6, <2>7, <1>1
  <2>9. SlotFor(e, now) = <<l + 2, k % LevelSize>>
    BY <1>5, <1>7
  <2>10. QED
    BY <2>4, <2>6, <2>8, <2>9 DEF L
<1>8. QED
  BY <1>6, <1>7

\* A node is always put into a list that exists.
LEMMA SlotForType ==
    ASSUME NEW e \in 0 .. Word - 1, NEW now \in 0 .. Horizon
    PROVE  SlotFor(e, now) \in Slots
<1>1. NearSize \in Nat \ {0} /\ LevelSize \in Nat \ {0} /\ Levels \in Nat /\ e \in Nat
  BY SizesAssumption, WordAssumption
<1>2. CASE SlotFor(e, now) = Near(e % NearSize)
  <2>1. e % NearSize \in 0 .. NearSize - 1
    BY <1>1
  <2>2. QED
    BY <2>1, <1>2 DEF Slots
<1>3. ASSUME NEW l \in 0 .. Levels - 1, NEW k \in Nat, SlotFor(e, now) = <<l + 2, k % LevelSize>>
      PROVE  SlotFor(e, now) \in Slots
  <2>1. l + 2 \in 2 .. Levels + 1 /\ k % LevelSize \in 0 .. LevelSize - 1
    BY <1>1
  <2>2. QED
    BY <2>1, <1>3 DEF Slots
<1>4. QED
  BY <1>2, <1>3, SlotForWhere

-----------------------------------------------------------------------------
(* Types *)

\* Facts about the constants.
LEMMA Sizes ==
    /\ NearSize \in Nat \ {0} /\ LevelSize \in Nat \ {0} /\ Levels \in Nat \ {0}
    /\ Horizon \in Nat /\ MaxStops \in Nat /\ Word \in Nat
    /\ \A i \in 0 .. NearSize - 1 : Near(i) \in Slots
    /\ \A l \in 0 .. Levels - 1, i \in 0 .. LevelSize - 1 : <<l + 2, i>> \in Slots
    /\ tmp \notin Slots /\ tmp \notin Timers /\ Slots \cap Timers = {}
    /\ Slots \subseteq Links /\ Timers \subseteq Links /\ tmp \in Links
<1>1. /\ NearSize \in Nat \ {0} /\ LevelSize \in Nat \ {0} /\ Levels \in Nat \ {0}
      /\ Horizon \in Nat /\ MaxStops \in Nat /\ Word \in Nat
  BY SizesAssumption, TimesAssumption, WordAssumption
<1>2. \A i \in 0 .. NearSize - 1 : Near(i) \in Slots
  BY DEF Slots
<1>3. \A l \in 0 .. Levels - 1, i \in 0 .. LevelSize - 1 : <<l + 2, i>> \in Slots
  <2> SUFFICES ASSUME NEW l \in 0 .. Levels - 1, NEW i \in 0 .. LevelSize - 1
               PROVE  <<l + 2, i>> \in Slots
    OBVIOUS
  <2>1. l + 2 \in 2 .. Levels + 1
    BY <1>1
  <2>2. QED
    BY <2>1 DEF Slots
<1>4. tmp \notin Slots
  BY <1>1 DEF tmp, Slots, Near
<1>5. QED
  BY <1>1, <1>2, <1>3, <1>4, TimersAssumption DEF Links, Heads

\* lockPushBack keeps the types, and no node gets a version that is to come.
LEMMA PushTypes ==
    ASSUME TypeOK, NEW n \in Timers, NEW s \in Slots, PushBack(n, s)
    PROVE  /\ next' \in [Links -> Links] /\ prev' \in [Links -> Links]
           /\ len' \in [Slots -> Int] /\ version' = version
           /\ nlist' \in [Timers -> Slots] /\ nversion' \in [Timers -> Nat]
           /\ \A m \in Timers : nversion[m] <= version[nlist[m]] => nversion'[m] <= version[nlist'[m]]
<1>1. /\ next \in [Links -> Links] /\ prev \in [Links -> Links] /\ len \in [Slots -> Int]
      /\ version \in [Slots -> Nat] /\ nlist \in [Timers -> Slots] /\ nversion \in [Timers -> Nat]
  BY DEF TypeOK
<1>2. n \in Links /\ s \in Links
  BY Sizes
<1>3. CASE stop[n]
  BY <1>1, <1>3 DEF PushBack, slotVars
<1>4. CASE ~stop[n]
  <2>1. next' \in [Links -> Links] /\ prev' \in [Links -> Links]
    BY <1>1, <1>2, <1>4 DEF PushBack, AddTail, add
  <2>2. len' \in [Slots -> Int] /\ version' = version
    BY <1>1, <1>4 DEF PushBack
  <2>3. nlist' = [nlist EXCEPT ![n] = s] /\ nversion' = [nversion EXCEPT ![n] = version[s]]
    BY <1>4 DEF PushBack
  <2>4. nlist' \in [Timers -> Slots] /\ nversion' \in [Timers -> Nat]
    BY <1>1, <2>3
  <2>5. \A m \in Timers : nversion[m] <= version[nlist[m]] => nversion'[m] <= version[nlist'[m]]
    BY <1>1, <2>3
  <2>6. QED
    BY <2>1, <2>2, <2>4, <2>5
<1>5. QED
  BY <1>3, <1>4

\* Taking a list keeps the types, and versions only grow.
LEMMA TakeTypes ==
    ASSUME TypeOK, NEW s \in Slots, TakeList(s)
    PROVE  /\ next' \in [Links -> Links] /\ prev' \in [Links -> Links]
           /\ len' \in [Slots -> Int] /\ version' \in [Slots -> Nat] /\ pos' \in Links
           /\ \A t \in Slots : version[t] <= version'[t]
<1>1. /\ next \in [Links -> Links] /\ prev \in [Links -> Links] /\ len \in [Slots -> Int]
      /\ version \in [Slots -> Nat]
  BY DEF TypeOK
<1>2. s \in Links /\ tmp \in Links
  BY Sizes
<1>3. next' \in [Links -> Links] /\ prev' \in [Links -> Links]
  BY <1>1, <1>2 DEF TakeList, ReplaceInit
<1>4. len' \in [Slots -> Int] /\ version' \in [Slots -> Nat]
  BY <1>1 DEF TakeList
<1>5. \A t \in Slots : version[t] <= version'[t]
  BY <1>1 DEF TakeList
<1>6. pos' \in Links
  BY <1>2, <1>3 DEF TakeList
<1>7. QED
  BY <1>3, <1>4, <1>5, <1>6

\* The types and simple facts hold at the start.
LEMMA BaseInit == Init => Base
<1> SUFFICES ASSUME Init PROVE Base
  OBVIOUS
<1>1. Near(0) \in Slots /\ tmp \in Links
  BY Sizes
<1>2. TypeOK
  <2>1. calls \in [Timers -> 0 .. MaxStops]
    BY Sizes DEF Init
  <2>2. level \in 0 .. Levels - 1 /\ jiffies \in 0 .. Horizon
    BY Sizes DEF Init
  <2>3. 0 \in 0 .. Word - 1
    BY Sizes, WordAssumption, LevelMaxDef
  <2>4. /\ next \in [Links -> Links] /\ prev \in [Links -> Links]
        /\ len \in [Slots -> Int] /\ version \in [Slots -> Nat]
        /\ expire \in [Timers -> 0 .. Word - 1] /\ period \in [Timers -> Int]
        /\ stop \in [Timers -> BOOLEAN]
        /\ nlist \in [Timers -> Slots] /\ nversion \in [Timers -> Nat]
    BY <1>1, <2>3 DEF Init
  <2>5. QED
    BY <1>1, <2>1, <2>2, <2>4 DEF Init, TypeOK
<1>3. \A n \in Timers : NodeBase(n)
  BY <1>1, Sizes DEF Init, NodeBase
<1>4. QED
  BY <1>2, <1>3 DEF Base, Init

\* Every node keeps its part when only the tick counter grows and what this
\* part speaks of is left alone.
LEMMA NodeBaseSame ==
    ASSUME Base, TypeOK', jiffies' >= jiffies, NEW n \in Timers,
           /\ stop'[n] = stop[n] /\ calls'[n] = calls[n] /\ adding'[n] = adding[n]
           /\ stopper'[n] = stopper[n] /\ period'[n] = period[n] /\ pushed'[n] = pushed[n]
           /\ loaded'[n] = loaded[n],
           nversion'[n] <= version'[nlist'[n]]
    PROVE  NodeBase(n)'
<1>1. NodeBase(n) /\ loaded[n] \in Nat /\ jiffies \in Nat /\ jiffies' \in Nat
  BY Sizes DEF Base, TypeOK
<1>2. QED
  BY <1>1 DEF NodeBase

\* AfterFunc and ScheduleFunc keep them,
LEMMA BaseAdd ==
    ASSUME Base, NEW n \in Timers, AfterFunc(n) \/ ScheduleFunc(n)
    PROVE  Base'
<1>1. PICK e \in Delays \cup Periods, p \in Periods \cup {-1} : AddLoad(n, e, p)
  BY DEF AfterFunc, ScheduleFunc
<1>2. e \in Nat /\ Horizon + e < Word /\ p \in Int /\ Horizon \in Nat /\ Word \in Nat
  BY TimesAssumption, WordAssumption
<1>3. jiffies \in Nat /\ jiffies <= Horizon
  BY <1>2 DEF Base, TypeOK
<1>4. jiffies + e \in 0 .. Word - 1 /\ jiffies + e \in Nat
  BY <1>2, <1>3
<1>5. TypeOK'
  BY <1>1, <1>2, <1>3, <1>4 DEF Base, TypeOK, AddLoad, slotVars, stopVars, wheelVars
<1>6. ASSUME NEW m \in Timers PROVE NodeBase(m)'
  BY <1>1, <1>2, <1>3, <1>4 DEF Base, TypeOK, NodeBase, AddLoad, slotVars, stopVars
<1>7. QED
  BY <1>1, <1>5, <1>6 DEF Base, AddLoad, wheelVars

\* the push of their node,
LEMMA BasePush ==
    ASSUME Base, NEW n \in Timers, AddPush(n)
    PROVE  Base'
<1> DEFINE s == SlotFor(expire[n], loaded[n])
<1>1. expire[n] \in 0 .. Word - 1 /\ loaded[n] \in 0 .. Horizon
  BY Sizes DEF Base, TypeOK, NodeBase
<1>2. s \in Slots
  BY <1>1, SlotForType
<1>3. PushBack(n, s)
  BY DEF AddPush
<1> HIDE DEF s
<1>4. /\ next' \in [Links -> Links] /\ prev' \in [Links -> Links]
      /\ len' \in [Slots -> Int] /\ version' = version
      /\ nlist' \in [Timers -> Slots] /\ nversion' \in [Timers -> Nat]
      /\ \A m \in Timers : nversion[m] <= version[nlist[m]] => nversion'[m] <= version[nlist'[m]]
  BY <1>2, <1>3, PushTypes DEF Base
<1>5. TypeOK'
  BY <1>4 DEF Base, TypeOK, AddPush, stopVars, wheelVars
<1>6. ASSUME NEW m \in Timers PROVE NodeBase(m)'
  <2>1. NodeBase(m) /\ nversion'[m] <= version'[nlist'[m]]
    BY <1>4 DEF Base, NodeBase
  <2>2. CASE m = n
    BY <2>1, <2>2 DEF Base, TypeOK, NodeBase, AddPush, stopVars
  <2>3. CASE m # n
    BY <2>1, <2>3 DEF Base, TypeOK, NodeBase, AddPush, stopVars
  <2>4. QED
    BY <2>2, <2>3
<1>7. QED
  BY <1>5, <1>6 DEF Base, AddPush, wheelVars

\* the three steps of Stop,
LEMMA BaseStop ==
    ASSUME Base, NEW n \in Stops, StopFlag(n) \/ StopLoad(n) \/ StopDel(n)
    PROVE  Base'
<1>0. n \in Timers
  BY TimersAssumption
<1>1. CASE StopFlag(n)
  <2>1. calls[n] \in Nat /\ calls[n] <= MaxStops /\ MaxStops \in Nat
    BY <1>0, Sizes DEF Base, TypeOK
  <2>2. calls' \in [Timers -> 0 .. MaxStops]
    <3>1. calls[n] - 1 \in 0 .. MaxStops
      BY <2>1, <1>1 DEF StopFlag
    <3>2. QED
      BY <3>1, <1>1 DEF Base, TypeOK, StopFlag
  <2>3. TypeOK'
    BY <1>0, <1>1, <2>2 DEF Base, TypeOK, StopFlag, slotVars, addVars, wheelVars, history
  <2>4. ASSUME NEW m \in Timers PROVE NodeBase(m)'
    BY <1>0, <1>1, <2>1 DEF Base, TypeOK, NodeBase, StopFlag, slotVars, addVars, history
  <2>5. QED
    BY <1>1, <2>3, <2>4 DEF Base, StopFlag, wheelVars
<1>2. CASE StopLoad(n)
  <2>1. TypeOK'
    BY <1>0, <1>2 DEF Base, TypeOK, StopLoad, slotVars, nodeVars, addVars, wheelVars, history
  <2>2. ASSUME NEW m \in Timers PROVE NodeBase(m)'
    BY <1>0, <1>2 DEF Base, TypeOK, NodeBase, StopLoad, slotVars, nodeVars, addVars, history
  <2>3. QED
    BY <1>2, <2>1, <2>2 DEF Base, StopLoad, wheelVars
<1>3. CASE StopDel(n)
  <2>1. next' \in [Links -> Links] /\ prev' \in [Links -> Links] /\ len' \in [Slots -> Int]
        /\ cut' \in BOOLEAN
    <3>1. /\ next \in [Links -> Links] /\ prev \in [Links -> Links] /\ len \in [Slots -> Int]
          /\ cpyList[n] \in Slots /\ n \in Links /\ cut \in BOOLEAN
      BY <1>0, Sizes DEF Base, TypeOK
    <3>2. CASE Unmoved(n, cpyList[n])
      BY <1>3, <3>1, <3>2 DEF StopDel, Del, del
    <3>3. CASE ~Unmoved(n, cpyList[n])
      BY <1>3, <3>1, <3>3 DEF StopDel
    <3>4. QED
      BY <3>2, <3>3
  <2>2. TypeOK'
    BY <1>0, <1>3, <2>1 DEF Base, TypeOK, StopDel, nodeVars, addVars, wheelVars
  <2>3. ASSUME NEW m \in Timers PROVE NodeBase(m)'
    BY <1>0, <1>3 DEF Base, TypeOK, NodeBase, StopDel, nodeVars, addVars
  <2>4. QED
    BY <1>3, <2>2, <2>3 DEF Base, StopDel, wheelVars
<1>4. QED
  BY <1>1, <1>2, <1>3

\* The lists that the wheel takes.
cascadeSlot == <<level + 2, levelIndex>>
nearSlot == Near((jiffies - 1) % NearSize)

\* cascade and moveAndExec take lists that exist.
LEMMA TakenSlots ==
    ASSUME TypeOK PROVE cascadeSlot \in Slots /\ nearSlot \in Slots
<1>1. level \in 0 .. Levels - 1 /\ jiffies \in Int /\ level \in 0 .. Levels
  BY Sizes DEF TypeOK
<1>2. LevelMax[level] \in Nat \ {0}
  BY <1>1, LevelMaxDef
<1>3. jiffies \div LevelMax[level] \in Int
  BY <1>1, <1>2
<1>4. levelIndex \in 0 .. LevelSize - 1
  BY <1>3, Sizes DEF levelIndex
<1>5. (jiffies - 1) % NearSize \in 0 .. NearSize - 1
  BY <1>1, Sizes
<1>6. QED
  BY <1>1, <1>4, <1>5, Sizes DEF cascadeSlot, nearSlot

\* the cascade,
LEMMA BaseCascade ==
    ASSUME Base, Tick \/ CascadeTake \/ CascadeAdd \/ CascadeNext
    PROVE  Base'
<1>0. jiffies \in Nat /\ Horizon \in Nat /\ level \in 0 .. Levels - 1 /\ Levels \in Nat \ {0}
  BY Sizes DEF Base, TypeOK
<1>1. CASE Tick
  <2>1. TypeOK'
    BY <1>0, <1>1 DEF Base, TypeOK, Tick, slotVars, nodeVars, addVars, stopVars, history
  <2>2. ASSUME NEW m \in Timers PROVE NodeBase(m)'
    BY <1>1 DEF Base, NodeBase, Tick, slotVars, nodeVars, addVars, stopVars, history
  <2>3. QED
    BY <1>1, <2>1, <2>2 DEF Base, Tick
<1>2. CASE CascadeTake
  <2>1. /\ next' \in [Links -> Links] /\ prev' \in [Links -> Links]
        /\ len' \in [Slots -> Int] /\ version' \in [Slots -> Nat] /\ pos' \in Links
        /\ \A t \in Slots : version[t] <= version'[t]
    <3>1. CASE Empty(cascadeSlot)
      BY <1>2, <3>1 DEF CascadeTake, cascadeSlot, Base, TypeOK, slotVars
    <3>2. CASE ~Empty(cascadeSlot)
      <4>1. TakeList(cascadeSlot)
        BY <1>2, <3>2 DEF CascadeTake, cascadeSlot
      <4>2. QED
        BY <4>1, TakeTypes, TakenSlots, Zenon DEF Base
    <3>3. QED
      BY <3>1, <3>2
  <2>2. TypeOK'
    BY <1>2, <2>1 DEF Base, TypeOK, CascadeTake, nodeVars, addVars, stopVars, history
  <2>3. ASSUME NEW m \in Timers PROVE NodeBase(m)'
    <3>1. /\ NodeBase(m) /\ nlist[m] \in Slots /\ nversion[m] \in Nat
          /\ version[nlist[m]] \in Nat /\ version'[nlist[m]] \in Nat
          /\ nversion[m] <= version[nlist[m]] /\ version[nlist[m]] <= version'[nlist[m]]
      BY <2>1 DEF Base, TypeOK, NodeBase
    <3>2. nversion'[m] <= version'[nlist'[m]]
      BY <1>2, <3>1 DEF CascadeTake, nodeVars
    <3>3. QED
      BY <1>2, <3>1, <3>2 DEF NodeBase, CascadeTake, nodeVars, addVars, stopVars, history
  <2>4. QED
    BY <1>2, <2>2, <2>3 DEF Base, CascadeTake
<1>3. CASE CascadeAdd
  <2> DEFINE s == SlotFor(expire[pos], jiffies)
  <2>1. pos \in Timers /\ s \in Slots
    BY <1>3, SlotForType DEF CascadeAdd, Base, TypeOK
  <2>2. PushBack(pos, s)
    BY <1>3 DEF CascadeAdd
  <2> HIDE DEF s
  <2>3. /\ next' \in [Links -> Links] /\ prev' \in [Links -> Links]
        /\ len' \in [Slots -> Int] /\ version' = version
        /\ nlist' \in [Timers -> Slots] /\ nversion' \in [Timers -> Nat]
        /\ \A m \in Timers : nversion[m] <= version[nlist[m]] => nversion'[m] <= version[nlist'[m]]
    BY <2>1, <2>2, PushTypes DEF Base
  <2>4. pos' \in Links
    BY <1>3, <2>1, Sizes DEF CascadeAdd, SafeNext, Base, TypeOK
  <2>5. TypeOK'
    BY <1>3, <2>3, <2>4 DEF Base, TypeOK, CascadeAdd, addVars, stopVars, history
  <2>6. ASSUME NEW m \in Timers PROVE NodeBase(m)'
    <3>1. NodeBase(m) /\ nversion'[m] <= version'[nlist'[m]]
      BY <2>3 DEF Base, NodeBase
    <3>2. QED
      BY <1>3, <3>1 DEF NodeBase, CascadeAdd, addVars, stopVars, history
  <2>7. QED
    BY <1>3, <2>5, <2>6 DEF Base, CascadeAdd
<1>4. CASE CascadeNext
  <2>1. next' \in [Links -> Links] /\ prev' \in [Links -> Links] /\ len' = len /\ version' = version
        /\ pos' = pos
    BY <1>4, Sizes DEF CascadeNext, DropTmp, Base, TypeOK
  <2>2. level' \in 0 .. Levels - 1 /\ wheel' \in {"cascade", "inc"}
    BY <1>0, <1>4 DEF CascadeNext, MoreLevels
  <2>3. TypeOK'
    BY <1>4, <2>1, <2>2 DEF Base, TypeOK, CascadeNext, nodeVars, addVars, stopVars, history
  <2>4. ASSUME NEW m \in Timers PROVE NodeBase(m)'
    BY <1>4, <2>1 DEF Base, NodeBase, CascadeNext, nodeVars, addVars, stopVars, history
  <2>5. QED
    BY <1>4, <2>2, <2>3, <2>4 DEF Base, CascadeNext
<1>5. QED
  BY <1>1, <1>2, <1>3, <1>4

\* the tick and the running of its list,
LEMMA BaseExec ==
    ASSUME Base, Inc \/ Take \/ Exec \/ ExecAdd \/ ExecEnd
    PROVE  Base'
<1>0. jiffies \in Nat /\ jiffies <= Horizon /\ Horizon \in Nat /\ Word \in Nat
  BY Sizes DEF Base, TypeOK
<1>1. CASE Inc
  <2>1. jiffies' = jiffies + 1 /\ jiffies < Horizon
    BY <1>1 DEF Base, Inc
  <2>2. jiffies' \in 0 .. Horizon /\ jiffies' > 0 /\ jiffies <= jiffies'
    BY <1>0, <2>1
  <2>3. TypeOK'
    BY <1>1, <2>2 DEF Base, TypeOK, Inc, slotVars, nodeVars, addVars, stopVars, history
  <2>4. ASSUME NEW m \in Timers PROVE NodeBase(m)'
    BY <1>1, <2>2, <2>3, NodeBaseSame
       DEF Base, NodeBase, Inc, slotVars, nodeVars, addVars, stopVars, history
  <2>5. QED
    BY <1>1, <2>2, <2>3, <2>4 DEF Base, Inc
<1>2. CASE Take
  <2>1. /\ next' \in [Links -> Links] /\ prev' \in [Links -> Links]
        /\ len' \in [Slots -> Int] /\ version' \in [Slots -> Nat] /\ pos' \in Links
        /\ \A t \in Slots : version[t] <= version'[t]
    <3>1. CASE Empty(nearSlot)
      BY <1>2, <3>1 DEF Take, nearSlot, Base, TypeOK, slotVars
    <3>2. CASE ~Empty(nearSlot)
      <4>1. TakeList(nearSlot)
        BY <1>2, <3>2 DEF Take, nearSlot
      <4>2. QED
        BY <4>1, TakeTypes, TakenSlots, Zenon DEF Base
    <3>3. QED
      BY <3>1, <3>2
  <2>2. wheel' \in {"idle", "exec"}
    BY <1>2 DEF Take
  <2>3. TypeOK'
    BY <1>2, <2>1, <2>2 DEF Base, TypeOK, Take, nodeVars, addVars, stopVars, history
  <2>4. ASSUME NEW m \in Timers PROVE NodeBase(m)'
    <3>1. /\ NodeBase(m) /\ nlist[m] \in Slots /\ nversion[m] \in Nat
          /\ version[nlist[m]] \in Nat /\ version'[nlist[m]] \in Nat
          /\ nversion[m] <= version[nlist[m]] /\ version[nlist[m]] <= version'[nlist[m]]
      BY <2>1 DEF Base, TypeOK, NodeBase
    <3>2. nversion'[m] <= version'[nlist'[m]]
      BY <1>2, <3>1 DEF Take, nodeVars
    <3>3. QED
      BY <1>2, <3>1, <3>2 DEF NodeBase, Take, nodeVars, addVars, stopVars, history
  <2>5. QED
    BY <1>2, <2>2, <2>3, <2>4 DEF Base, Take
<1>3. CASE Exec
  <2>1. next' \in [Links -> Links] /\ prev' \in [Links -> Links] /\ pos' \in Links /\ pos \in Timers
    <3>1. pos \in Links /\ next \in [Links -> Links] /\ prev \in [Links -> Links]
      BY DEF Base, TypeOK
    <3>2. next' \in [Links -> Links] /\ prev' \in [Links -> Links]
      BY <1>3, <3>1 DEF Exec, Del, del
    <3>3. QED
      BY <1>3, <3>1, <3>2 DEF Exec, SafeNext
  <2>2. /\ period[pos] \in Periods \cup {-1} /\ due[pos] \in Nat /\ NodeBase(pos)
        /\ due \in [Timers -> Nat] /\ lag \in [Timers -> Int] /\ ran \in [Timers -> BOOLEAN]
        /\ expire \in [Timers -> 0 .. Word - 1] /\ jiffies > 0
    BY <1>3, <2>1 DEF Base, TypeOK, NodeBase, Exec
  <2>3. due' \in [Timers -> Nat] /\ lag' \in [Timers -> Int] /\ ran' \in [Timers -> BOOLEAN]
    <3>1. CASE stop[pos]
      BY <1>3, <2>2, <3>1 DEF Exec
    <3>2. CASE ~stop[pos]
      <4>1. jiffies - 1 - due[pos] \in Int
        BY <1>0, <2>2
      <4>2. (IF period[pos] = -1 THEN due[pos] ELSE NextDue(due[pos] + period[pos])) \in Nat
        BY <1>0, <2>2, TimesAssumption DEF NextDue
      <4>3. QED
        BY <1>3, <2>2, <3>2, <4>1, <4>2 DEF Exec
    <3>3. QED
      BY <3>1, <3>2
  <2>4. expire' \in [Timers -> 0 .. Word - 1] /\ wheel' \in {"exec", "again"}
    <3>1. CASE stop[pos] \/ period[pos] = -1
      BY <1>3, <2>2, <3>1 DEF Exec
    <3>2. CASE ~(stop[pos] \/ period[pos] = -1)
      <4>1. period[pos] \in Nat /\ Horizon + period[pos] < Word
        BY <2>2, <3>2, TimesAssumption, WordAssumption
      <4>2. period[pos] + jiffies - 1 \in 0 .. Word - 1
        BY <1>0, <2>2, <4>1
      <4>3. QED
        BY <1>3, <2>2, <3>2, <4>2 DEF Exec
    <3>3. QED
      BY <3>1, <3>2
  <2>5. TypeOK'
    BY <1>3, <2>1, <2>3, <2>4 DEF Base, TypeOK, Exec, addVars, stopVars
  <2>6. ASSUME NEW m \in Timers PROVE NodeBase(m)'
    BY <1>3, <2>5, NodeBaseSame DEF Base, NodeBase, Exec, addVars, stopVars
  <2>7. wheel' = "again" => pos' \in Timers
    BY <1>3, <2>1 DEF Exec
  <2>8. QED
    BY <1>3, <2>2, <2>4, <2>5, <2>6, <2>7 DEF Base, Exec
<1>4. CASE ExecAdd
  <2> DEFINE s == SlotFor(expire[pos], jiffies)
  <2>1. pos \in Timers /\ s \in Slots
    BY <1>4, SlotForType DEF ExecAdd, Base, TypeOK
  <2>2. PushBack(pos, s)
    BY <1>4 DEF ExecAdd
  <2> HIDE DEF s
  <2>3. /\ next' \in [Links -> Links] /\ prev' \in [Links -> Links]
        /\ len' \in [Slots -> Int] /\ version' = version
        /\ nlist' \in [Timers -> Slots] /\ nversion' \in [Timers -> Nat]
        /\ \A m \in Timers : nversion[m] <= version[nlist[m]] => nversion'[m] <= version[nlist'[m]]
    BY <2>1, <2>2, PushTypes DEF Base
  <2>4. pos' \in Links
    BY <1>4, <2>1, Sizes DEF ExecAdd, SafeNext, Base, TypeOK
  <2>5. TypeOK'
    BY <1>4, <2>3, <2>4 DEF Base, TypeOK, ExecAdd, addVars, stopVars, history
  <2>6. ASSUME NEW m \in Timers PROVE NodeBase(m)'
    <3>1. NodeBase(m) /\ nversion'[m] <= version'[nlist'[m]]
      BY <2>3 DEF Base, NodeBase
    <3>2. QED
      BY <1>4, <3>1 DEF NodeBase, ExecAdd, addVars, stopVars, history
  <2>7. QED
    BY <1>4, <2>5, <2>6 DEF Base, ExecAdd
<1>5. CASE ExecEnd
  <2>1. next' \in [Links -> Links] /\ prev' \in [Links -> Links] /\ len' = len /\ version' = version
        /\ pos' = pos
    BY <1>5, Sizes DEF ExecEnd, DropTmp, Base, TypeOK
  <2>2. TypeOK'
    BY <1>5, <2>1 DEF Base, TypeOK, ExecEnd, nodeVars, addVars, stopVars, history
  <2>3. ASSUME NEW m \in Timers PROVE NodeBase(m)'
    BY <1>5, <2>1 DEF Base, NodeBase, ExecEnd, nodeVars, addVars, stopVars, history
  <2>4. QED
    BY <1>5, <2>2, <2>3 DEF Base, ExecEnd
<1>6. QED
  BY <1>1, <1>2, <1>3, <1>4, <1>5

\* and so does every step.
LEMMA BaseStep == Base /\ [Next]_vars => Base'
<1> SUFFICES ASSUME Base, [Next]_vars PROVE Base'
  OBVIOUS
<1>1. CASE WheelStep
  BY <1>1, BaseCascade, BaseExec DEF WheelStep
<1>2. ASSUME NEW n \in Timers, AfterFunc(n) \/ ScheduleFunc(n) \/ AddPush(n) PROVE Base'
  BY <1>2, BaseAdd, BasePush
<1>3. ASSUME NEW n \in Stops, StopFlag(n) \/ StopLoad(n) \/ StopDel(n) PROVE Base'
  BY <1>3, BaseStop
<1>4. CASE UNCHANGED vars
  <2>1. TypeOK'
    BY <1>4 DEF Base, TypeOK, vars, slotVars, nodeVars, addVars, stopVars, wheelVars, history
  <2>2. ASSUME NEW n \in Timers PROVE NodeBase(n)'
    BY <1>4 DEF Base, NodeBase, vars, slotVars, nodeVars, addVars, stopVars, wheelVars, history
  <2>3. QED
    BY <1>4, <2>1, <2>2 DEF Base, vars, wheelVars
<1>5. QED
  BY <1>1, <1>2, <1>3, <1>4 DEF Next

\* Every value keeps its type: no action of the time wheel, in whatever order
\* the callers, the stoppers and the loop take their steps, indexes a level or
\* a slot that does not exist or computes a tick beyond uint64.
THEOREM TypesHold == Spec => []TypeOK
<1>1. Init => Base
  BY BaseInit
<1>2. Base /\ [Next]_vars => Base'
  BY BaseStep
<1>3. Base => TypeOK
  BY DEF Base
<1>4. QED
  BY <1>1, <1>2, <1>3, PTL DEF Spec

-----------------------------------------------------------------------------
(* What the list operations do to the lists *)

\* The list of s consists of the nodes M when the pointers go round them.
LEMMA RingNew ==
    ASSUME NEW s \in Slots, NEW M \in SUBSET Timers, Mutual(next', prev', M \cup {s}),
           Round(next', M \cup {s}, s), Round(prev', M \cup {s}, s), len'[s] = Cardinality(M)
    PROVE  Nodes(s)' = M /\ Ringed(s)'
<1> DEFINE R == M \cup {s}
<1>1. s \notin M /\ R \ {s} = M
  BY Sizes
<1>2. R \ {s} \in SUBSET Timers /\ Mutual(next', prev', R) /\ Round(next', R, s)
  BY <1>1
<1> HIDE DEF R
<1>3. NodesFrom(next', next'[s], s) = R \ {s}
  BY <1>2, RingNodes
<1>4. Nodes(s)' = M
  BY <1>1, <1>3 DEF Nodes
<1>5. List(s)' = R
  BY <1>4 DEF List, R
<1>6. QED
  BY <1>4, <1>5 DEF Ringed, R

\* A list whose pointers are left alone.
LEMMA RingKept ==
    ASSUME NEW s \in Slots, Ringed(s), len'[s] = len[s],
           \A y \in List(s) : next'[y] = next[y] /\ prev'[y] = prev[y]
    PROVE  Nodes(s)' = Nodes(s) /\ Ringed(s)'
<1> DEFINE M == Nodes(s)
           R == M \cup {s}
<1>1. /\ M \in SUBSET Timers /\ Mutual(next, prev, R) /\ Round(next, R, s) /\ Round(prev, R, s)
      /\ len'[s] = Cardinality(M) /\ \A y \in R : next'[y] = next[y] /\ prev'[y] = prev[y]
  BY DEF Ringed, List
<1> HIDE DEF M
<1>2. Mutual(next', prev', R) /\ Round(next', R, s)
  <2> HIDE DEF R
  <2>1. QED
    BY <1>1, RingSame
<1>3. Round(prev', R, s)
  <2> HIDE DEF R
  <2>1. Mutual(prev, next, R)
    BY <1>1, MutualSwap
  <2>2. QED
    BY <1>1, <2>1, RingSame
<1>4. Nodes(s)' = M /\ Ringed(s)'
  BY <1>1, <1>2, <1>3, RingNew
<1>5. QED
  BY <1>4 DEF M

\* Two lists have no link in common.
LEMMA ListsApart ==
    ASSUME RingInv, NEW s \in Slots, NEW t \in Slots, s # t
    PROVE  List(s) \cap List(t) = {}
<1>1. /\ \A n \in Nodes(s) : n \in Timers /\ nlist[n] = s
      /\ \A n \in Nodes(t) : n \in Timers /\ nlist[n] = t
  BY DEF RingInv, Ringed, Unmoved
<1>2. s \notin Timers /\ t \notin Timers
  BY Sizes
<1>3. QED
  BY <1>1, <1>2 DEF List

\* lockPushBack appends the node to one list.
LEMMA PushList ==
    ASSUME Base, RingInv, NEW n \in Timers, NEW s \in Slots, PushBack(n, s), ~stop[n],
           \A t \in Slots : n \notin Nodes(t)
    PROVE  /\ Nodes(s)' = Nodes(s) \cup {n}
           /\ \A t \in Slots : Ringed(t)' /\ (t # s => Nodes(t)' = Nodes(t))
           /\ \A x \in Links : x \notin List(s) /\ x # n => next'[x] = next[x] /\ prev'[x] = prev[x]
<1> DEFINE M == Nodes(s)
           R == M \cup {s}
           a == prev[s]
<1>1. /\ M \in SUBSET Timers /\ Mutual(next, prev, R) /\ Round(next, R, s) /\ Round(prev, R, s)
      /\ len[s] = Cardinality(M) /\ R = List(s)
  BY DEF RingInv, Ringed, List
<1>2. /\ next \in [Links -> Links] /\ prev \in [Links -> Links] /\ len \in [Slots -> Int]
      /\ n \in Links /\ s \in Links /\ s \notin Timers /\ n # s
  BY Sizes DEF Base, TypeOK
<1>3. n \notin M /\ n \notin R
  BY <1>2
<1>4. next' = [next EXCEPT ![n] = s, ![a] = n] /\ prev' = [prev EXCEPT ![n] = a, ![s] = n]
      /\ len' = [len EXCEPT ![s] = len[s] + 1]
  BY DEF PushBack, AddTail, add
<1> HIDE DEF M
<1>5. a \in R /\ a \in Links /\ next[a] = s /\ s \in R /\ a # n
  BY <1>1, <1>2, <1>3 DEF Mutual
<1> HIDE DEF a
<1>6. /\ next'[n] = s /\ next'[a] = n /\ prev'[n] = a /\ prev'[s] = n
      /\ \A y \in Links : y # n /\ y # a => next'[y] = next[y]
      /\ \A y \in Links : y # n /\ y # s => prev'[y] = prev[y]
  BY <1>2, <1>4, <1>5
<1>7. R \subseteq Links
  BY <1>1, <1>2, Sizes
<1> HIDE DEF R
<1>8. /\ \A y \in R \ {a} : next'[y] = next[y]
      /\ \A y \in R \ {s} : prev'[y] = prev[y]
      /\ prev[s] = a /\ \A x \in R : next[x] \in R /\ prev[x] \in R
  BY <1>1, <1>3, <1>6, <1>7 DEF a, Mutual
<1>9. Mutual(next', prev', R \cup {n})
  BY <1>1, <1>3, <1>5, <1>6, <1>8, InsertMutual
<1>10. Round(next', R \cup {n}, s)
  BY <1>1, <1>3, <1>5, <1>6, <1>8, InsertRound
<1>11. Round(prev', R \cup {n}, s)
  BY <1>1, <1>3, <1>5, <1>6, <1>8, InsertRound
<1>12. M \cup {n} \in SUBSET Timers /\ R \cup {n} = (M \cup {n}) \cup {s}
  BY <1>1 DEF R
<1>13. len'[s] = Cardinality(M \cup {n})
  <2>1. IsFiniteSet(M)
    BY <1>1, TimersAssumption, FS_Subset
  <2>2. Cardinality(M \cup {n}) = Cardinality(M) + 1
    BY <2>1, <1>3, FS_AddElement
  <2>3. QED
    BY <2>2, <1>1, <1>2, <1>4
<1>14. Nodes(s)' = M \cup {n} /\ Ringed(s)'
  <2> DEFINE MM == M \cup {n}
  <2>1. MM \in SUBSET Timers /\ len'[s] = Cardinality(MM) /\ Mutual(next', prev', MM \cup {s})
        /\ Round(next', MM \cup {s}, s) /\ Round(prev', MM \cup {s}, s)
    BY <1>9, <1>10, <1>11, <1>12, <1>13
  <2> HIDE DEF MM
  <2>2. Nodes(s)' = MM /\ Ringed(s)'
    BY <2>1, RingNew
  <2>3. QED
    BY <2>2 DEF MM
<1>15. ASSUME NEW t \in Slots, t # s PROVE Ringed(t)' /\ Nodes(t)' = Nodes(t)
  <2>1. Ringed(t) /\ len'[t] = len[t]
    BY <1>2, <1>4, <1>15 DEF RingInv
  <2>2. List(t) \cap R = {} /\ n \notin List(t) /\ List(t) \subseteq Links
    <3>1. List(t) \cap List(s) = {}
      BY <1>15, ListsApart
    <3>2. List(t) \subseteq Timers \cup {t}
      BY <2>1 DEF Ringed, List
    <3>3. n \notin Nodes(t) /\ n # t
      BY Sizes
    <3>4. QED
      BY <3>1, <3>2, <3>3, <1>1, Sizes DEF List
  <2>3. \A y \in List(t) : next'[y] = next[y] /\ prev'[y] = prev[y]
    BY <2>2, <1>5, <1>6
  <2>4. QED
    BY <2>1, <2>3, RingKept
<1>16. \A x \in Links : x \notin R /\ x # n => next'[x] = next[x] /\ prev'[x] = prev[x]
  BY <1>5, <1>6
<1>17. QED
  BY <1>1, <1>14, <1>15, <1>16 DEF M

\* Unlinking a node takes it out of its list.
LEMMA DelList ==
    ASSUME Base, RingInv, NEW s \in Slots, NEW n \in Nodes(s), Del(n),
           len' = [len EXCEPT ![s] = @ - 1]
    PROVE  /\ Nodes(s)' = Nodes(s) \ {n}
           /\ \A t \in Slots : Ringed(t)' /\ (t # s => Nodes(t)' = Nodes(t))
           /\ \A x \in Links : x \notin List(s) => next'[x] = next[x] /\ prev'[x] = prev[x]
<1> DEFINE M == Nodes(s)
           R == M \cup {s}
           a == prev[n]
           b == next[n]
<1>1. /\ M \in SUBSET Timers /\ Mutual(next, prev, R) /\ Round(next, R, s) /\ Round(prev, R, s)
      /\ len[s] = Cardinality(M) /\ R = List(s)
  BY DEF RingInv, Ringed, List
<1>2. /\ next \in [Links -> Links] /\ prev \in [Links -> Links] /\ len \in [Slots -> Int]
      /\ n \in Timers /\ n \in Links /\ s \in Links /\ s \notin Timers /\ n # s
  BY <1>1, Sizes DEF Base, TypeOK
<1>3. n \in M /\ n \in R
  OBVIOUS
<1>4. next' = [next EXCEPT ![a] = b] /\ prev' = [prev EXCEPT ![b] = a]
      /\ len' = [len EXCEPT ![s] = len[s] - 1]
  BY DEF Del, del
<1> HIDE DEF M
<1>5. R \subseteq Links /\ s \in R
  BY <1>1, <1>2, Sizes
<1> HIDE DEF R
<1>6. Mutual(prev, next, R)
  BY <1>1, MutualSwap
<1>7. a \in R /\ b \in R /\ a # n /\ b # n
  BY <1>1, <1>2, <1>3, NotAlone DEF Mutual
<1>8. /\ next'[a] = b /\ prev'[b] = a
      /\ \A y \in Links : y # a => next'[y] = next[y]
      /\ \A y \in Links : y # b => prev'[y] = prev[y]
  BY <1>2, <1>4, <1>5, <1>7
<1>9. /\ \A y \in R \ {a} : next'[y] = next[y]
      /\ \A y \in R \ {b} : prev'[y] = prev[y]
  BY <1>5, <1>8
<1>10. a = prev[n] /\ b = next[n] /\ next'[a] = next[n] /\ prev'[b] = prev[n]
  BY <1>8
<1> HIDE DEF a, b
<1>11. Mutual(next', prev', R \ {n})
  BY <1>1, <1>3, <1>7, <1>8, <1>9, <1>10, RemoveMutual
<1>12. Round(next', R \ {n}, s)
  BY <1>1, <1>2, <1>3, <1>7, <1>9, <1>10, RemoveRound
<1>13. Round(prev', R \ {n}, s)
  BY <1>1, <1>2, <1>3, <1>6, <1>7, <1>9, <1>10, RemoveRound
<1>14. M \ {n} \in SUBSET Timers /\ R \ {n} = (M \ {n}) \cup {s}
  BY <1>1, <1>2 DEF R
<1>15. len'[s] = Cardinality(M \ {n})
  <2>1. IsFiniteSet(M)
    BY <1>1, TimersAssumption, FS_Subset
  <2>2. Cardinality(M \ {n}) = Cardinality(M) - 1
    BY <2>1, <1>3, FS_RemoveElement
  <2>3. QED
    BY <2>2, <1>1, <1>2, <1>4
<1>16. Nodes(s)' = M \ {n} /\ Ringed(s)'
  <2> DEFINE MM == M \ {n}
  <2>1. MM \in SUBSET Timers /\ len'[s] = Cardinality(MM) /\ Mutual(next', prev', MM \cup {s})
        /\ Round(next', MM \cup {s}, s) /\ Round(prev', MM \cup {s}, s)
    BY <1>11, <1>12, <1>13, <1>14, <1>15
  <2> HIDE DEF MM
  <2>2. Nodes(s)' = MM /\ Ringed(s)'
    BY <2>1, RingNew
  <2>3. QED
    BY <2>2 DEF MM
<1>17. ASSUME NEW t \in Slots, t # s PROVE Ringed(t)' /\ Nodes(t)' = Nodes(t)
  <2>1. Ringed(t) /\ len'[t] = len[t]
    BY <1>2, <1>4, <1>17 DEF RingInv
  <2>2. List(t) \cap R = {} /\ List(t) \subseteq Links
    <3>1. List(t) \cap List(s) = {}
      BY <1>17, ListsApart
    <3>2. List(t) \subseteq Timers \cup {t}
      BY <2>1 DEF Ringed, List
    <3>3. QED
      BY <3>1, <3>2, <1>1, Sizes
  <2>3. \A y \in List(t) : next'[y] = next[y] /\ prev'[y] = prev[y]
    BY <2>2, <1>7, <1>8
  <2>4. QED
    BY <2>1, <2>3, RingKept
<1>18. \A x \in Links : x \notin R => next'[x] = next[x] /\ prev'[x] = prev[x]
  BY <1>7, <1>8
<1>19. QED
  BY <1>1, <1>16, <1>17, <1>18 DEF M

\* Taking a list moves its nodes, in their order, behind tmp.
LEMMA TakeAll ==
    ASSUME Base, RingInv, NEW s \in Slots, TakeList(s), ~Empty(s)
    PROVE  /\ Nodes(s)' = {}
           /\ \A t \in Slots : Ringed(t)' /\ (t # s => Nodes(t)' = Nodes(t))
           /\ pos' \in Nodes(s) /\ Path(next', pos', tmp, Nodes(s))
           /\ Mutual(next', prev', Nodes(s) \cup {tmp}) /\ next'[tmp] = pos'
<1> DEFINE M == Nodes(s)
           R == M \cup {s}
           a == prev[s]
           b == next[s]
<1>1. /\ M \in SUBSET Timers /\ Mutual(next, prev, R) /\ Round(next, R, s) /\ Round(prev, R, s)
      /\ len[s] = Cardinality(M) /\ R = List(s)
  BY DEF RingInv, Ringed, List
<1>2. /\ next \in [Links -> Links] /\ prev \in [Links -> Links] /\ len \in [Slots -> Int]
      /\ s \in Links /\ s \notin Timers /\ tmp \in Links /\ tmp \notin Timers /\ tmp # s
      /\ R \subseteq Links /\ s \notin M /\ tmp \notin M
  BY <1>1, Sizes DEF Base, TypeOK
<1> HIDE DEF M
<1>3. M # {}
  <2>1. len[s] # 0
    BY DEF Empty
  <2>2. QED
    BY <2>1, <1>1, FS_EmptySet
<1>4. b # s
  <2> SUFFICES ASSUME b = s PROVE FALSE
    OBVIOUS
  <2>1. {s} \in SUBSET R /\ s \in {s} /\ \A y \in {s} : next[y] \in {s}
    OBVIOUS
  <2>2. {s} = R
    <3> HIDE DEF R
    <3>1. QED
      BY <2>1, <1>1 DEF Round
  <2>3. QED
    BY <2>2, <1>2, <1>3
<1>5. \A x \in R : next[x] \in R /\ prev[x] \in R /\ prev[next[x]] = x /\ next[prev[x]] = x
  BY <1>1 DEF Mutual
<1>6. a \in M /\ b \in M /\ next[a] = s /\ prev[b] = s
  BY <1>4, <1>5
<1>7. /\ next' = [next EXCEPT ![tmp] = b, ![a] = tmp, ![s] = s]
      /\ prev' = [prev EXCEPT ![tmp] = a, ![b] = tmp, ![s] = s]
      /\ len' = [len EXCEPT ![s] = 0] /\ pos' = next'[tmp]
  BY <1>4 DEF TakeList, ReplaceInit
<1>8. a \in Links /\ b \in Links /\ a # tmp /\ b # tmp /\ a # s
  BY <1>2, <1>6
<1> HIDE DEF a, b
<1>9. /\ next'[tmp] = b /\ next'[a] = tmp /\ next'[s] = s
      /\ prev'[tmp] = a /\ prev'[b] = tmp /\ prev'[s] = s
      /\ \A y \in Links : y \notin {tmp, a, s} => next'[y] = next[y]
      /\ \A y \in Links : y \notin {tmp, b, s} => prev'[y] = prev[y]
  BY <1>2, <1>4, <1>7, <1>8
<1>10. pos' = b
  BY <1>7, <1>9
<1>11. ASSUME NEW y \in M PROVE next'[y] = IF next[y] = s THEN tmp ELSE next[y]
  <2>1. next[y] = s <=> y = a
    BY <1>5, <1>6 DEF a
  <2>2. QED
    BY <2>1, <1>2, <1>9
<1>12. ASSUME NEW y \in M PROVE prev'[y] = IF prev[y] = s THEN tmp ELSE prev[y]
  <2>1. prev[y] = s <=> y = b
    BY <1>5, <1>6 DEF b
  <2>2. QED
    BY <2>1, <1>2, <1>9
<1>13. R \ {s} = M
  BY <1>2
<1>14. Path(next, b, s, M)
  <2>1. Path(next, next[s], s, R \ {s})
    <3> HIDE DEF R
    <3>1. QED
      BY <1>1, RingPath
  <2>2. QED
    BY <2>1, <1>13 DEF b
<1>15. Path(next', b, tmp, M)
  BY <1>2, <1>6, <1>11, <1>14, PathMove
<1>16. Mutual(next', prev', M \cup {tmp})
  <2>1. next'[tmp] = next[s] /\ prev'[tmp] = prev[s] /\ next[s] # s
    BY <1>4, <1>9 DEF a, b
  <2>2. QED
    BY <2>1, <1>1, <1>2, <1>11, <1>12, MutualMove
<1>17. Nodes(s)' = {} /\ Ringed(s)'
  <2> DEFINE E == {}
  <2>1. Mutual(next', prev', E \cup {s}) /\ Round(next', E \cup {s}, s) /\ Round(prev', E \cup {s}, s)
    BY <1>9 DEF Mutual, Round
  <2>2. len'[s] = Cardinality(E) /\ E \in SUBSET Timers
    BY <1>2, <1>7, FS_EmptySet
  <2> HIDE DEF E
  <2>3. Nodes(s)' = E /\ Ringed(s)'
    BY <2>1, <2>2, RingNew
  <2>4. QED
    BY <2>3 DEF E
<1>18. ASSUME NEW t \in Slots, t # s PROVE Ringed(t)' /\ Nodes(t)' = Nodes(t)
  <2>1. Ringed(t) /\ len'[t] = len[t]
    BY <1>2, <1>7, <1>18 DEF RingInv
  <2>2. List(t) \cap R = {} /\ tmp \notin List(t) /\ List(t) \subseteq Links
    <3>1. List(t) \cap List(s) = {}
      BY <1>18, ListsApart
    <3>2. List(t) \subseteq Timers \cup {t}
      BY <2>1 DEF Ringed, List
    <3>3. QED
      BY <3>1, <3>2, <1>1, Sizes
  <2>3. \A y \in List(t) : next'[y] = next[y] /\ prev'[y] = prev[y]
    BY <2>2, <1>6, <1>9
  <2>4. QED
    BY <2>1, <2>3, RingKept
<1>19. QED
  BY <1>6, <1>9, <1>10, <1>15, <1>16, <1>17, <1>18 DEF M

\* The nodes of the chain are those of a path to tmp.
LEMMA ChainNew ==
    ASSUME NEW C \in SUBSET Timers, Path(next', pos', tmp, C)
    PROVE  Chain' = C
BY PathNodes DEF Chain

\* The chain shares no link with a list.
LEMMA ChainApart ==
    ASSUME Base, RingInv, ChainInv, NEW s \in Slots
    PROVE  (Chain \cup {tmp}) \cap List(s) = {}
<1>1. ASSUME NEW n \in Chain PROVE n \notin List(s)
  <2>1. n \in Timers /\ nversion[n] < version[nlist[n]]
    BY DEF ChainInv
  <2>2. nversion[n] \in Nat /\ version[nlist[n]] \in Nat
    BY <2>1 DEF Base, TypeOK
  <2>3. ~Unmoved(n, s)
    BY <2>1, <2>2 DEF Unmoved
  <2>4. n \notin Nodes(s) /\ n # s
    BY <2>1, <2>3, Sizes DEF RingInv
  <2>5. QED
    BY <2>4 DEF List
<1>2. tmp \notin List(s)
  BY Sizes DEF RingInv, Ringed, List
<1>3. QED
  BY <1>1, <1>2

-----------------------------------------------------------------------------
(* Each action keeps the lists *)

\* Actions that leave all pointers alone.
LEMMA ListsSame ==
    ASSUME Base, Lists, UNCHANGED <<next, prev, len, version, pos, nlist, nversion>>,
           \A n \in Timers : adding[n] = "done" => adding'[n] = "done",
           \/ wheel' = wheel
           \/ /\ wheel \in {"idle", "cascade", "inc", "take"}
              /\ wheel' \in {"idle", "cascade", "inc", "take", "readd"},
           \A n \in Timers : adding'[n] = "done" /\ Fresh(n)' => adding[n] = "done" /\ Fresh(n),
           \A n \in Timers : Pending(n)' => Pending(n)
    PROVE  /\ Lists' /\ Chain' = Chain /\ Rest' = Rest
           /\ \A s \in Slots : Nodes(s)' = Nodes(s)
<1>1. \A s \in Slots : Nodes(s)' = Nodes(s) /\ List(s)' = List(s)
  BY DEF Nodes, List
<1>2. Chain' = Chain
  BY DEF Chain
<1>3. Rest' = Rest /\ First' = First
  BY <1>2 DEF Rest, First
<1>4. RingInv'
  <2> SUFFICES ASSUME NEW s \in Slots
               PROVE  Ringed(s)' /\ \A n \in Nodes(s)' : adding'[n] = "done" /\ Unmoved(n, s)'
    BY DEF RingInv
  <2>1. Ringed(s) /\ \A n \in Nodes(s) : n \in Timers /\ adding[n] = "done" /\ Unmoved(n, s)
    BY DEF Lists, RingInv, Ringed
  <2>2. Ringed(s)'
    BY <1>1, <2>1 DEF Ringed
  <2>3. QED
    BY <1>1, <2>1, <2>2 DEF Unmoved
<1>5. ChainInv'
  <2>1. Chain \subseteq Timers /\ Path(next, pos, tmp, Chain)
    BY DEF Lists, ChainInv
  <2>2. Chain' \subseteq Timers /\ Path(next, pos, tmp, Chain)'
    BY <1>2, <2>1
  <2>3. \A n \in Chain' : adding'[n] = "done" /\ (nversion[n] < version[nlist[n]])'
    BY <1>2 DEF Lists, ChainInv
  <2>4. /\ (wheel \notin {"readd", "exec", "again"} => pos = tmp)'
        /\ (wheel = "again" => pos # tmp)'
        /\ (wheel # "readd" => Mutual(next, prev, Rest \cup {tmp}) /\ next[tmp] = First)'
    BY <1>3 DEF Lists, ChainInv
  <2>5. QED
    BY <2>2, <2>3, <2>4 DEF ChainInv
<1>6. HomeInv'
  BY <1>1, <1>2 DEF Lists, HomeInv, Unmoved, Base, TypeOK
<1>7. QED
  BY <1>1, <1>2, <1>3, <1>4, <1>5, <1>6 DEF Lists

\* Actions that leave the pointers of the chain alone.
LEMMA ChainKept ==
    ASSUME Base, ChainInv, UNCHANGED <<pos, wheel>>,
           \A x \in Chain \cup {tmp} : next'[x] = next[x] /\ prev'[x] = prev[x]
    PROVE  /\ Chain' = Chain /\ Rest' = Rest
           /\ Path(next', pos', tmp, Chain)
           /\ wheel' # "readd" => Mutual(next', prev', Rest \cup {tmp}) /\ next'[tmp] = First'
<1>1. Chain \subseteq Timers /\ Path(next, pos, tmp, Chain)
  BY DEF ChainInv
<1>2. Path(next', pos', tmp, Chain)
  BY <1>1, PathSame
<1>3. Chain' = Chain
  BY <1>1, <1>2, ChainNew
<1>4. Rest' = Rest /\ Rest \subseteq Chain
  BY <1>3 DEF Rest
<1>5. wheel = "again" => pos \in Chain
  BY <1>1 DEF ChainInv, Path
<1>6. First' = First
  BY <1>5 DEF First
<1>7. ASSUME wheel # "readd" PROVE Mutual(next', prev', Rest \cup {tmp}) /\ next'[tmp] = First'
  <2>1. Mutual(next, prev, Rest \cup {tmp}) /\ next[tmp] = First
    BY <1>7 DEF ChainInv
  <2> DEFINE R == Rest \cup {tmp}
  <2>2. Mutual(next, prev, R) /\ \A y \in R : next'[y] = next[y] /\ prev'[y] = prev[y]
    BY <2>1, <1>4
  <2> HIDE DEF R
  <2>3. Mutual(next', prev', R)
    BY <2>2, RingSame
  <2>4. QED
    BY <2>1, <2>3, <1>6 DEF R
<1>8. QED
  BY <1>2, <1>3, <1>4, <1>7

\* AfterFunc and ScheduleFunc touch no list until they push,
LEMMA ListsAddLoad ==
    ASSUME Base, Lists, NEW n \in Timers, AfterFunc(n) \/ ScheduleFunc(n)
    PROVE  Lists' /\ Chain' = Chain /\ Rest' = Rest /\ \A s \in Slots : Nodes(s)' = Nodes(s)
<1>1. PICK e \in Delays \cup Periods, p \in Periods \cup {-1} : AddLoad(n, e, p)
  BY DEF AfterFunc, ScheduleFunc
<1>2. /\ UNCHANGED <<next, prev, len, version, pos, nlist, nversion, stop, calls, stopper, ran, wheel>>
      /\ adding[n] = "new" /\ adding' = [adding EXCEPT ![n] = "push"]
      /\ period' = [period EXCEPT ![n] = p]
  BY <1>1 DEF AddLoad, slotVars, stopVars, wheelVars
<1>3. adding \in [Timers -> {"new", "push", "done"}] /\ period \in [Timers -> Int]
  BY DEF Base, TypeOK
<1>4. \A m \in Timers : adding'[m] = "done" <=> adding[m] = "done"
  BY <1>2, <1>3
<1>5. \A m \in Timers : Pending(m)' => Pending(m)
  BY <1>2, <1>3, <1>4 DEF Pending
<1>6. \A m \in Timers : Fresh(m)' <=> Fresh(m)
  BY <1>2 DEF Fresh
<1>7. QED
  BY <1>2, <1>4, <1>5, <1>6, ListsSame

\* nor does Stop until it has the lock,
LEMMA ListsStopEarly ==
    ASSUME Base, Lists, NEW n \in Stops, StopFlag(n) \/ StopLoad(n)
    PROVE  Lists' /\ Chain' = Chain /\ Rest' = Rest /\ \A s \in Slots : Nodes(s)' = Nodes(s)
<1>1. /\ UNCHANGED <<next, prev, len, version, pos, nlist, nversion, adding, period, ran, wheel>>
  BY DEF StopFlag, StopLoad, slotVars, nodeVars, addVars, wheelVars, history
<1>2. n \in Timers /\ MaxStops \in Nat
  BY TimersAssumption, Sizes
<1>3. /\ stop \in [Timers -> BOOLEAN] /\ calls \in [Timers -> 0 .. MaxStops]
      /\ stopper \in [Timers -> {"idle", "load", "lock"}]
  BY DEF Base, TypeOK
<1>4. ASSUME NEW m \in Timers PROVE (Pending(m)' => Pending(m)) /\ (Fresh(m)' => Fresh(m))
  <2>1. CASE StopFlag(n)
    <3>1. /\ stop' = [stop EXCEPT ![n] = TRUE] /\ stopper' = [stopper EXCEPT ![n] = "load"]
          /\ calls' = [calls EXCEPT ![n] = calls[n] - 1]
      BY <2>1 DEF StopFlag
    <3>2. stop[n] => calls[n] < MaxStops
      BY <1>2 DEF Base, NodeBase
    <3>3. calls[n] \in Nat
      BY <1>2, <1>3
    <3>4. CASE m = n
      BY <3>1, <3>2, <3>3, <3>4, <1>1, <1>2, <1>3 DEF Pending, Fresh
    <3>5. CASE m # n
      BY <3>1, <3>5, <1>1, <1>2, <1>3 DEF Pending, Fresh
    <3>6. QED
      BY <3>4, <3>5
  <2>2. CASE StopLoad(n)
    <3>1. stopper' = [stopper EXCEPT ![n] = "lock"] /\ stop' = stop /\ calls' = calls
          /\ stopper[n] = "load"
      BY <2>2 DEF StopLoad, nodeVars
    <3>2. QED
      BY <3>1, <1>1, <1>2, <1>3 DEF Pending, Fresh
  <2>3. QED
    BY <2>1, <2>2
<1>5. QED
  BY <1>1, <1>4, ListsSame

\* nor do the start of moveAndExec and the increment of jiffies.
LEMMA ListsTime ==
    ASSUME Base, Lists, Tick \/ Inc
    PROVE  Lists' /\ Chain' = Chain /\ Rest' = Rest /\ \A s \in Slots : Nodes(s)' = Nodes(s)
<1>1. UNCHANGED <<next, prev, len, version, pos, nlist, nversion, adding, period, ran, stop,
                  calls, stopper>>
  BY DEF Tick, Inc, slotVars, nodeVars, addVars, stopVars, history
<1>2. {wheel, wheel'} \subseteq {"idle", "cascade", "inc", "take"}
  BY DEF Tick, Inc
<1>3. \A m \in Timers : (Pending(m)' => Pending(m)) /\ (Fresh(m)' => Fresh(m))
  BY <1>1 DEF Pending, Fresh
<1>4. QED
  BY <1>1, <1>2, <1>3, ListsSame

\* The new node is put into the one list that SlotFor gives.
LEMMA ListsAddPush ==
    ASSUME Base, Lists, NEW n \in Timers, AddPush(n), NEW s, s = SlotFor(expire[n], loaded[n])
    PROVE  /\ Lists' /\ Chain' = Chain /\ Rest' = Rest
           /\ s \in Slots /\ Nodes(s)' = Nodes(s) \cup {n} /\ n \notin Chain
           /\ \A t \in Slots : n \notin Nodes(t) /\ (t # s => Nodes(t)' = Nodes(t))
<1>1. s \in Slots
  <2>1. expire[n] \in 0 .. Word - 1 /\ loaded[n] \in 0 .. Horizon
    BY Sizes DEF Base, TypeOK, NodeBase
  <2>2. QED
    BY <2>1, SlotForType
<1>2. /\ adding[n] = "push" /\ adding' = [adding EXCEPT ![n] = "done"] /\ PushBack(n, s)
      /\ UNCHANGED <<pos, wheel, period, ran, stop, calls, stopper>>
  BY DEF AddPush, stopVars, wheelVars
<1>3. ~stop[n] /\ NodeBase(n)
  BY <1>2 DEF Base, NodeBase
<1>4. \A t \in Slots : n \notin Nodes(t)
  BY <1>2 DEF Lists, RingInv
<1>5. n \notin Chain
  BY <1>2 DEF Lists, ChainInv
<1>6. /\ Nodes(s)' = Nodes(s) \cup {n}
      /\ \A t \in Slots : Ringed(t)' /\ (t # s => Nodes(t)' = Nodes(t))
      /\ \A x \in Links : x \notin List(s) /\ x # n => next'[x] = next[x] /\ prev'[x] = prev[x]
  BY <1>1, <1>2, <1>3, <1>4, PushList DEF Lists
<1>7. /\ nlist' = [nlist EXCEPT ![n] = s] /\ nversion' = [nversion EXCEPT ![n] = version[s]]
      /\ version' = version
  BY <1>2, <1>3 DEF PushBack
<1>8. /\ nlist \in [Timers -> Slots] /\ nversion \in [Timers -> Nat] /\ version \in [Slots -> Nat]
      /\ adding \in [Timers -> {"new", "push", "done"}]
  BY DEF Base, TypeOK
<1>9. Unmoved(n, s)' /\ nlist'[n] = s
  BY <1>1, <1>7, <1>8 DEF Unmoved
<1>10. \A m \in Timers, t \in Slots : m # n => (Unmoved(m, t)' <=> Unmoved(m, t))
  BY <1>7, <1>8 DEF Unmoved
<1>11. \A m \in Timers : m # n => nlist'[m] = nlist[m] /\ nversion'[m] = nversion[m] /\ adding'[m] = adding[m]
  BY <1>2, <1>7, <1>8
<1>12. RingInv'
  <2> SUFFICES ASSUME NEW t \in Slots, NEW m \in Nodes(t)'
               PROVE  adding'[m] = "done" /\ Unmoved(m, t)'
    BY <1>6 DEF RingInv
  <2>1. CASE m = n
    <3>1. t = s
      BY <2>1, <1>4, <1>6
    <3>2. QED
      BY <2>1, <3>1, <1>2, <1>8, <1>9
  <2>2. CASE m # n
    <3>1. m \in Nodes(t) /\ m \in Timers
      BY <2>2, <1>6 DEF Lists, RingInv, Ringed
    <3>2. adding[m] = "done" /\ Unmoved(m, t)
      BY <3>1 DEF Lists, RingInv
    <3>3. QED
      BY <2>2, <3>1, <3>2, <1>10, <1>11
  <2>3. QED
    BY <2>1, <2>2
<1>13. /\ Chain' = Chain /\ Rest' = Rest /\ Path(next', pos', tmp, Chain)
       /\ wheel' # "readd" => Mutual(next', prev', Rest \cup {tmp}) /\ next'[tmp] = First'
  <2>1. \A x \in Chain \cup {tmp} : x \in Links /\ x \notin List(s) /\ x # n
    BY <1>1, <1>5, ChainApart, Sizes DEF Lists, ChainInv
  <2>2. QED
    BY <2>1, <1>2, <1>6, ChainKept DEF Lists
<1>14. ChainInv'
  <2>1. \A m \in Chain : m # n /\ m \in Timers /\ adding[m] = "done" /\ nversion[m] < version[nlist[m]]
    BY <1>5 DEF Lists, ChainInv
  <2>2. \A m \in Chain' : adding'[m] = "done" /\ (nversion[m] < version[nlist[m]])'
    BY <2>1, <1>7, <1>11, <1>13
  <2>3. Chain' \subseteq Timers
    BY <2>1, <1>13
  <2>4. Path(next, pos, tmp, Chain)'
    BY <1>13
  <2>5. (wheel # "readd" => Mutual(next, prev, Rest \cup {tmp}) /\ next[tmp] = First)'
    BY <1>13
  <2>6. QED
    BY <2>2, <2>3, <2>4, <2>5, <1>2 DEF Lists, ChainInv
<1>15. HomeInv'
  <2> SUFFICES ASSUME NEW m \in Timers
               PROVE  /\ adding'[m] = "done" /\ Unmoved(m, nlist[m])' /\ Fresh(m)' => m \in Nodes(nlist[m])'
                      /\ Pending(m)' /\ ~Unmoved(m, nlist[m])' => m \in Chain'
    BY DEF HomeInv
  <2>1. CASE m = n
    BY <2>1, <1>6, <1>9
  <2>2. CASE m # n
    <3>1. nlist[m] \in Slots /\ nlist'[m] = nlist[m] /\ (Unmoved(m, nlist[m])' <=> Unmoved(m, nlist[m]))
      BY <2>2, <1>8, <1>10, <1>11 DEF Unmoved
    <3>2. (Fresh(m)' <=> Fresh(m)) /\ (Pending(m)' <=> Pending(m))
      BY <2>2, <1>2, <1>11 DEF Fresh, Pending
    <3>3. /\ adding[m] = "done" /\ Unmoved(m, nlist[m]) /\ Fresh(m) => m \in Nodes(nlist[m])
          /\ Pending(m) /\ ~Unmoved(m, nlist[m]) => m \in Chain
      BY DEF Lists, HomeInv
    <3>4. m \in Nodes(nlist[m]) => m \in Nodes(nlist[m])'
      BY <3>1, <1>6
    <3>5. QED
      BY <2>2, <3>1, <3>2, <3>3, <3>4, <1>11, <1>13
  <2>3. QED
    BY <2>1, <2>2
<1>16. QED
  BY <1>1, <1>4, <1>5, <1>6, <1>12, <1>13, <1>14, <1>15 DEF Lists

\* Stop unlinks a node that is in the list it locked: the node of a first Stop
\* that was not moved is still there, and a second one would set cut.
LEMMA ListsStopDel ==
    ASSUME Base, Lists, NEW n \in Stops, StopDel(n), ~cut'
    PROVE  Lists' /\ Chain' = Chain /\ Rest' = Rest /\ \A s \in Slots : Nodes(s)' \subseteq Nodes(s)
<1>0. n \in Timers /\ MaxStops \in Nat /\ calls[n] \in Nat /\ cpyList[n] \in Slots
  BY TimersAssumption, Sizes DEF Base, TypeOK
<1> PICK s \in Slots : s = cpyList[n]
  BY <1>0
<1>1. n \in Timers /\ MaxStops \in Nat /\ s \in Slots /\ calls[n] \in Nat
  BY <1>0
<1>2. /\ UNCHANGED <<pos, wheel, version, nlist, nversion, adding, period, ran, stop, calls>>
      /\ stopper[n] = "lock" /\ stopper' = [stopper EXCEPT ![n] = "idle"]
  BY DEF StopDel, nodeVars, addVars, wheelVars
<1>3. stop[n] /\ calls[n] < MaxStops /\ adding[n] = "done"
  <2>1. NodeBase(n)
    BY <1>1 DEF Base
  <2>2. QED
    BY <2>1, <1>2 DEF NodeBase
<1>4. stopper \in [Timers -> {"idle", "load", "lock"}] /\ nlist \in [Timers -> Slots]
  BY DEF Base, TypeOK
<1>5. \A m \in Timers : (Pending(m)' <=> Pending(m)) /\ (Fresh(m)' => Fresh(m)) /\ ~Fresh(n)'
  BY <1>1, <1>2, <1>3, <1>4 DEF Pending, Fresh
<1>6. CASE ~Unmoved(n, s)
  <2>1. UNCHANGED <<next, prev, len>>
    BY <1>6 DEF StopDel
  <2>2. QED
    BY <2>1, <1>2, <1>5, ListsSame
<1>7. CASE Unmoved(n, s)
  <2>1. /\ Del(n) /\ len' = [len EXCEPT ![s] = @ - 1]
        /\ cut' = (cut \/ (calls[n] < MaxStops - 1 /\ n \notin Nodes(s)))
    BY <1>7 DEF StopDel
  <2>2. n \in Nodes(s)
    <3>1. CASE calls[n] < MaxStops - 1
      BY <3>1, <2>1
    <3>2. CASE ~(calls[n] < MaxStops - 1)
      <4>1. calls[n] = MaxStops - 1
        BY <3>2, <1>1, <1>3
      <4>2. Fresh(n) /\ nlist[n] = s
        BY <4>1, <1>2, <1>7 DEF Fresh, Unmoved
      <4>3. QED
        BY <4>2, <1>1, <1>3, <1>7 DEF Lists, HomeInv
    <3>3. QED
      BY <3>1, <3>2
  <2>3. /\ Nodes(s)' = Nodes(s) \ {n}
        /\ \A t \in Slots : Ringed(t)' /\ (t # s => Nodes(t)' = Nodes(t))
        /\ \A x \in Links : x \notin List(s) => next'[x] = next[x] /\ prev'[x] = prev[x]
    BY <2>1, <2>2, <1>1, DelList DEF Lists
  <2>4. \A t \in Slots : Nodes(t)' \subseteq Nodes(t) /\ \A m \in Nodes(t) : m # n => m \in Nodes(t)'
    BY <2>3
  <2>5. RingInv'
    BY <2>3, <2>4, <1>2 DEF Lists, RingInv, Unmoved
  <2>6. /\ Chain' = Chain /\ Rest' = Rest /\ Path(next', pos', tmp, Chain)
        /\ wheel' # "readd" => Mutual(next', prev', Rest \cup {tmp}) /\ next'[tmp] = First'
    <3>1. \A x \in Chain \cup {tmp} : x \in Links /\ x \notin List(s)
      BY <1>1, ChainApart, Sizes DEF Lists, ChainInv
    <3>2. QED
      BY <3>1, <1>2, <2>3, ChainKept DEF Lists
  <2>7. ChainInv'
    <3>1. \A m \in Chain' : adding'[m] = "done" /\ (nversion[m] < version[nlist[m]])'
      BY <2>6, <1>2 DEF Lists, ChainInv
    <3>2. Chain' \subseteq Timers /\ Path(next, pos, tmp, Chain)'
      BY <2>6 DEF Lists, ChainInv
    <3>3. (wheel # "readd" => Mutual(next, prev, Rest \cup {tmp}) /\ next[tmp] = First)'
      BY <2>6
    <3>4. QED
      BY <3>1, <3>2, <3>3, <1>2 DEF Lists, ChainInv
  <2>8. HomeInv'
    <3> SUFFICES ASSUME NEW m \in Timers
                 PROVE  /\ adding'[m] = "done" /\ Unmoved(m, nlist[m])' /\ Fresh(m)' => m \in Nodes(nlist[m])'
                        /\ Pending(m)' /\ ~Unmoved(m, nlist[m])' => m \in Chain'
      BY DEF HomeInv
    <3>1. nlist[m] \in Slots /\ nlist'[m] = nlist[m] /\ (Unmoved(m, nlist[m])' <=> Unmoved(m, nlist[m]))
      BY <1>2, <1>4 DEF Unmoved
    <3>2. /\ adding[m] = "done" /\ Unmoved(m, nlist[m]) /\ Fresh(m) => m \in Nodes(nlist[m])
          /\ Pending(m) /\ ~Unmoved(m, nlist[m]) => m \in Chain
      BY DEF Lists, HomeInv
    <3>3. Fresh(m)' => m # n
      BY <1>5
    <3>4. m # n /\ m \in Nodes(nlist[m]) => m \in Nodes(nlist[m])'
      BY <3>1, <2>4
    <3>5. QED
      BY <3>1, <3>2, <3>3, <3>4, <1>2, <1>5, <2>6
  <2>9. QED
    BY <2>4, <2>5, <2>6, <2>7, <2>8 DEF Lists
<1>8. QED
  BY <1>6, <1>7

\* The node that the loop has met is added again: it goes from the chain to a
\* list, or to none when it is stopped.
LEMMA ListsAgain ==
    ASSUME Base, Lists, CascadeAdd \/ ExecAdd, NEW n, n = pos, NEW s, s = SlotFor(expire[n], jiffies)
    PROVE  /\ Lists' /\ n \in Timers /\ n \in Chain /\ Chain' = Chain \ {n} /\ Rest' = Chain'
           /\ s \in Slots /\ Nodes(s)' = Nodes(s) \cup (IF stop[n] THEN {} ELSE {n})
           /\ \A t \in Slots : n \notin Nodes(t) /\ (t # s => Nodes(t)' = Nodes(t))
<1>1. /\ wheel \in {"readd", "again"} /\ wheel' = (IF wheel = "again" THEN "exec" ELSE "readd")
      /\ n \in Timers /\ PushBack(n, s) /\ pos' = next[n]
      /\ UNCHANGED <<adding, period, ran, stop, calls, stopper>>
  BY DEF CascadeAdd, ExecAdd, Base, SafeNext, addVars, stopVars, history
<1>2. s \in Slots
  <2>1. expire[n] \in 0 .. Word - 1 /\ jiffies \in 0 .. Horizon
    BY <1>1 DEF Base, TypeOK
  <2>2. QED
    BY <2>1, SlotForType
<1>3. Chain \subseteq Timers /\ Path(next, n, tmp, Chain) /\ n \in Chain
  <2>1. n # tmp
    BY <1>1, Sizes
  <2>2. QED
    BY <2>1 DEF Lists, ChainInv, Path
<1>4. \A t \in Slots : n \notin Nodes(t)
  BY <1>3, ChainApart DEF Lists, List
<1>5. /\ Nodes(s)' = Nodes(s) \cup (IF stop[n] THEN {} ELSE {n})
      /\ \A t \in Slots : Ringed(t)' /\ (t # s => Nodes(t)' = Nodes(t))
      /\ \A x \in Chain \cup {tmp} : x # n => next'[x] = next[x] /\ prev'[x] = prev[x]
  <2>1. CASE stop[n]
    <3>1. UNCHANGED <<next, prev, len>>
      BY <2>1, <1>1 DEF PushBack, slotVars
    <3>2. \A t \in Slots : Nodes(t)' = Nodes(t) /\ Ringed(t)
      BY <3>1 DEF Nodes, Lists, RingInv
    <3>3. \A t \in Slots : Ringed(t)'
      BY <3>1, <3>2 DEF Ringed, List
    <3>4. QED
      BY <2>1, <3>1, <3>2, <3>3, <1>2
  <2>2. CASE ~stop[n]
    <3>1. /\ Nodes(s)' = Nodes(s) \cup {n}
          /\ \A t \in Slots : Ringed(t)' /\ (t # s => Nodes(t)' = Nodes(t))
          /\ \A x \in Links : x \notin List(s) /\ x # n => next'[x] = next[x] /\ prev'[x] = prev[x]
      BY <2>2, <1>1, <1>2, <1>4, PushList DEF Lists
    <3>2. \A x \in Chain \cup {tmp} : x \in Links /\ x \notin List(s)
      BY <1>2, <1>3, ChainApart, Sizes DEF Lists
    <3>3. QED
      BY <2>2, <3>1, <3>2
  <2>3. QED
    BY <2>1, <2>2
<1>6. Path(next', pos', tmp, Chain \ {n})
  <2>1. \A y \in Chain \ {n} : next'[y] = next[y]
    BY <1>5
  <2>2. Path(next', next[n], tmp, Chain \ {n})
    BY <2>1, <1>3, PathStep
  <2>3. QED
    BY <2>2, <1>1
<1>7. Chain' = Chain \ {n}
  BY <1>3, <1>6, ChainNew
<1>8. Rest' = Chain' /\ First' = pos' /\ wheel' # "again"
  BY <1>1 DEF Rest, First
<1>9. ASSUME wheel' # "readd" PROVE Mutual(next', prev', Rest' \cup {tmp}) /\ next'[tmp] = First'
  <2> DEFINE R == (Chain \ {n}) \cup {tmp}
  <2>1. wheel = "again" /\ Rest = Chain \ {n} /\ First = next[n]
    BY <1>1, <1>9 DEF Rest, First
  <2>2. Mutual(next, prev, R) /\ next[tmp] = next[n]
    BY <2>1 DEF Lists, ChainInv
  <2>3. n # tmp
    BY <1>1, Sizes
  <2>4. \A y \in R : next'[y] = next[y] /\ prev'[y] = prev[y]
    BY <2>3, <1>5
  <2>5. R = Rest' \cup {tmp} /\ tmp \in R
    BY <1>7, <1>8
  <2> HIDE DEF R
  <2>6. Mutual(next', prev', R)
    BY <2>2, <2>4, RingSame
  <2>7. QED
    BY <2>2, <2>4, <2>5, <2>6, <1>1, <1>8
<1>10. /\ nlist \in [Timers -> Slots] /\ nversion \in [Timers -> Nat] /\ version \in [Slots -> Nat]
       /\ version' = version
  BY <1>1 DEF Base, TypeOK, PushBack, slotVars
<1>11. \A m \in Timers : m # n => nlist'[m] = nlist[m] /\ nversion'[m] = nversion[m]
  BY <1>1, <1>10 DEF PushBack
<1>12. \A m \in Timers, t \in Slots : m # n => (Unmoved(m, t)' <=> Unmoved(m, t))
  BY <1>10, <1>11 DEF Unmoved
<1>13. ~stop[n] => Unmoved(n, s)' /\ nlist'[n] = s
  BY <1>1, <1>2, <1>10 DEF PushBack, Unmoved
<1>14. adding[n] = "done" /\ ~Unmoved(n, nlist[n])
  BY <1>3, <1>10 DEF Lists, ChainInv, Unmoved
<1>15. RingInv'
  <2> SUFFICES ASSUME NEW t \in Slots, NEW m \in Nodes(t)'
               PROVE  adding'[m] = "done" /\ Unmoved(m, t)'
    BY <1>5 DEF RingInv
  <2>1. CASE m = n
    <3>1. t = s /\ ~stop[n]
      BY <2>1, <1>4, <1>5
    <3>2. QED
      BY <2>1, <3>1, <1>1, <1>13, <1>14
  <2>2. CASE m # n
    <3>1. m \in Nodes(t)
      BY <2>2, <1>5
    <3>2. m \in Timers /\ adding[m] = "done" /\ Unmoved(m, t)
      BY <3>1 DEF Lists, RingInv, Ringed
    <3>3. QED
      BY <2>2, <3>2, <1>1, <1>12
  <2>3. QED
    BY <2>1, <2>2
<1>16. ChainInv'
  <2>1. \A m \in Chain : m \in Timers /\ adding[m] = "done" /\ nversion[m] < version[nlist[m]]
    BY DEF Lists, ChainInv
  <2>2. \A m \in Chain' : adding'[m] = "done" /\ (nversion[m] < version[nlist[m]])'
    BY <2>1, <1>1, <1>7, <1>10, <1>11
  <2>3. Chain' \subseteq Timers
    BY <2>1, <1>7
  <2>4. Path(next, pos, tmp, Chain)'
    BY <1>6, <1>7
  <2>5. (wheel # "readd" => Mutual(next, prev, Rest \cup {tmp}) /\ next[tmp] = First)'
    BY <1>9
  <2>6. QED
    BY <2>2, <2>3, <2>4, <2>5, <1>1 DEF ChainInv
<1>17. HomeInv'
  <2> SUFFICES ASSUME NEW m \in Timers
               PROVE  /\ adding'[m] = "done" /\ Unmoved(m, nlist[m])' /\ Fresh(m)' => m \in Nodes(nlist[m])'
                      /\ Pending(m)' /\ ~Unmoved(m, nlist[m])' => m \in Chain'
    BY DEF HomeInv
  <2>1. CASE m = n /\ ~stop[n]
    BY <2>1, <1>5, <1>13
  <2>2. CASE m = n /\ stop[n]
    <3>1. nlist' = nlist /\ nversion' = nversion
      BY <2>2, <1>1 DEF PushBack
    <3>2. ~Unmoved(n, nlist[n])'
      BY <3>1, <1>10, <1>14 DEF Unmoved
    <3>3. ~Pending(m)'
      BY <2>2, <1>1 DEF Pending
    <3>4. QED
      BY <2>2, <3>2, <3>3
  <2>3. CASE m # n
    <3>1. nlist[m] \in Slots /\ nlist'[m] = nlist[m] /\ (Unmoved(m, nlist[m])' <=> Unmoved(m, nlist[m]))
      BY <2>3, <1>10, <1>11 DEF Unmoved
    <3>2. (Fresh(m)' <=> Fresh(m)) /\ (Pending(m)' <=> Pending(m))
      BY <1>1 DEF Fresh, Pending
    <3>3. /\ adding[m] = "done" /\ Unmoved(m, nlist[m]) /\ Fresh(m) => m \in Nodes(nlist[m])
          /\ Pending(m) /\ ~Unmoved(m, nlist[m]) => m \in Chain
      BY DEF Lists, HomeInv
    <3>4. m \in Nodes(nlist[m]) => m \in Nodes(nlist[m])'
      BY <3>1, <1>5
    <3>5. QED
      BY <2>3, <3>1, <3>2, <3>3, <3>4, <1>1, <1>7
  <2>4. QED
    BY <2>1, <2>2, <2>3
<1>18. QED
  BY <1>1, <1>2, <1>3, <1>4, <1>5, <1>7, <1>8, <1>15, <1>16, <1>17 DEF Lists

\* The node that the loop has met is unlinked from tmp and runs.
LEMMA ListsExec ==
    ASSUME Base, Lists, Exec, NEW n, n = pos
    PROVE  /\ Lists' /\ n \in Timers /\ n \in Rest /\ Rest = Chain /\ Rest' = Chain \ {n}
           /\ \A s \in Slots : Nodes(s)' = Nodes(s)
           /\ \/ wheel' = "exec" /\ Chain' = Chain \ {n}
              \/ wheel' = "again" /\ Chain' = Chain /\ pos' = n
<1>1. /\ wheel = "exec" /\ n \in Timers /\ Del(n)
      /\ UNCHANGED <<len, version, period, stop, nlist, nversion, adding, calls, stopper>>
      /\ \/ wheel' = "exec" /\ pos' = next[n] /\ (stop[n] \/ period[n] = -1)
         \/ wheel' = "again" /\ pos' = n
      /\ ran' = IF stop[n] THEN ran ELSE [ran EXCEPT ![n] = TRUE]
  BY DEF Exec, SafeNext, addVars, stopVars
<1>2. Rest = Chain /\ First = n
  BY <1>1 DEF Rest, First
<1>3. Chain \subseteq Timers /\ Path(next, n, tmp, Chain) /\ n \in Chain /\ tmp \notin Chain
  <2>1. n # tmp
    BY <1>1, Sizes
  <2>2. QED
    BY <2>1 DEF Lists, ChainInv, Path
<1> DEFINE R == Chain \cup {tmp}
           b == next[n]
<1>4. Mutual(next, prev, R) /\ next[tmp] = n /\ n \in R /\ tmp \in R
  BY <1>1, <1>2, <1>3 DEF Lists, ChainInv
<1>5. b \in R /\ b # n /\ n # tmp
  BY <1>3 DEF Path
<1>6. R \subseteq Links /\ next \in [Links -> Links] /\ prev \in [Links -> Links]
  BY <1>3, Sizes DEF Base, TypeOK
<1> HIDE DEF R
<1>7. prev[n] = tmp
  BY <1>4 DEF Mutual
<1>8. next' = [next EXCEPT ![tmp] = b] /\ prev' = [prev EXCEPT ![b] = tmp]
  BY <1>1, <1>7 DEF Del, del
<1>9. /\ next'[tmp] = b /\ prev'[b] = tmp
      /\ \A y \in Links : y # tmp => next'[y] = next[y]
      /\ \A y \in Links : y # b => prev'[y] = prev[y]
  BY <1>4, <1>5, <1>6, <1>8
<1>10. Mutual(next', prev', R \ {n})
  <2>1. /\ b = next[n] /\ tmp = prev[n] /\ tmp # n
        /\ \A y \in R \ {tmp} : next'[y] = next[y]
        /\ \A y \in R \ {b} : prev'[y] = prev[y]
    BY <1>5, <1>6, <1>7, <1>9
  <2> HIDE DEF b
  <2>2. QED
    BY <2>1, <1>4, <1>5, <1>9, RemoveMutual
<1>11. \A s \in Slots : Nodes(s)' = Nodes(s) /\ Ringed(s)'
  <2> SUFFICES ASSUME NEW s \in Slots PROVE Nodes(s)' = Nodes(s) /\ Ringed(s)'
    OBVIOUS
  <2>1. Ringed(s) /\ len'[s] = len[s]
    BY <1>1 DEF Lists, RingInv
  <2>2. R \cap List(s) = {}
    BY ChainApart DEF Lists, R
  <2>3. List(s) \subseteq Links
    BY <2>1, Sizes DEF Ringed, List
  <2>4. \A y \in List(s) : next'[y] = next[y] /\ prev'[y] = prev[y]
    BY <2>2, <2>3, <1>4, <1>5, <1>9
  <2>5. QED
    BY <2>1, <2>4, RingKept
<1>12. \A y \in Chain : next'[y] = next[y]
  BY <1>3, <1>6, <1>9 DEF R
<1>13. /\ \/ wheel' = "exec" /\ Chain' = Chain \ {n}
          \/ wheel' = "again" /\ Chain' = Chain /\ pos' = n
       /\ Path(next', pos', tmp, Chain') /\ Chain' \subseteq Chain
  <2>1. CASE wheel' = "exec" /\ pos' = next[n]
    <3>1. Path(next', next[n], tmp, Chain \ {n})
      BY <1>3, <1>12, PathStep
    <3>2. Chain' = Chain \ {n}
      BY <2>1, <3>1, <1>3, ChainNew
    <3>3. QED
      BY <2>1, <3>1, <3>2
  <2>2. CASE wheel' = "again" /\ pos' = n
    <3>1. Path(next', n, tmp, Chain)
      BY <1>3, <1>12, PathSame
    <3>2. Chain' = Chain
      BY <2>2, <3>1, <1>3, ChainNew
    <3>3. QED
      BY <2>2, <3>1, <3>2
  <2>3. QED
    BY <2>1, <2>2, <1>1
<1>14. Rest' = Chain \ {n} /\ First' = b
  <2>1. next'[n] = next[n]
    BY <1>3, <1>12
  <2>2. CASE wheel' = "exec" /\ pos' = next[n]
    BY <2>2, <1>13 DEF Rest, First
  <2>3. CASE wheel' = "again" /\ pos' = n
    BY <2>1, <2>3, <1>13 DEF Rest, First
  <2>4. QED
    BY <2>2, <2>3, <1>1
<1>15. RingInv'
  <2>1. \A s \in Slots : \A m \in Nodes(s) : adding'[m] = "done" /\ Unmoved(m, s)'
    BY <1>1 DEF Lists, RingInv, Unmoved
  <2>2. QED
    BY <2>1, <1>11 DEF RingInv
<1>16. ChainInv'
  <2>1. \A m \in Chain' : adding'[m] = "done" /\ (nversion[m] < version[nlist[m]])'
    BY <1>1, <1>13 DEF Lists, ChainInv
  <2>2. Chain' \subseteq Timers /\ Path(next, pos, tmp, Chain)'
    BY <1>3, <1>13
  <2>3. Rest' \cup {tmp} = R \ {n}
    BY <1>5, <1>14 DEF R
  <2>4. (wheel # "readd" => Mutual(next, prev, Rest \cup {tmp}) /\ next[tmp] = First)'
    BY <2>3, <1>9, <1>10, <1>14
  <2>5. QED
    BY <2>1, <2>2, <2>4, <1>1, <1>5 DEF ChainInv
<1>17. HomeInv'
  <2> SUFFICES ASSUME NEW m \in Timers
               PROVE  /\ adding'[m] = "done" /\ Unmoved(m, nlist[m])' /\ Fresh(m)' => m \in Nodes(nlist[m])'
                      /\ Pending(m)' /\ ~Unmoved(m, nlist[m])' => m \in Chain'
    BY DEF HomeInv
  <2>1. nlist[m] \in Slots /\ nlist'[m] = nlist[m] /\ (Unmoved(m, nlist[m])' <=> Unmoved(m, nlist[m]))
    BY <1>1 DEF Unmoved, Base, TypeOK
  <2>2. (Fresh(m)' <=> Fresh(m)) /\ (Pending(m)' => Pending(m))
    BY <1>1 DEF Fresh, Pending, Base, TypeOK
  <2>3. Pending(m)' => m # n \/ wheel' = "again"
    BY <1>1 DEF Pending, Base, TypeOK
  <2>4. /\ adding[m] = "done" /\ Unmoved(m, nlist[m]) /\ Fresh(m) => m \in Nodes(nlist[m])
        /\ Pending(m) /\ ~Unmoved(m, nlist[m]) => m \in Chain
    BY DEF Lists, HomeInv
  <2>5. Nodes(nlist[m])' = Nodes(nlist[m])
    BY <2>1, <1>11
  <2>6. QED
    BY <2>1, <2>2, <2>3, <2>4, <2>5, <1>1, <1>13
<1>18. QED
  BY <1>1, <1>2, <1>3, <1>11, <1>13, <1>14, <1>15, <1>16, <1>17 DEF Lists

\* At the end of the loop nothing is left behind tmp.
LEMMA ListsDrop ==
    ASSUME Base, Lists, CascadeNext \/ ExecEnd
    PROVE  /\ Lists' /\ Chain = {} /\ Chain' = {} /\ Rest' = {}
           /\ \A s \in Slots : Nodes(s)' = Nodes(s)
<1>1. /\ wheel \in {"readd", "exec"} /\ wheel' \in {"cascade", "inc", "idle"} /\ pos = tmp /\ pos' = tmp
      /\ next' = [next EXCEPT ![tmp] = tmp] /\ prev' = [prev EXCEPT ![tmp] = tmp]
      /\ UNCHANGED <<len, version, nlist, nversion, adding, period, ran, stop, calls, stopper>>
  BY DEF CascadeNext, ExecEnd, DropTmp, nodeVars, addVars, stopVars, history
<1>2. Chain = {} /\ Chain' = {}
  BY <1>1 DEF Chain, NodesFrom
<1>3. Rest' = {} /\ First' = tmp
  BY <1>1, <1>2 DEF Rest, First
<1>4. /\ next \in [Links -> Links] /\ prev \in [Links -> Links] /\ tmp \in Links
  BY Sizes DEF Base, TypeOK
<1>5. /\ next'[tmp] = tmp /\ prev'[tmp] = tmp
      /\ \A y \in Links : y # tmp => next'[y] = next[y] /\ prev'[y] = prev[y]
  BY <1>1, <1>4
<1>6. \A s \in Slots : Nodes(s)' = Nodes(s) /\ Ringed(s)'
  <2> SUFFICES ASSUME NEW s \in Slots PROVE Nodes(s)' = Nodes(s) /\ Ringed(s)'
    OBVIOUS
  <2>1. Ringed(s) /\ len'[s] = len[s]
    BY <1>1 DEF Lists, RingInv
  <2>2. tmp \notin List(s)
    BY ChainApart DEF Lists
  <2>3. List(s) \subseteq Links
    BY <2>1, Sizes DEF Ringed, List
  <2>4. \A y \in List(s) : next'[y] = next[y] /\ prev'[y] = prev[y]
    BY <2>2, <2>3, <1>5
  <2>5. QED
    BY <2>1, <2>4, RingKept
<1>7. RingInv'
  <2>1. \A s \in Slots : \A m \in Nodes(s) : adding'[m] = "done" /\ Unmoved(m, s)'
    BY <1>1 DEF Lists, RingInv, Unmoved
  <2>2. QED
    BY <2>1, <1>6 DEF RingInv
<1>8. ChainInv'
  <2>1. Path(next', tmp, tmp, {})
    BY PathNone
  <2>2. Path(next, pos, tmp, Chain)'
    BY <2>1, <1>1, <1>2
  <2>3. Mutual(next', prev', Rest' \cup {tmp})
    BY <1>3, <1>5 DEF Mutual
  <2>4. QED
    BY <2>2, <2>3, <1>1, <1>2, <1>3, <1>5 DEF ChainInv
<1>9. HomeInv'
  <2> SUFFICES ASSUME NEW m \in Timers
               PROVE  /\ adding'[m] = "done" /\ Unmoved(m, nlist[m])' /\ Fresh(m)' => m \in Nodes(nlist[m])'
                      /\ Pending(m)' /\ ~Unmoved(m, nlist[m])' => m \in Chain'
    BY DEF HomeInv
  <2>1. nlist[m] \in Slots /\ nlist'[m] = nlist[m] /\ (Unmoved(m, nlist[m])' <=> Unmoved(m, nlist[m]))
    BY <1>1 DEF Unmoved, Base, TypeOK
  <2>2. (Fresh(m)' <=> Fresh(m)) /\ (Pending(m)' <=> Pending(m))
    BY <1>1 DEF Fresh, Pending
  <2>3. /\ adding[m] = "done" /\ Unmoved(m, nlist[m]) /\ Fresh(m) => m \in Nodes(nlist[m])
        /\ Pending(m) /\ ~Unmoved(m, nlist[m]) => m \in Chain
    BY DEF Lists, HomeInv
  <2>4. Nodes(nlist[m])' = Nodes(nlist[m])
    BY <2>1, <1>6
  <2>5. QED
    BY <2>1, <2>2, <2>3, <2>4, <1>1, <1>2
<1>10. QED
  BY <1>2, <1>3, <1>6, <1>7, <1>8, <1>9 DEF Lists

\* The taken list becomes the chain.
LEMMA ListsTake ==
    ASSUME Base, Lists, NEW s \in Slots,
           (CascadeTake /\ s = cascadeSlot) \/ (Take /\ s = nearSlot)
    PROVE  /\ Lists' /\ Chain = {} /\ Chain' = Nodes(s) /\ Rest' = Nodes(s) /\ Nodes(s)' = {}
           /\ \A t \in Slots : t # s => Nodes(t)' = Nodes(t)
<1>1. /\ wheel \in {"cascade", "take"} /\ wheel' \in {"readd", "exec", "idle"}
      /\ ~Empty(s) => wheel' \in {"readd", "exec"} /\ TakeList(s)
      /\ Empty(s) => wheel' \in {"readd", "idle"} /\ UNCHANGED <<next, prev, len, version, pos>>
      /\ UNCHANGED <<nlist, nversion, adding, period, ran, stop, calls, stopper>>
  BY DEF CascadeTake, Take, cascadeSlot, nearSlot, slotVars, nodeVars, addVars, stopVars, history
<1>2. pos = tmp /\ Chain = {}
  BY <1>1 DEF Lists, ChainInv, Chain, NodesFrom
<1>3. \A m \in Timers : (Fresh(m)' <=> Fresh(m)) /\ (Pending(m)' <=> Pending(m))
  BY <1>1 DEF Fresh, Pending
<1>4. CASE Empty(s)
  <2>1. Lists' /\ Chain' = Chain /\ Rest' = Rest /\ \A t \in Slots : Nodes(t)' = Nodes(t)
    BY <1>1, <1>3, <1>4, ListsSame
  <2>2. Nodes(s) = {}
    <3>1. Cardinality(Nodes(s)) = 0 /\ IsFiniteSet(Nodes(s))
      BY <1>4, TimersAssumption, FS_Subset DEF Lists, RingInv, Ringed, Empty
    <3>2. QED
      BY <3>1, FS_EmptySet
  <2>3. Rest = {}
    BY <1>1, <1>2 DEF Rest
  <2>4. QED
    BY <2>1, <2>2, <2>3, <1>2
<1>5. CASE ~Empty(s)
  <2>1. /\ Nodes(s)' = {}
        /\ \A t \in Slots : Ringed(t)' /\ (t # s => Nodes(t)' = Nodes(t))
        /\ pos' \in Nodes(s) /\ Path(next', pos', tmp, Nodes(s))
        /\ Mutual(next', prev', Nodes(s) \cup {tmp}) /\ next'[tmp] = pos'
    BY <1>1, <1>5, TakeAll DEF Lists
  <2>2. \A m \in Nodes(s) : m \in Timers /\ adding[m] = "done" /\ Unmoved(m, s)
    BY DEF Lists, RingInv, Ringed
  <2>3. Chain' = Nodes(s)
    BY <2>1, <2>2, ChainNew
  <2>4. Rest' = Nodes(s) /\ First' = pos' /\ wheel' \in {"readd", "exec"}
    BY <2>3, <1>1, <1>5 DEF Rest, First
  <2>5. /\ version \in [Slots -> Nat] /\ nlist \in [Timers -> Slots] /\ nversion \in [Timers -> Nat]
        /\ version' = [version EXCEPT ![s] = version[s] + 1]
    BY <1>1, <1>5 DEF Base, TypeOK, TakeList
  <2>6. /\ version'[s] = version[s] + 1 /\ version[s] \in Nat
        /\ \A t \in Slots : t # s => version'[t] = version[t]
    BY <2>5
  <2>7. RingInv'
    <3> SUFFICES ASSUME NEW t \in Slots, NEW m \in Nodes(t)'
                 PROVE  adding'[m] = "done" /\ Unmoved(m, t)'
      BY <2>1 DEF RingInv
    <3>1. t # s /\ m \in Nodes(t)
      BY <2>1
    <3>2. adding[m] = "done" /\ Unmoved(m, t)
      BY <3>1 DEF Lists, RingInv
    <3>3. QED
      BY <3>1, <3>2, <2>6, <1>1 DEF Unmoved
  <2>8. ChainInv'
    <3>1. \A m \in Nodes(s) : adding'[m] = "done" /\ nversion'[m] < version'[nlist'[m]]
      BY <2>2, <2>5, <2>6, <1>1 DEF Unmoved
    <3>2. Chain' \subseteq Timers /\ Path(next, pos, tmp, Chain)'
      BY <2>1, <2>2, <2>3
    <3>3. (wheel # "readd" => Mutual(next, prev, Rest \cup {tmp}) /\ next[tmp] = First)'
      BY <2>1, <2>4
    <3>4. QED
      BY <3>1, <3>2, <3>3, <2>3, <2>4 DEF ChainInv
  <2>9. HomeInv'
    <3> SUFFICES ASSUME NEW m \in Timers
                 PROVE  /\ adding'[m] = "done" /\ Unmoved(m, nlist[m])' /\ Fresh(m)' => m \in Nodes(nlist[m])'
                        /\ Pending(m)' /\ ~Unmoved(m, nlist[m])' => m \in Chain'
      BY DEF HomeInv
    <3>1. nlist[m] \in Slots /\ nlist'[m] = nlist[m] /\ nversion'[m] = nversion[m] /\ nversion[m] \in Nat
      BY <2>5, <1>1
    <3>2. /\ adding[m] = "done" /\ Unmoved(m, nlist[m]) /\ Fresh(m) => m \in Nodes(nlist[m])
          /\ Pending(m) => Unmoved(m, nlist[m])
      BY <1>2 DEF Lists, HomeInv
    <3>3. Pending(m) => Fresh(m) /\ adding[m] = "done"
      BY DEF Pending, Fresh
    <3>4. CASE nlist[m] = s
      <4>1. nversion[m] <= version[nlist[m]]
        BY DEF Base, NodeBase
      <4>2. ~Unmoved(m, nlist[m])'
        BY <3>1, <3>4, <4>1, <2>6 DEF Unmoved
      <4>3. QED
        BY <3>2, <3>3, <3>4, <4>2, <2>3, <1>3
    <3>5. CASE nlist[m] # s
      <4>1. Unmoved(m, nlist[m])' <=> Unmoved(m, nlist[m])
        BY <3>1, <3>5, <2>6 DEF Unmoved
      <4>2. Nodes(nlist[m])' = Nodes(nlist[m])
        BY <3>1, <3>5, <2>1
      <4>3. QED
        BY <3>2, <3>3, <4>1, <4>2, <1>1, <1>3
    <3>6. QED
      BY <3>4, <3>5
  <2>10. QED
    BY <2>1, <2>3, <2>4, <2>7, <2>8, <2>9, <1>2 DEF Lists
<1>6. QED
  BY <1>4, <1>5

\* All lists are empty at the start.
LEMMA ListsInit == Init => Lists
<1> SUFFICES ASSUME Init PROVE Lists
  OBVIOUS
<1>1. /\ \A x \in Links : next[x] = x /\ prev[x] = x
      /\ \A s \in Slots : len[s] = 0
      /\ \A n \in Timers : adding[n] = "new"
      /\ wheel = "idle" /\ pos = tmp
  BY Sizes DEF Init
<1>2. \A s \in Slots : Nodes(s) = {} /\ List(s) = {s}
  BY <1>1, Sizes DEF Nodes, NodesFrom, List
<1>3. RingInv
  <2> SUFFICES ASSUME NEW s \in Slots PROVE Ringed(s)
    BY <1>2 DEF RingInv
  <2>1. next[s] = s /\ prev[s] = s /\ len[s] = 0
    BY <1>1, Sizes
  <2>2. Mutual(next, prev, {s}) /\ Round(next, {s}, s) /\ Round(prev, {s}, s)
    BY <2>1 DEF Mutual, Round
  <2>3. QED
    BY <2>1, <2>2, <1>2, FS_EmptySet DEF Ringed
<1>4. Chain = {} /\ Rest = {} /\ First = tmp
  BY <1>1 DEF Chain, NodesFrom, Rest, First
<1>5. ChainInv
  <2>1. Path(next, pos, tmp, Chain)
    BY <1>1, <1>4, PathNone
  <2>2. next[tmp] = tmp /\ prev[tmp] = tmp
    BY <1>1, Sizes
  <2>3. Mutual(next, prev, Rest \cup {tmp})
    BY <2>2, <1>4 DEF Mutual
  <2>4. QED
    BY <2>1, <2>2, <2>3, <1>1, <1>4 DEF ChainInv
<1>6. HomeInv
  BY <1>1 DEF HomeInv, Pending
<1>7. QED
  BY <1>3, <1>5, <1>6 DEF Lists

\* Once cut, always cut.
LEMMA CutStays == Base /\ cut /\ [Next]_vars => cut'
<1> SUFFICES ASSUME Base, cut, [Next]_vars PROVE cut'
  OBVIOUS
<1>1. CASE \E n \in Stops : StopDel(n)
  BY <1>1 DEF StopDel
<1>2. CASE UNCHANGED vars
  BY <1>2 DEF vars, history
<1>3. CASE WheelStep
  BY <1>3 DEF WheelStep, Tick, CascadeTake, CascadeAdd, CascadeNext, Inc, Take, Exec, ExecAdd,
              ExecEnd, history
<1>4. CASE \E n \in Timers : AfterFunc(n) \/ ScheduleFunc(n) \/ AddPush(n)
  BY <1>4 DEF AfterFunc, ScheduleFunc, AddLoad, AddPush
<1>5. CASE \E n \in Stops : StopFlag(n) \/ StopLoad(n)
  BY <1>5 DEF StopFlag, StopLoad, history
<1>6. QED
  BY <1>1, <1>2, <1>3, <1>4, <1>5 DEF Next

\* Every step keeps the lists as long as no node is unlinked twice.
LEMMA ListStep == Base /\ ListInv /\ [Next]_vars => ListInv'
<1> SUFFICES ASSUME Base, ListInv, [Next]_vars, ~cut' PROVE Lists'
  BY DEF ListInv
<1>1. Lists
  BY CutStays DEF ListInv
<1>2. CASE Tick \/ Inc
  BY <1>1, <1>2, ListsTime
<1>3. ASSUME CascadeTake PROVE Lists'
  <2>1. PICK s \in Slots : s = cascadeSlot
    BY TakenSlots DEF Base
  <2>2. (CascadeTake /\ s = cascadeSlot) \/ (Take /\ s = nearSlot)
    BY <2>1, <1>3
  <2>3. QED
    BY <2>2, <1>1, ListsTake
<1>4. ASSUME Take PROVE Lists'
  <2>1. PICK s \in Slots : s = nearSlot
    BY TakenSlots DEF Base
  <2>2. (CascadeTake /\ s = cascadeSlot) \/ (Take /\ s = nearSlot)
    BY <2>1, <1>4
  <2>3. QED
    BY <2>2, <1>1, ListsTake
<1>5. ASSUME CascadeAdd \/ ExecAdd PROVE Lists'
  BY <1>1, <1>5, ListsAgain
<1>6. ASSUME Exec PROVE Lists'
  BY <1>1, <1>6, ListsExec
<1>7. ASSUME CascadeNext \/ ExecEnd PROVE Lists'
  BY <1>1, <1>7, ListsDrop
<1>8. ASSUME NEW n \in Timers, AfterFunc(n) \/ ScheduleFunc(n) PROVE Lists'
  BY <1>1, <1>8, ListsAddLoad
<1>9. ASSUME NEW n \in Timers, AddPush(n) PROVE Lists'
  BY <1>1, <1>9, ListsAddPush
<1>10. ASSUME NEW n \in Stops, StopFlag(n) \/ StopLoad(n) PROVE Lists'
  BY <1>1, <1>10, ListsStopEarly
<1>11. ASSUME NEW n \in Stops, StopDel(n) PROVE Lists'
  BY <1>1, <1>11, ListsStopDel
<1>12. CASE UNCHANGED vars
  <2>1. UNCHANGED <<next, prev, len, version, pos, nlist, nversion, adding, period, ran, stop,
                    calls, stopper, wheel>>
    BY <1>12 DEF vars, slotVars, nodeVars, addVars, stopVars, wheelVars, history
  <2>2. \A m \in Timers : (Pending(m)' => Pending(m)) /\ (Fresh(m)' => Fresh(m))
    BY <2>1 DEF Pending, Fresh
  <2>3. QED
    BY <2>1, <2>2, <1>1, ListsSame
<1>13. QED
  BY <1>2, <1>3, <1>4, <1>5, <1>6, <1>7, <1>8, <1>9, <1>10, <1>11, <1>12 DEF Next, WheelStep

\* The lists hold together in every state.
LEMMA ListsAlways == Spec => [](Base /\ ListInv)
<1>1. Init => Base /\ ListInv
  BY BaseInit, ListsInit DEF ListInv
<1>2. Base /\ ListInv /\ [Next]_vars => (Base /\ ListInv)'
  BY BaseStep, ListStep
<1>3. QED
  BY <1>1, <1>2, PTL DEF Spec

\* The rings of list.go hold together: each list goes forwards and backwards
\* through the same nodes, all of which carry its version, and ForEachSafe
\* comes back to its own head, in every interleaving of AfterFunc, Stop and
\* moveAndExec in which no node is unlinked twice.
THEOREM RingsHold == Spec => []RingsIntact
<1>1. ASSUME Base, ListInv PROVE RingsIntact
  <2> SUFFICES ASSUME ~cut
               PROVE  /\ pos \in Timers \cup {tmp}
                      /\ \A s \in Slots :
                            /\ Nodes(s) = NodesFrom(prev, prev[s], s)
                            /\ \A n \in Nodes(s) : n \in Timers /\ Unmoved(n, s)
    BY DEF RingsIntact
  <2>1. Lists
    BY <1>1 DEF ListInv
  <2>2. pos \in Timers \cup {tmp}
    BY <2>1 DEF Lists, ChainInv, Path
  <2>3. ASSUME NEW s \in Slots PROVE Nodes(s) = NodesFrom(prev, prev[s], s)
    <3> DEFINE R == List(s)
    <3>1. Mutual(next, prev, R) /\ Round(prev, R, s) /\ Nodes(s) \subseteq Timers
      BY <2>1 DEF Lists, RingInv, Ringed
    <3>2. R \ {s} = Nodes(s) /\ R \ {s} \in SUBSET Timers
      BY <3>1, Sizes DEF List
    <3> HIDE DEF R
    <3>3. Mutual(prev, next, R)
      BY <3>1, MutualSwap
    <3>4. NodesFrom(prev, prev[s], s) = R \ {s}
      BY <3>1, <3>2, <3>3, RingNodes
    <3>5. QED
      BY <3>2, <3>4
  <2>4. ASSUME NEW s \in Slots, NEW n \in Nodes(s) PROVE n \in Timers /\ Unmoved(n, s)
    BY <2>1 DEF Lists, RingInv, Ringed
  <2>5. QED
    BY <2>2, <2>3, <2>4
<1>2. QED
  BY <1>1, ListsAlways, PTL

\* The recorded length of a list, by which moveAndExec decides to skip it, is
\* the number of its nodes: no Stop counts down a list that its node has left.
THEOREM LengthsHold == Spec => []LenMatchesList
<1>1. ASSUME Base, ListInv PROVE LenMatchesList
  BY <1>1 DEF ListInv, Lists, RingInv, Ringed, LenMatchesList
<1>2. QED
  BY <1>1, ListsAlways, PTL

\* A pending timer is in exactly one list or still to be met by the loop:
\* cascading, re-arming and Stop neither lose nor duplicate it.
THEOREM PendingKept == Spec => []PendingInOneList
<1>1. ASSUME Base, ListInv PROVE PendingInOneList
  <2> SUFFICES ASSUME ~cut, NEW n \in Timers, Pending(n)
               PROVE  Cardinality({s \in Slots : n \in Nodes(s)})
                          + (IF n \in NodesFrom(next, pos, tmp) THEN 1 ELSE 0) = 1
    BY DEF PendingInOneList
  <2> DEFINE H == {s \in Slots : n \in Nodes(s)}
  <2>1. Lists
    BY <1>1 DEF ListInv
  <2>2. \A s \in Slots : n \in Nodes(s) => Unmoved(n, s) /\ nlist[n] = s
    BY <2>1 DEF Lists, RingInv, Unmoved
  <2>3. nlist[n] \in Slots
    BY <1>1 DEF Base, TypeOK
  <2>4. Fresh(n) /\ adding[n] = "done"
    BY DEF Pending, Fresh
  <2>5. CASE Unmoved(n, nlist[n])
    <3>1. n \in Nodes(nlist[n])
      BY <2>1, <2>4, <2>5 DEF Lists, HomeInv
    <3>2. H = {nlist[n]}
      BY <3>1, <2>2, <2>3
    <3>3. Cardinality(H) = 1
      BY <3>2, FS_Singleton
    <3>4. n \notin Chain
      BY <3>1, <2>1, <2>3, <1>1, ChainApart DEF Lists, List
    <3>5. QED
      BY <3>3, <3>4 DEF Chain
  <2>6. CASE ~Unmoved(n, nlist[n])
    <3>1. n \in Chain
      BY <2>1, <2>6 DEF Lists, HomeInv
    <3>2. H = {}
      BY <2>2, <2>6
    <3>3. Cardinality(H) = 0
      BY <3>2, FS_EmptySet
    <3>4. QED
      BY <3>1, <3>3 DEF Chain
  <2>7. QED
    BY <2>5, <2>6
<1>2. QED
  BY <1>1, ListsAlways, PTL

-----------------------------------------------------------------------------
(* Time *)

\* A multiple of b.
LEMMA Multiple ==
    ASSUME NEW a \in Nat, NEW b \in Nat \ {0}
    PROVE  (a * b) \div b = a /\ (a * b) % b = 0
<1> DEFINE c == a * b
           u == c \div b
           w == c % b
<1>1. c \in Int /\ c = b * a
  OBVIOUS
<1> HIDE DEF c
<1>2. u \in Int /\ w \in Int /\ 0 <= w /\ w < b /\ c = b * u + w
  BY <1>1, DivMod
<1> HIDE DEF u, w
<1>3. b * u \in Int /\ b * a \in Int
  BY <1>2
<1>4. ASSUME u + 1 <= a PROVE FALSE
  <2>1. b * u + b <= b * a
    BY <1>2, <1>4, TimesMonotone
  <2>2. QED
    BY <2>1, <1>1, <1>2, <1>3
<1>5. ASSUME a + 1 <= u PROVE FALSE
  <2>1. b * a + b <= b * u
    BY <1>2, <1>5, TimesMonotone
  <2>2. QED
    BY <2>1, <1>1, <1>2, <1>3
<1>6. u = a
  BY <1>2, <1>4, <1>5
<1>7. w = 0
  BY <1>1, <1>2, <1>3, <1>6
<1>8. QED
  BY <1>6, <1>7 DEF u, w, c

\* In a tick that is a multiple of the reach of level l, the near wheel and
\* every level below l have come round, and level l stands at that multiple.
LEMMA CameRound ==
    ASSUME NEW l \in 0 .. Levels - 1, NEW k \in Nat, NEW j, j = k * LevelMax[l]
    PROVE  /\ j % NearSize = 0
           /\ j \div LevelMax[l] = k
           /\ \A v \in 0 .. l - 1 : (j \div LevelMax[v]) % LevelSize = 0
<1>0. Levels \in Nat /\ LevelSize \in Nat \ {0} /\ NearSize \in Nat \ {0} /\ l \in 0 .. Levels
  BY Sizes
<1>1. LevelMax[l] \in Nat \ {0} /\ LevelMax[0] = NearSize
  BY <1>0, LevelMaxDef
<1>2. j \div LevelMax[l] = k
  BY <1>1, Multiple
<1>3. j % NearSize = 0
  <2>1. 0 \in 0 .. l
    BY <1>0
  <2>2. PICK m \in Nat : LevelMax[l] = m * LevelMax[0]
    BY <2>1, <1>0, LevelDivides
  <2>3. k * (m * NearSize) = (k * m) * NearSize /\ k * m \in Nat
    BY <1>0
  <2>4. j = (k * m) * NearSize
    BY <2>2, <2>3, <1>1
  <2>5. ((k * m) * NearSize) % NearSize = 0
    BY <2>3, <1>0, Multiple
  <2>6. QED
    BY <2>4, <2>5
<1>4. ASSUME NEW v \in 0 .. l - 1 PROVE (j \div LevelMax[v]) % LevelSize = 0
  <2>1. v + 1 \in 0 .. l /\ v + 1 \in 0 .. Levels /\ v \in 0 .. Levels /\ v + 1 > 0 /\ (v + 1) - 1 = v
    BY <1>0
  <2>2. PICK m \in Nat : LevelMax[l] = m * LevelMax[v + 1]
    BY <2>1, <1>0, LevelDivides
  <2>3. LevelMax[v + 1] = LevelSize * LevelMax[v] /\ LevelMax[v] \in Nat \ {0}
    BY <2>1, LevelMaxDef
  <2> DEFINE L == LevelMax[v]
             c == (k * m) * LevelSize
  <2>4. k * m \in Nat /\ c \in Nat
    BY <1>0
  <2>5. k * (m * (LevelSize * L)) = c * L
    <3>1. L \in Nat
      BY <2>3
    <3> HIDE DEF L
    <3>2. QED
      BY <3>1, <1>0
  <2>6. j = c * L
    BY <2>2, <2>3, <2>5
  <2> HIDE DEF c
  <2>7. j \div L = c
    BY <2>3, <2>4, <2>6, Multiple
  <2>8. c % LevelSize = 0
    BY <2>4, <1>0, Multiple DEF c
  <2>9. QED
    BY <2>7, <2>8
<1>5. QED
  BY <1>2, <1>3, <1>4

\* The types of the times of a node.
LEMMA TimeTypes ==
    ASSUME Base, NEW n \in Timers
    PROVE  /\ jiffies \in Nat /\ expire[n] \in Nat /\ due[n] \in Nat /\ loaded[n] \in Nat
           /\ lag[n] \in Int /\ period[n] \in Int /\ (period[n] = -1 \/ period[n] \in Nat)
           /\ NearSize \in Nat /\ loaded[n] <= jiffies
<1>1. jiffies \in Nat /\ expire[n] \in Nat /\ NearSize \in Nat
  BY Sizes DEF Base, TypeOK
<1>2. due[n] \in Nat /\ loaded[n] \in Nat /\ lag[n] \in Int /\ period[n] \in Int
  BY DEF Base, TypeOK
<1>3. NodeBase(n)
  BY DEF Base
<1>4. QED
  BY <1>1, <1>2, <1>3, TimesAssumption DEF NodeBase

\* The times of n are left alone.
SameNode(n) ==
    /\ expire'[n] = expire[n] /\ period'[n] = period[n] /\ adding'[n] = adding[n]
    /\ loaded'[n] = loaded[n] /\ due'[n] = due[n] /\ lag'[n] = lag[n]
    /\ ran'[n] = ran[n] /\ pushed'[n] = pushed[n]

\* A node that is left alone where it is, in the same tick and state of the
\* wheel, keeps its part of the invariant.
LEMMA NodeTimeKept ==
    ASSUME Base, NEW n \in Timers, SameNode(n), jiffies' = jiffies, NodeTime(n)
    PROVE  NodeTime(n)'
BY DEF SameNode, NodeTime, Prompt

\* The same for a node of a near list,
LEMMA NearTimeKept ==
    ASSUME Base, NEW n \in Timers, NEW i, SameNode(n), jiffies' = jiffies,
           wheel' = wheel \/ {wheel, wheel'} \cap {"take"} = {}, NearTime(n, i)
    PROVE  NearTime(n, i)'
BY DEF SameNode, NearTime, Prompt

\* of a list of a level,
LEMMA LevelTimeKept ==
    ASSUME Base, NEW n \in Timers, NEW l, NEW i, SameNode(n), jiffies' = jiffies,
           Uncascaded(l) => Uncascaded(l)', LevelTime(n, l, i)
    PROVE  LevelTime(n, l, i)'
<1>1. Prompt(n)' <=> Prompt(n)
  BY DEF SameNode, Prompt
<1>2. QED
  BY <1>1 DEF SameNode, LevelTime

\* and of the taken list.
LEMMA ChainTimeKept ==
    ASSUME Base, NEW n \in Timers, SameNode(n), jiffies' = jiffies, UNCHANGED <<wheel, pos>>, ChainTime(n)
    PROVE  ChainTime(n)'
BY DEF SameNode, ChainTime, Prompt

\* Actions that change no time and add no node to a list.
LEMMA TimesSame ==
    ASSUME Base, Lists, Times, UNCHANGED <<jiffies, wheel, level, pos>>,
           \A n \in Timers : SameNode(n), Chain' = Chain,
           \A s \in Slots : Nodes(s)' \subseteq Nodes(s)
    PROVE  Times'
<1>1. /\ \A s \in Slots : Nodes(s) \subseteq Timers
      /\ Chain \subseteq Timers
  BY DEF Lists, RingInv, Ringed, ChainInv
<1>2. ASSUME NEW n \in Timers PROVE NodeTime(n)'
  BY NodeTimeKept DEF Times
<1>3. ASSUME NEW i \in 0 .. NearSize - 1, NEW n \in Nodes(Near(i))' PROVE NearTime(n, i)'
  <2>1. n \in Nodes(Near(i)) /\ n \in Timers
    BY <1>1, Sizes
  <2>2. NearTime(n, i)
    BY <2>1 DEF Times
  <2>3. QED
    BY <2>1, <2>2, NearTimeKept
<1>4. ASSUME NEW l \in 0 .. Levels - 1, NEW i \in 0 .. LevelSize - 1, NEW n \in Nodes(<<l + 2, i>>)'
      PROVE  LevelTime(n, l, i)'
  <2>1. n \in Nodes(<<l + 2, i>>) /\ n \in Timers
    BY <1>1, Sizes
  <2>2. LevelTime(n, l, i)
    BY <2>1 DEF Times
  <2>3. Uncascaded(l)' <=> Uncascaded(l)
    BY DEF Uncascaded
  <2>4. QED
    BY <2>1, <2>2, <2>3, LevelTimeKept
<1>5. ASSUME NEW n \in Chain' PROVE ChainTime(n)'
  <2>1. n \in Chain /\ n \in Timers
    BY <1>1
  <2>2. ChainTime(n)
    BY <2>1 DEF Times
  <2>3. QED
    BY <2>1, <2>2, ChainTimeKept
<1>6. QED
  BY <1>2, <1>3, <1>4, <1>5 DEF Times

\* A node that is put where SlotFor says, by a tick counter that is not ahead
\* and, for a prompt one, not behind.
LEMMA PushTime ==
    ASSUME Base', NEW n \in Timers, NEW now \in 0 .. Horizon, NEW s, s = SlotFor(expire'[n], now),
           now <= jiffies', now <= expire'[n] /\ pushed'[n] # "edge" => due'[n] <= expire'[n],
           Prompt(n)' => now = jiffies' /\ now <= expire'[n],
           wheel' = "take" /\ pushed'[n] # "edge" => expire'[n] + 1 # now + NearSize
    PROVE  /\ \A i : s = Near(i) => NearTime(n, i)'
           /\ \A l \in 0 .. Levels - 1 : \A i : s = <<l + 2, i>> => LevelTime(n, l, i)'
<1> DEFINE e == expire'[n]
           jj == jiffies'
<1>0. /\ e \in 0 .. Word - 1 /\ e \in Nat /\ jj \in Nat /\ due'[n] \in Nat
      /\ NearSize \in Nat \ {0} /\ Horizon \in Nat /\ now \in Nat /\ Levels \in Nat
  <2>1. TypeOK'
    BY DEF Base
  <2>2. e \in 0 .. Word - 1 /\ jj \in 0 .. Horizon /\ due'[n] \in Nat
    BY <2>1 DEF TypeOK
  <2>3. Word \in Nat /\ NearSize \in Nat \ {0} /\ Horizon \in Nat /\ Levels \in Nat
    BY Sizes
  <2> HIDE DEF e, jj
  <2>4. QED
    BY <2>2, <2>3
<1>1. \/ /\ now <= e /\ e < now + NearSize
         /\ s = Near(e % NearSize)
      \/ \E l \in 0 .. Levels - 1, k \in Nat :
            /\ s = <<l + 2, k % LevelSize>>
            /\ now <= e => now < k * LevelMax[l] /\ k * LevelMax[l] <= e
  <2>1. SlotFor(e, now) = s
    OBVIOUS
  <2> HIDE DEF e
  <2>2. QED
    BY <2>1, <1>0, SlotForWhere
<1>2. CASE now <= e /\ e < now + NearSize /\ s = Near(e % NearSize)
  <2>1. ASSUME NEW i, s = Near(i) PROVE NearTime(n, i)'
    <3>1. i = e % NearSize
      BY <2>1, <1>2 DEF Near
    <3>2. (pushed'[n] # "edge" => due'[n] <= e) /\ e < jj + NearSize
      <4> HIDE DEF e, jj
      <4>1. now <= jj /\ (now <= e /\ pushed'[n] # "edge" => due'[n] <= e)
        BY DEF e, jj
      <4>2. QED
        BY <4>1, <1>0, <1>2
    <3>3. wheel' = "take" /\ pushed'[n] # "edge" => e + 1 < jj + NearSize
      <4>1. (wheel' = "take" /\ pushed'[n] # "edge" => e + 1 # now + NearSize) /\ now <= jj
        OBVIOUS
      <4> HIDE DEF e, jj
      <4>2. QED
        BY <4>1, <1>0, <1>2
    <3>4. Prompt(n)' => jj <= e
      BY <1>2
    <3>5. QED
      BY <3>1, <3>2, <3>3, <3>4 DEF NearTime
  <2>2. ASSUME NEW l \in 0 .. Levels - 1, NEW i, s = <<l + 2, i>> PROVE FALSE
    <3>1. l + 2 = 1
      BY <2>2, <1>2 DEF Near
    <3>2. QED
      BY <3>1, <1>0
  <2>3. QED
    BY <2>1, <2>2
<1>3. ASSUME NEW l \in 0 .. Levels - 1, NEW k \in Nat, s = <<l + 2, k % LevelSize>>,
             now <= e => now < k * LevelMax[l] /\ k * LevelMax[l] <= e
      PROVE  /\ \A i : s = Near(i) => NearTime(n, i)'
             /\ \A v \in 0 .. Levels - 1 : \A i : s = <<v + 2, i>> => LevelTime(n, v, i)'
  <2>1. ASSUME NEW i, s = Near(i) PROVE FALSE
    <3>1. l + 2 = 1
      BY <2>1, <1>3 DEF Near
    <3>2. QED
      BY <3>1, <1>0
  <2>2. ASSUME NEW v \in 0 .. Levels - 1, NEW i, s = <<v + 2, i>> PROVE LevelTime(n, v, i)'
    <3>1. v = l /\ i = k % LevelSize
      <4>1. v + 2 = l + 2 /\ i = k % LevelSize
        BY <2>2, <1>3
      <4>2. QED
        BY <4>1, <1>0
    <3> SUFFICES ASSUME Prompt(n)'
                 PROVE  \E x \in 0 .. e : /\ x % LevelSize = i
                                          /\ jj <= x * LevelMax[l] /\ x * LevelMax[l] <= e
                                          /\ x * LevelMax[l] = jj => Uncascaded(l)'
      BY <3>1 DEF LevelTime
    <3>2. jj < k * LevelMax[l] /\ k * LevelMax[l] <= e
      BY <1>3
    <3>3. LevelMax[l] \in Nat \ {0}
      BY <1>0, LevelMaxDef
    <3> DEFINE L == LevelMax[l]
               c == k * L
    <3> HIDE DEF e, jj, L
    <3>4. L \in Nat \ {0}
      BY <3>3 DEF L
    <3>5. c \in Nat /\ k <= c
      BY <3>4
    <3>6. jj < c /\ c <= e
      BY <3>2 DEF L
    <3> HIDE DEF c
    <3>7. k \in 0 .. e /\ jj <= c /\ c # jj
      BY <3>5, <3>6, <1>0
    <3>8. QED
      BY <3>1, <3>6, <3>7 DEF c, L
  <2>3. QED
    BY <2>1, <2>2
<1>4. QED
  BY <1>1, <1>2, <1>3

\* A new node is due at the tick it expires in.
LEMMA TimesAddLoad ==
    ASSUME Base, Base', Lists, Times, NEW n \in Timers, AfterFunc(n) \/ ScheduleFunc(n)
    PROVE  Times'
<1>1. PICK e \in Delays \cup Periods, p \in Periods \cup {-1} : AddLoad(n, e, p)
  BY DEF AfterFunc, ScheduleFunc
<1>2. /\ UNCHANGED <<jiffies, wheel, level, pos, lag, ran, pushed>> /\ adding[n] = "new"
      /\ adding' = [adding EXCEPT ![n] = "push"] /\ loaded' = [loaded EXCEPT ![n] = jiffies]
      /\ expire' = [expire EXCEPT ![n] = jiffies + e] /\ period' = [period EXCEPT ![n] = p]
      /\ due' = [due EXCEPT ![n] = jiffies + e]
  BY <1>1 DEF AddLoad, wheelVars
<1>3. Chain' = Chain /\ \A s \in Slots : Nodes(s)' = Nodes(s)
  BY ListsAddLoad
<1>4. /\ adding \in [Timers -> {"new", "push", "done"}] /\ loaded \in [Timers -> Nat]
      /\ expire \in [Timers -> 0 .. Word - 1] /\ period \in [Timers -> Int]
      /\ due \in [Timers -> Nat]
  BY DEF Base, TypeOK
<1>5. \A m \in Timers : m # n => SameNode(m)
  BY <1>2, <1>4 DEF SameNode
<1>6. /\ \A s \in Slots : \A m \in Nodes(s) : m \in Timers /\ m # n
      /\ \A m \in Chain : m \in Timers /\ m # n
  BY <1>2 DEF Lists, RingInv, Ringed, ChainInv
<1>7. ASSUME NEW m \in Timers PROVE NodeTime(m)'
  <2>1. CASE m = n
    <3>1. e \in Nat /\ jiffies \in Nat
      BY TimesAssumption, TimeTypes
    <3>2. /\ adding'[n] = "push" /\ loaded'[n] = jiffies /\ expire'[n] = jiffies + e
          /\ due'[n] = jiffies + e /\ pushed'[n] = pushed[n] /\ ran'[n] = ran[n] /\ lag'[n] = lag[n]
      BY <1>2, <1>4
    <3>3. NodeTime(n) /\ NodeBase(n)
      BY DEF Times, Base
    <3>4. pushed[n] = "no" /\ ~ran[n]
      BY <3>3, <1>2 DEF NodeTime, NodeBase
    <3>5. QED
      BY <2>1, <3>1, <3>2, <3>4 DEF NodeTime, Prompt
  <2>2. CASE m # n
    BY <2>2, <1>2, <1>5, NodeTimeKept DEF Times
  <2>3. QED
    BY <2>1, <2>2
<1>8. ASSUME NEW i \in 0 .. NearSize - 1, NEW m \in Nodes(Near(i))' PROVE NearTime(m, i)'
  <2>1. m \in Nodes(Near(i)) /\ m \in Timers /\ SameNode(m)
    BY <1>3, <1>5, <1>6, Sizes
  <2>2. NearTime(m, i)
    BY <2>1 DEF Times
  <2>3. QED
    BY <2>1, <2>2, <1>2, NearTimeKept
<1>9. ASSUME NEW l \in 0 .. Levels - 1, NEW i \in 0 .. LevelSize - 1, NEW m \in Nodes(<<l + 2, i>>)'
      PROVE  LevelTime(m, l, i)'
  <2>1. m \in Nodes(<<l + 2, i>>) /\ m \in Timers /\ SameNode(m)
    BY <1>3, <1>5, <1>6, Sizes
  <2>2. LevelTime(m, l, i)
    BY <2>1 DEF Times
  <2>3. Uncascaded(l)' <=> Uncascaded(l)
    BY <1>2 DEF Uncascaded
  <2>4. QED
    BY <2>1, <2>2, <2>3, <1>2, LevelTimeKept
<1>10. ASSUME NEW m \in Chain' PROVE ChainTime(m)'
  <2>1. m \in Chain /\ m \in Timers /\ SameNode(m)
    BY <1>3, <1>5, <1>6
  <2>2. ChainTime(m)
    BY <2>1 DEF Times
  <2>3. QED
    BY <2>1, <2>2, <1>2, ChainTimeKept
<1>11. QED
  BY <1>7, <1>8, <1>9, <1>10 DEF Times

\* It is put where the wheel meets it in time, if jiffies is the loaded one.
LEMMA TimesAddPush ==
    ASSUME Base, Base', Lists, Times, NEW n \in Timers, AddPush(n)
    PROVE  Times'
<1>1. /\ UNCHANGED <<jiffies, wheel, level, pos, lag, ran, expire, period, loaded, due>>
      /\ adding[n] = "push" /\ adding' = [adding EXCEPT ![n] = "done"]
      /\ pushed' = [pushed EXCEPT ![n] =
                       IF due[n] - loaded[n] = NearSize - 1 THEN "edge"
                       ELSE IF jiffies > loaded[n] THEN "late" ELSE "prompt"]
  BY DEF AddPush, wheelVars
<1> PICK s : s = SlotFor(expire[n], loaded[n])
  OBVIOUS
<1>2. /\ Chain' = Chain /\ s \in Slots /\ Nodes(s)' = Nodes(s) \cup {n} /\ n \notin Chain
      /\ \A t \in Slots : n \notin Nodes(t) /\ (t # s => Nodes(t)' = Nodes(t))
  BY ListsAddPush
<1>3. /\ adding \in [Timers -> {"new", "push", "done"}]
      /\ pushed \in [Timers -> {"no", "prompt", "late", "edge"}]
  BY DEF Base, TypeOK
<1>4. \A m \in Timers : m # n => SameNode(m)
  BY <1>1, <1>3 DEF SameNode
<1>5. /\ \A t \in Slots : Nodes(t) \subseteq Timers
      /\ Chain \subseteq Timers
  BY DEF Lists, RingInv, Ringed, ChainInv
<1>6. NodeTime(n) /\ NodeBase(n)
  BY DEF Times, Base
<1>7. /\ loaded[n] <= expire[n] /\ due[n] = expire[n] /\ ~ran[n] /\ loaded[n] <= jiffies
  BY <1>1, <1>6 DEF NodeTime, NodeBase
<1>8. /\ jiffies \in Nat /\ expire[n] \in Nat /\ due[n] \in Nat /\ loaded[n] \in Nat
      /\ NearSize \in Nat /\ jiffies \in 0 .. Horizon /\ Horizon \in Nat
  BY TimeTypes, Sizes DEF Base, TypeOK
<1>9. /\ pushed'[n] # "edge" => expire[n] + 1 # loaded[n] + NearSize
      /\ pushed'[n] = "prompt" => loaded[n] = jiffies
  <2>1. pushed'[n] = IF due[n] - loaded[n] = NearSize - 1 THEN "edge"
                     ELSE IF jiffies > loaded[n] THEN "late" ELSE "prompt"
    BY <1>1, <1>3
  <2>2. QED
    BY <2>1, <1>7, <1>8
<1>10. /\ \A i : s = Near(i) => NearTime(n, i)'
       /\ \A l \in 0 .. Levels - 1 : \A i : s = <<l + 2, i>> => LevelTime(n, l, i)'
  <2> DEFINE now == loaded[n]
  <2>1. now \in 0 .. Horizon
    BY <1>7, <1>8
  <2>2. s = SlotFor(expire'[n], now) /\ now <= jiffies'
    BY <1>1, <1>7
  <2>3. /\ now <= expire'[n] /\ pushed'[n] # "edge" => due'[n] <= expire'[n]
        /\ Prompt(n)' => now = jiffies' /\ now <= expire'[n]
        /\ wheel' = "take" /\ pushed'[n] # "edge" => expire'[n] + 1 # now + NearSize
    BY <1>1, <1>7, <1>8, <1>9 DEF Prompt
  <2> HIDE DEF now
  <2>4. QED
    BY <2>1, <2>2, <2>3, PushTime
<1>11. ASSUME NEW m \in Timers PROVE NodeTime(m)'
  <2>1. CASE m = n
    <3>1. adding'[n] = "done"
      BY <1>1, <1>3
    <3>2. QED
      BY <2>1, <3>1, <1>1, <1>7, <1>8 DEF NodeTime, Prompt
  <2>2. CASE m # n
    BY <2>2, <1>1, <1>4, NodeTimeKept DEF Times
  <2>3. QED
    BY <2>1, <2>2
<1>12. ASSUME NEW i \in 0 .. NearSize - 1, NEW m \in Nodes(Near(i))' PROVE NearTime(m, i)'
  <2>1. CASE m = n
    <3>1. Near(i) = s
      BY <2>1, <1>2, <1>12, Sizes
    <3>2. QED
      BY <2>1, <3>1, <1>10
  <2>2. CASE m # n
    <3>1. m \in Nodes(Near(i)) /\ m \in Timers /\ SameNode(m)
      BY <2>2, <1>2, <1>4, <1>5, <1>12, Sizes
    <3>2. NearTime(m, i)
      BY <3>1 DEF Times
    <3>3. QED
      BY <3>1, <3>2, <1>1, NearTimeKept
  <2>3. QED
    BY <2>1, <2>2
<1>13. ASSUME NEW l \in 0 .. Levels - 1, NEW i \in 0 .. LevelSize - 1, NEW m \in Nodes(<<l + 2, i>>)'
       PROVE  LevelTime(m, l, i)'
  <2>1. CASE m = n
    <3>1. <<l + 2, i>> = s
      BY <2>1, <1>2, <1>13, Sizes
    <3>2. QED
      BY <2>1, <3>1, <1>10
  <2>2. CASE m # n
    <3>1. m \in Nodes(<<l + 2, i>>) /\ m \in Timers /\ SameNode(m)
      BY <2>2, <1>2, <1>4, <1>5, <1>13, Sizes
    <3>2. LevelTime(m, l, i)
      BY <3>1 DEF Times
    <3>3. Uncascaded(l)' <=> Uncascaded(l)
      BY <1>1 DEF Uncascaded
    <3>4. QED
      BY <3>1, <3>2, <3>3, <1>1, LevelTimeKept
  <2>3. QED
    BY <2>1, <2>2
<1>14. ASSUME NEW m \in Chain' PROVE ChainTime(m)'
  <2>1. m \in Chain /\ m \in Timers /\ SameNode(m)
    BY <1>2, <1>4, <1>5, <1>14
  <2>2. ChainTime(m)
    BY <2>1 DEF Times
  <2>3. QED
    BY <2>1, <2>2, <1>1, ChainTimeKept
<1>15. QED
  BY <1>11, <1>12, <1>13, <1>14 DEF Times

\* A node that is added again is put by the current tick.
LEMMA TimesAgain ==
    ASSUME Base, Base', Lists, Times, CascadeAdd \/ ExecAdd
    PROVE  Times'
<1> PICK n : n = pos
  OBVIOUS
<1> PICK s : s = SlotFor(expire[n], jiffies)
  OBVIOUS
<1>1. /\ UNCHANGED <<jiffies, level, lag, ran, expire, period, adding, loaded, due, pushed>>
      /\ \/ wheel = "readd" /\ wheel' = "readd"
         \/ wheel = "again" /\ wheel' = "exec"
  BY DEF CascadeAdd, ExecAdd, addVars, history
<1>2. /\ n \in Timers /\ n \in Chain /\ Chain' = Chain \ {n} /\ s \in Slots
      /\ Nodes(s)' = Nodes(s) \cup (IF stop[n] THEN {} ELSE {n})
      /\ \A t \in Slots : n \notin Nodes(t) /\ (t # s => Nodes(t)' = Nodes(t))
  BY ListsAgain
<1>3. \A m \in Timers : SameNode(m)
  BY <1>1 DEF SameNode
<1>4. /\ \A t \in Slots : Nodes(t) \subseteq Timers
      /\ Chain \subseteq Timers
  BY DEF Lists, RingInv, Ringed, ChainInv
<1>5. NodeTime(n) /\ ChainTime(n)
  BY <1>2 DEF Times
<1>6. Prompt(n) => jiffies <= expire[n]
  BY <1>1, <1>5 DEF ChainTime
<1>7. /\ jiffies \in Nat /\ expire[n] \in Nat /\ due[n] \in Nat
      /\ jiffies \in 0 .. Horizon
  BY <1>2, TimeTypes DEF Base, TypeOK
<1>8. jiffies <= expire[n] /\ pushed[n] # "edge" => due[n] <= expire[n]
  BY <1>5, <1>7 DEF NodeTime
<1>9. /\ \A i : s = Near(i) => NearTime(n, i)'
      /\ \A l \in 0 .. Levels - 1 : \A i : s = <<l + 2, i>> => LevelTime(n, l, i)'
  <2> DEFINE now == jiffies
  <2>1. now \in 0 .. Horizon /\ s = SlotFor(expire'[n], now) /\ now <= jiffies'
    BY <1>1, <1>7
  <2>2. /\ now <= expire'[n] /\ pushed'[n] # "edge" => due'[n] <= expire'[n]
        /\ Prompt(n)' => now = jiffies' /\ now <= expire'[n]
        /\ wheel' # "take"
    BY <1>1, <1>6, <1>8 DEF Prompt
  <2> HIDE DEF now
  <2>3. QED
    BY <2>1, <2>2, <1>2, PushTime
<1>10. ASSUME NEW m \in Timers PROVE NodeTime(m)'
  BY <1>1, <1>3, NodeTimeKept DEF Times
<1>11. ASSUME NEW i \in 0 .. NearSize - 1, NEW m \in Nodes(Near(i))' PROVE NearTime(m, i)'
  <2>1. CASE m = n
    <3>1. Near(i) = s
      BY <2>1, <1>2, <1>11, Sizes
    <3>2. QED
      BY <2>1, <3>1, <1>9
  <2>2. CASE m # n
    <3>1. m \in Nodes(Near(i)) /\ m \in Timers /\ SameNode(m)
      BY <2>2, <1>2, <1>3, <1>4, <1>11, Sizes
    <3>2. NearTime(m, i)
      BY <3>1 DEF Times
    <3>3. QED
      BY <3>1, <3>2, <1>1, NearTimeKept
  <2>3. QED
    BY <2>1, <2>2
<1>12. ASSUME NEW l \in 0 .. Levels - 1, NEW i \in 0 .. LevelSize - 1, NEW m \in Nodes(<<l + 2, i>>)'
       PROVE  LevelTime(m, l, i)'
  <2>1. CASE m = n
    <3>1. <<l + 2, i>> = s
      BY <2>1, <1>2, <1>12, Sizes
    <3>2. QED
      BY <2>1, <3>1, <1>9
  <2>2. CASE m # n
    <3>1. m \in Nodes(<<l + 2, i>>) /\ m \in Timers /\ SameNode(m)
      BY <2>2, <1>2, <1>3, <1>4, <1>12, Sizes
    <3>2. LevelTime(m, l, i)
      BY <3>1 DEF Times
    <3>3. Uncascaded(l) => Uncascaded(l)'
      BY <1>1 DEF Uncascaded
    <3>4. QED
      BY <3>1, <3>2, <3>3, <1>1, LevelTimeKept
  <2>3. QED
    BY <2>1, <2>2
<1>13. ASSUME NEW m \in Chain' PROVE ChainTime(m)'
  <2>1. m \in Chain /\ m \in Timers /\ SameNode(m) /\ m # n
    BY <1>2, <1>3, <1>4, <1>13
  <2>2. ChainTime(m)
    BY <2>1 DEF Times
  <2>3. QED
    BY <2>1, <2>2, <1>1 DEF ChainTime, SameNode, Prompt
<1>14. QED
  BY <1>10, <1>11, <1>12, <1>13 DEF Times

\* A node that runs is not early, and a prompt one is on time and is due again
\* one period later.
LEMMA TimesExec ==
    ASSUME Base, Base', Lists, Times, Exec
    PROVE  Times'
<1> PICK n : n = pos
  OBVIOUS
<1>1. /\ UNCHANGED <<jiffies, level, period, adding, loaded, pushed>> /\ wheel = "exec"
      /\ IF stop[n]
         THEN UNCHANGED <<due, lag, ran>>
         ELSE /\ ran' = [ran EXCEPT ![n] = TRUE]
              /\ lag' = [lag EXCEPT ![n] = jiffies - 1 - due[n]]
              /\ due' = [due EXCEPT ![n] = IF period[n] = -1 THEN due[n]
                                           ELSE NextDue(due[n] + period[n])]
      /\ IF stop[n] \/ period[n] = -1
         THEN wheel' = "exec" /\ expire' = expire
         ELSE wheel' = "again" /\ expire' = [expire EXCEPT ![n] = period[n] + jiffies - 1]
  BY DEF Exec, addVars
<1>2. /\ n \in Timers /\ n \in Chain
      /\ \A s \in Slots : Nodes(s)' = Nodes(s)
      /\ \/ wheel' = "exec" /\ Chain' = Chain \ {n}
         \/ wheel' = "again" /\ Chain' = Chain /\ pos' = n
  BY ListsExec
<1>3. /\ expire \in [Timers -> 0 .. Word - 1] /\ due \in [Timers -> Nat]
      /\ lag \in [Timers -> Int] /\ ran \in [Timers -> BOOLEAN] /\ stop[n] \in BOOLEAN
  BY <1>2 DEF Base, TypeOK
<1>4. \A m \in Timers : m # n => SameNode(m)
  <2>1. CASE stop[n]
    BY <2>1, <1>1 DEF SameNode
  <2>2. CASE ~stop[n]
    BY <2>2, <1>1, <1>3 DEF SameNode
  <2>3. QED
    BY <2>1, <2>2, <1>3
<1>5. /\ \A t \in Slots : Nodes(t) \subseteq Timers /\ n \notin Nodes(t)
      /\ Chain \subseteq Timers
  BY <1>2, ChainApart DEF Lists, RingInv, Ringed, ChainInv, List
<1>6. NodeTime(n) /\ ChainTime(n)
  BY <1>2 DEF Times
<1>7. /\ jiffies \in Nat /\ expire[n] \in Nat /\ due[n] \in Nat /\ lag[n] \in Int
      /\ period[n] \in Int /\ (period[n] = -1 \/ period[n] \in Nat)
  BY <1>2, TimeTypes
<1>8. /\ pushed[n] # "edge" => due[n] <= expire[n] /\ expire[n] < jiffies
      /\ Prompt(n) => expire[n] + 1 = jiffies /\ due[n] = expire[n]
      /\ adding[n] = "done" /\ (Prompt(n)' <=> Prompt(n))
  BY <1>1, <1>2, <1>6 DEF ChainTime, NodeTime, Prompt, Lists, ChainInv
<1>9. NodeTime(n)' /\ (wheel' = "again" => ChainTime(n)')
  <2>1. CASE stop[n]
    <3>1. SameNode(n) /\ wheel' = "exec"
      BY <2>1, <1>1 DEF SameNode
    <3>2. QED
      BY <3>1, <1>1, <1>2, <1>6, NodeTimeKept
  <2>2. CASE ~stop[n] /\ period[n] = -1
    <3>1. /\ ran'[n] = TRUE /\ lag'[n] = jiffies - 1 - due[n] /\ due'[n] = due[n]
          /\ expire'[n] = expire[n] /\ wheel' = "exec"
      BY <2>2, <1>1, <1>2, <1>3
    <3>2. /\ pushed[n] # "edge" => lag'[n] >= 0
          /\ Prompt(n) => lag'[n] = 0
      BY <3>1, <1>7, <1>8
    <3>3. QED
      BY <3>1, <3>2, <1>1, <1>8 DEF NodeTime
  <2>3. CASE ~stop[n] /\ period[n] # -1
    <3>1. /\ ran'[n] = TRUE /\ lag'[n] = jiffies - 1 - due[n] /\ due'[n] = NextDue(due[n] + period[n])
          /\ expire'[n] = period[n] + jiffies - 1 /\ wheel' = "again" /\ pos' = n
      BY <2>3, <1>1, <1>2, <1>3
    <3>2. /\ pushed[n] # "edge" => lag'[n] >= 0
          /\ Prompt(n) => lag'[n] = 0
      BY <3>1, <1>7, <1>8
    <3>3. period[n] \in Nat
      BY <2>3, <1>7
    <3>4. due'[n] = IF due[n] + period[n] < jiffies THEN jiffies ELSE due[n] + period[n]
      BY <3>1 DEF NextDue
    <3>5. pushed[n] # "edge" => due'[n] <= expire'[n] \/ expire'[n] < jiffies
      BY <3>1, <3>3, <3>4, <1>7, <1>8
    <3>6. Prompt(n) => due'[n] = expire'[n] /\ jiffies <= expire'[n]
      <4> SUFFICES ASSUME Prompt(n) PROVE due'[n] = expire'[n] /\ jiffies <= expire'[n]
        OBVIOUS
      <4>1. period[n] # 0 /\ due[n] + 1 = jiffies
        BY <1>8 DEF Prompt
      <4>2. QED
        BY <4>1, <3>1, <3>3, <3>4, <1>7
    <3>7. NodeTime(n)'
      BY <3>2, <3>5, <3>6, <1>1, <1>8 DEF NodeTime
    <3>8. ChainTime(n)'
      BY <3>1, <3>6, <1>1, <1>8 DEF ChainTime
    <3>9. QED
      BY <3>7, <3>8
  <2>4. QED
    BY <2>1, <2>2, <2>3, <1>3
<1>10. ASSUME NEW m \in Timers PROVE NodeTime(m)'
  <2>1. CASE m = n
    BY <2>1, <1>9
  <2>2. CASE m # n
    BY <2>2, <1>1, <1>4, NodeTimeKept DEF Times
  <2>3. QED
    BY <2>1, <2>2
<1>11. ASSUME NEW i \in 0 .. NearSize - 1, NEW m \in Nodes(Near(i))' PROVE NearTime(m, i)'
  <2>1. m \in Nodes(Near(i)) /\ m \in Timers /\ SameNode(m)
    BY <1>2, <1>4, <1>5, <1>11, Sizes
  <2>2. NearTime(m, i)
    BY <2>1 DEF Times
  <2>3. wheel # "take" /\ wheel' # "take"
    BY <1>1
  <2>4. QED
    BY <2>1, <2>2, <2>3, <1>1, NearTimeKept
<1>12. ASSUME NEW l \in 0 .. Levels - 1, NEW i \in 0 .. LevelSize - 1, NEW m \in Nodes(<<l + 2, i>>)'
       PROVE  LevelTime(m, l, i)'
  <2>1. m \in Nodes(<<l + 2, i>>) /\ m \in Timers /\ SameNode(m)
    BY <1>2, <1>4, <1>5, <1>12, Sizes
  <2>2. LevelTime(m, l, i)
    BY <2>1 DEF Times
  <2>3. Uncascaded(l)'
    BY <1>1 DEF Uncascaded
  <2>4. QED
    BY <2>1, <2>2, <2>3, <1>1, LevelTimeKept
<1>13. ASSUME NEW m \in Chain' PROVE ChainTime(m)'
  <2>1. CASE m = n
    BY <2>1, <1>2, <1>9, <1>13
  <2>2. CASE m # n
    <3>1. m \in Chain /\ m \in Timers /\ SameNode(m)
      BY <2>2, <1>2, <1>4, <1>5, <1>13
    <3>2. ChainTime(m)
      BY <3>1 DEF Times
    <3>3. QED
      BY <2>2, <3>1, <3>2, <1>1, <1>2 DEF ChainTime, SameNode, Prompt
  <2>3. QED
    BY <2>1, <2>2
<1>14. QED
  BY <1>10, <1>11, <1>12, <1>13 DEF Times

\* Actions of the wheel that keep the tick and every time: a list of a level
\* may lose its cascade only in a tick that is not the one it waits for.
LEMMA TimesTurn ==
    ASSUME Base, Lists, Times, jiffies' = jiffies, wheel # "take", wheel' # "take",
           \A n \in Timers : SameNode(n),
           \A s \in Slots : Nodes(s)' \subseteq Nodes(s),
           \A l \in 0 .. Levels - 1, k \in Nat :
               /\ k * LevelMax[l] = jiffies /\ Uncascaded(l)
               /\ Nodes(<<l + 2, k % LevelSize>>)' # {}
               => Uncascaded(l)',
           \A n \in Chain' : ChainTime(n)'
    PROVE  Times'
<1>1. \A s \in Slots : Nodes(s) \subseteq Timers
  BY DEF Lists, RingInv, Ringed
<1>2. ASSUME NEW n \in Timers PROVE NodeTime(n)'
  BY NodeTimeKept DEF Times
<1>3. ASSUME NEW i \in 0 .. NearSize - 1, NEW n \in Nodes(Near(i))' PROVE NearTime(n, i)'
  <2>1. n \in Nodes(Near(i)) /\ n \in Timers /\ SameNode(n)
    BY <1>1, Sizes
  <2>2. NearTime(n, i)
    BY <2>1 DEF Times
  <2>3. QED
    BY <2>1, <2>2, NearTimeKept
<1>4. ASSUME NEW l \in 0 .. Levels - 1, NEW i \in 0 .. LevelSize - 1, NEW n \in Nodes(<<l + 2, i>>)'
      PROVE  LevelTime(n, l, i)'
  <2>1. n \in Nodes(<<l + 2, i>>) /\ n \in Timers /\ SameNode(n)
    BY <1>1, <1>4, Sizes
  <2>2. LevelTime(n, l, i) /\ (Prompt(n)' <=> Prompt(n)) /\ expire'[n] = expire[n]
    BY <2>1 DEF Times, SameNode, Prompt
  <2> SUFFICES ASSUME Prompt(n)
               PROVE  \E k \in 0 .. expire[n] :
                          /\ k % LevelSize = i
                          /\ jiffies <= k * LevelMax[l] /\ k * LevelMax[l] <= expire[n]
                          /\ k * LevelMax[l] = jiffies => Uncascaded(l)'
    BY <2>2 DEF LevelTime
  <2>3. PICK k \in 0 .. expire[n] :
            /\ k % LevelSize = i
            /\ jiffies <= k * LevelMax[l] /\ k * LevelMax[l] <= expire[n]
            /\ k * LevelMax[l] = jiffies => Uncascaded(l)
    BY <2>2 DEF LevelTime
  <2>4. k \in Nat
    OBVIOUS
  <2>5. k * LevelMax[l] = jiffies => Uncascaded(l)'
    BY <2>3, <2>4, <1>4
  <2>6. QED
    BY <2>3, <2>5
<1>5. QED
  BY <1>2, <1>3, <1>4 DEF Times

\* No level is passed over when the near wheel has not come round.
LEMMA TimesTick ==
    ASSUME Base, Lists, Times, Tick
    PROVE  Times'
<1>1. /\ wheel = "idle" /\ wheel' = (IF nearIndex = 0 THEN "cascade" ELSE "inc") /\ level' = 0
      /\ UNCHANGED <<jiffies, pos, lag, ran, expire, period, adding, loaded, due, pushed>>
  BY DEF Tick, nodeVars, addVars, history
<1>2. Chain' = Chain /\ \A s \in Slots : Nodes(s)' = Nodes(s)
  BY ListsTime
<1>3. Chain = {}
  BY <1>1 DEF Lists, ChainInv, Chain, NodesFrom
<1>4. \A n \in Timers : SameNode(n)
  BY <1>1 DEF SameNode
<1>5. ASSUME NEW l \in 0 .. Levels - 1, NEW k \in Nat, k * LevelMax[l] = jiffies PROVE Uncascaded(l)'
  <2>1. jiffies % NearSize = 0
    BY <1>5, CameRound
  <2>2. wheel' = "cascade" /\ level' <= l
    BY <2>1, <1>1, Sizes DEF nearIndex
  <2>3. QED
    BY <2>2 DEF Uncascaded
<1>6. wheel # "take" /\ wheel' # "take" /\ \A n \in Chain' : ChainTime(n)'
  BY <1>1, <1>2, <1>3
<1>7. \A s \in Slots : Nodes(s)' \subseteq Nodes(s)
  BY <1>2
<1>8. QED
  BY <1>1, <1>4, <1>5, <1>6, <1>7, TimesTurn

\* The list that is cascaded is the one that waits for this tick.
LEMMA TimesCascadeTake ==
    ASSUME Base, Lists, Times, CascadeTake
    PROVE  Times'
<1> PICK s \in Slots : s = cascadeSlot
  BY TakenSlots DEF Base
<1>1. /\ wheel = "cascade" /\ wheel' = "readd" /\ level' = level
      /\ UNCHANGED <<jiffies, lag, ran, expire, period, adding, loaded, due, pushed>>
  BY DEF CascadeTake, nodeVars, addVars, history
<1>2. Chain' = Nodes(s) /\ Nodes(s)' = {} /\ \A t \in Slots : t # s => Nodes(t)' = Nodes(t)
  <2>1. (CascadeTake /\ s = cascadeSlot) \/ (Take /\ s = nearSlot)
    OBVIOUS
  <2>2. QED
    BY <2>1, ListsTake
<1>3. level \in 0 .. Levels - 1 /\ jiffies \in Nat
  BY Sizes DEF Base, TypeOK
<1>4. \A n \in Timers : SameNode(n)
  BY <1>1 DEF SameNode
<1>5. ASSUME NEW l \in 0 .. Levels - 1, NEW k \in Nat, k * LevelMax[l] = jiffies, Uncascaded(l),
             Nodes(<<l + 2, k % LevelSize>>)' # {}
      PROVE  Uncascaded(l)'
  <2>1. level <= l
    BY <1>1, <1>5 DEF Uncascaded
  <2>2. level # l
    <3> SUFFICES ASSUME level = l PROVE FALSE
      OBVIOUS
    <3>1. jiffies \div LevelMax[l] = k
      BY <1>5, CameRound
    <3>2. s = <<l + 2, k % LevelSize>>
      BY <3>1 DEF cascadeSlot, levelIndex
    <3>3. QED
      BY <3>2, <1>2, <1>5
  <2>3. QED
    BY <2>1, <2>2, <1>1, <1>3 DEF Uncascaded
<1>6. ASSUME NEW n \in Chain' PROVE ChainTime(n)'
  <2>1. n \in Timers
    BY <1>2 DEF Lists, RingInv, Ringed
  <2>2. PICK l \in 0 .. Levels - 1, i \in 0 .. LevelSize - 1 : s = <<l + 2, i>>
    <3>1. levelIndex \in 0 .. LevelSize - 1
      <4>1. level \in 0 .. Levels
        BY <1>3, Sizes
      <4>2. LevelMax[level] \in Nat \ {0}
        BY <4>1, LevelMaxDef
      <4>3. jiffies \div LevelMax[level] \in Int
        BY <1>3, <4>2, DivMod
      <4>4. QED
        BY <4>3, Sizes, DivMod DEF levelIndex
    <3>2. QED
      BY <3>1, <1>3 DEF cascadeSlot
  <2>3. LevelTime(n, l, i)
    BY <2>2, <1>2, <1>6 DEF Times
  <2>4. Prompt(n) => jiffies <= expire[n]
    <3> SUFFICES ASSUME Prompt(n) PROVE jiffies <= expire[n]
      OBVIOUS
    <3>1. PICK k \in 0 .. expire[n] : jiffies <= k * LevelMax[l] /\ k * LevelMax[l] <= expire[n]
      BY <2>3 DEF LevelTime
    <3> DEFINE c == k * LevelMax[l]
    <3>2. expire[n] \in Nat /\ LevelMax[l] \in Nat /\ k \in Nat
      BY <2>1, TimeTypes, LevelMaxDef, Sizes
    <3>3. c \in Nat
      BY <3>2
    <3> HIDE DEF c
    <3>4. jiffies <= c /\ c <= expire[n]
      BY <3>1 DEF c
    <3>5. QED
      BY <3>2, <3>3, <3>4, <1>3
  <2>5. QED
    BY <2>4, <1>1 DEF ChainTime, Prompt
<1>7. wheel # "take" /\ wheel' # "take"
  BY <1>1
<1>8. \A t \in Slots : Nodes(t)' \subseteq Nodes(t)
  BY <1>2
<1>9. QED
  BY <1>1, <1>4, <1>5, <1>6, <1>7, <1>8, TimesTurn

\* No level is passed over when the level below it has not come round.
LEMMA TimesDrop ==
    ASSUME Base, Lists, Times, CascadeNext \/ ExecEnd
    PROVE  Times'
<1>1. UNCHANGED <<jiffies, lag, ran, expire, period, adding, loaded, due, pushed>>
  BY DEF CascadeNext, ExecEnd, nodeVars, addVars, history
<1>2. Chain' = {} /\ \A s \in Slots : Nodes(s)' = Nodes(s)
  BY ListsDrop
<1>3. level \in 0 .. Levels - 1 /\ Levels \in Nat
  BY Sizes DEF Base, TypeOK
<1>4. \A n \in Timers : SameNode(n)
  BY <1>1 DEF SameNode
<1>5. ASSUME NEW l \in 0 .. Levels - 1, NEW k \in Nat, k * LevelMax[l] = jiffies, Uncascaded(l)
      PROVE  Uncascaded(l)'
  <2>1. CASE ExecEnd
    BY <2>1 DEF ExecEnd, Uncascaded
  <2>2. CASE CascadeNext
    <3>1. wheel = "readd" /\ level < l
      BY <2>2, <1>5 DEF CascadeNext, Uncascaded
    <3>2. level \in 0 .. l - 1 /\ level < Levels - 1
      BY <3>1, <1>3
    <3>3. levelIndex = 0
      BY <3>2, <1>5, CameRound DEF levelIndex
    <3>4. wheel' = "cascade" /\ level' = level + 1
      BY <2>2, <3>2, <3>3 DEF CascadeNext, MoreLevels
    <3>5. QED
      BY <3>1, <3>4, <1>3 DEF Uncascaded
  <2>3. QED
    BY <2>1, <2>2
<1>6. wheel # "take" /\ wheel' # "take" /\ \A n \in Chain' : ChainTime(n)'
  BY <1>2 DEF CascadeNext, ExecEnd
<1>7. \A s \in Slots : Nodes(s)' \subseteq Nodes(s)
  BY <1>2
<1>8. QED
  BY <1>1, <1>4, <1>5, <1>6, <1>7, TimesTurn

\* No list waits for the tick that ends.
LEMMA TimesInc ==
    ASSUME Base, Lists, Times, Inc
    PROVE  Times'
<1>1. /\ wheel = "inc" /\ wheel' = "take" /\ jiffies' = jiffies + 1
      /\ UNCHANGED <<lag, ran, expire, period, adding, loaded, due, pushed>>
  BY DEF Inc, nodeVars, addVars, history
<1>2. Chain' = Chain /\ \A s \in Slots : Nodes(s)' = Nodes(s)
  BY ListsTime
<1>3. Chain = {} /\ \A s \in Slots : Nodes(s) \subseteq Timers
  BY <1>1 DEF Lists, ChainInv, RingInv, Ringed, Chain, NodesFrom
<1>4. \A n \in Timers : Prompt(n)' <=> Prompt(n)
  BY <1>1 DEF Prompt
<1>5. ASSUME NEW n \in Timers PROVE NodeTime(n)'
  <2>1. NodeTime(n)
    BY DEF Times
  <2>2. jiffies \in Nat /\ expire[n] \in Nat
    BY TimeTypes
  <2>3. QED
    BY <2>1, <2>2, <1>1, <1>4 DEF NodeTime
<1>6. ASSUME NEW i \in 0 .. NearSize - 1, NEW n \in Nodes(Near(i))' PROVE NearTime(n, i)'
  <2>1. n \in Nodes(Near(i)) /\ n \in Timers
    BY <1>2, <1>3, <1>6, Sizes
  <2>2. NearTime(n, i)
    BY <2>1 DEF Times
  <2>3. jiffies \in Nat /\ expire[n] \in Nat /\ NearSize \in Nat
    BY <2>1, TimeTypes
  <2>4. QED
    BY <2>1, <2>2, <2>3, <1>1, <1>4 DEF NearTime
<1>7. ASSUME NEW l \in 0 .. Levels - 1, NEW i \in 0 .. LevelSize - 1, NEW n \in Nodes(<<l + 2, i>>)'
      PROVE  LevelTime(n, l, i)'
  <2>1. n \in Nodes(<<l + 2, i>>) /\ n \in Timers
    BY <1>2, <1>3, <1>7, Sizes
  <2>2. LevelTime(n, l, i) /\ Uncascaded(l)' /\ ~Uncascaded(l)
    BY <2>1, <1>1 DEF Times, Uncascaded
  <2> SUFFICES ASSUME Prompt(n)
               PROVE  \E k \in 0 .. expire[n] :
                          /\ k % LevelSize = i
                          /\ jiffies + 1 <= k * LevelMax[l] /\ k * LevelMax[l] <= expire[n]
    BY <2>1, <2>2, <1>1, <1>4 DEF LevelTime
  <2>3. PICK k \in 0 .. expire[n] :
            /\ k % LevelSize = i
            /\ jiffies <= k * LevelMax[l] /\ k * LevelMax[l] <= expire[n]
            /\ k * LevelMax[l] # jiffies
    BY <2>2 DEF LevelTime
  <2> DEFINE c == k * LevelMax[l]
  <2>4. jiffies \in Nat /\ LevelMax[l] \in Nat /\ k \in Nat
    BY <2>1, TimeTypes, LevelMaxDef, Sizes
  <2>5. c \in Nat
    BY <2>4
  <2>6. jiffies <= c /\ c # jiffies
    BY <2>3
  <2> HIDE DEF c
  <2>7. jiffies + 1 <= c
    BY <2>4, <2>5, <2>6
  <2>8. QED
    BY <2>3, <2>7 DEF c
<1>8. QED
  BY <1>2, <1>3, <1>5, <1>6, <1>7 DEF Times

\* The near list that is taken holds no node of a later turn.
LEMMA TimesTake ==
    ASSUME Base, Lists, Times, Take
    PROVE  Times'
<1> PICK s \in Slots : s = nearSlot
  BY TakenSlots DEF Base
<1>1. /\ wheel = "take" /\ wheel' \in {"idle", "exec"}
      /\ UNCHANGED <<jiffies, lag, ran, expire, period, adding, loaded, due, pushed>>
  BY DEF Take, nodeVars, addVars, history
<1>2. Chain' = Nodes(s) /\ Nodes(s)' = {} /\ \A t \in Slots : t # s => Nodes(t)' = Nodes(t)
  <2>1. (CascadeTake /\ s = cascadeSlot) \/ (Take /\ s = nearSlot)
    OBVIOUS
  <2>2. QED
    BY <2>1, ListsTake
<1>3. jiffies \in Nat /\ jiffies > 0 /\ NearSize \in Nat \ {0}
  BY <1>1, Sizes DEF Base, TypeOK
<1>4. \A n \in Timers : SameNode(n) /\ (Prompt(n)' <=> Prompt(n))
  BY <1>1 DEF SameNode, Prompt
<1>5. \A t \in Slots : Nodes(t) \subseteq Timers
  BY DEF Lists, RingInv, Ringed
<1> DEFINE j == jiffies - 1
<1>6. j \in Nat /\ j % NearSize \in 0 .. NearSize - 1 /\ s = Near(j % NearSize)
  <2>1. j \in Nat
    BY <1>3
  <2>2. j % NearSize \in 0 .. NearSize - 1
    <3> HIDE DEF j
    <3>1. QED
      BY <2>1, <1>3, DivMod
  <2>3. QED
    BY <2>1, <2>2 DEF nearSlot
<1>7. ASSUME NEW n \in Timers PROVE NodeTime(n)'
  BY <1>1, <1>4, NodeTimeKept DEF Times
<1>8. ASSUME NEW i \in 0 .. NearSize - 1, NEW n \in Nodes(Near(i))' PROVE NearTime(n, i)'
  <2>1. Near(i) # s /\ n \in Nodes(Near(i)) /\ n \in Timers
    BY <1>2, <1>5, <1>8, Sizes
  <2>2. NearTime(n, i)
    BY <2>1 DEF Times
  <2>3. i # j % NearSize
    BY <2>1, <1>6
  <2>4. expire[n] \in Nat
    BY <2>1, TimeTypes
  <2>5. Prompt(n) => jiffies <= expire[n]
    <3> SUFFICES ASSUME Prompt(n), expire[n] + 1 = jiffies PROVE FALSE
      BY <2>2 DEF NearTime
    <3>1. expire[n] = j
      BY <2>4, <1>3
    <3>2. expire[n] % NearSize = i
      BY <2>2 DEF NearTime, Prompt
    <3>3. QED
      BY <3>1, <3>2, <2>3
  <2>6. QED
    BY <2>1, <2>2, <2>5, <1>1, <1>4 DEF NearTime
<1>9. ASSUME NEW l \in 0 .. Levels - 1, NEW i \in 0 .. LevelSize - 1, NEW n \in Nodes(<<l + 2, i>>)'
      PROVE  LevelTime(n, l, i)'
  <2>1. n \in Nodes(<<l + 2, i>>) /\ n \in Timers /\ SameNode(n)
    BY <1>2, <1>4, <1>5, <1>9, Sizes
  <2>2. LevelTime(n, l, i)
    BY <2>1 DEF Times
  <2>3. Uncascaded(l)'
    BY <1>1 DEF Uncascaded
  <2>4. QED
    BY <2>1, <2>2, <2>3, <1>1, LevelTimeKept
<1>10. ASSUME NEW n \in Chain' PROVE ChainTime(n)'
  <2>1. n \in Nodes(s) /\ n \in Timers
    BY <1>2, <1>5, <1>10
  <2> PICK i \in 0 .. NearSize - 1 : i = j % NearSize
    BY <1>6
  <2>2. NearTime(n, i)
    BY <2>1, <1>6 DEF Times
  <2>3. expire[n] \in Nat /\ due[n] \in Nat
    BY <2>1, TimeTypes
  <2>4. pushed[n] # "edge" => due[n] <= expire[n] /\ expire[n] < jiffies
    <3> SUFFICES ASSUME pushed[n] # "edge" PROVE due[n] <= expire[n] /\ expire[n] < jiffies
      OBVIOUS
    <3>1. /\ expire[n] % NearSize = j % NearSize /\ due[n] <= expire[n]
          /\ expire[n] + 1 < jiffies + NearSize
      BY <2>2, <1>1 DEF NearTime
    <3>2. CASE expire[n] < jiffies
      BY <3>1, <3>2
    <3>3. CASE ~(expire[n] < jiffies)
      <4>1. j <= expire[n] /\ expire[n] < j + NearSize
        BY <3>1, <3>3, <2>3, <1>3
      <4> HIDE DEF j
      <4>2. j = expire[n]
        BY <4>1, <3>1, <2>3, <1>3, <1>6, SameTurn
      <4>3. QED
        BY <4>2, <3>1, <3>3, <1>3, <2>3 DEF j
    <3>4. QED
      BY <3>2, <3>3
  <2>5. Prompt(n) => expire[n] + 1 = jiffies
    <3> SUFFICES ASSUME Prompt(n) PROVE expire[n] + 1 = jiffies
      OBVIOUS
    <3>1. pushed[n] # "edge" /\ (jiffies <= expire[n] \/ expire[n] + 1 = jiffies)
      BY <2>2 DEF NearTime, Prompt
    <3>2. QED
      BY <3>1, <2>3, <2>4, <1>3
  <2>6. QED
    BY <2>1, <2>4, <2>5, <1>1, <1>4 DEF ChainTime
<1>11. QED
  BY <1>7, <1>8, <1>9, <1>10 DEF Times

\* There is no time to keep at the start.
LEMMA TimesInit == Init => Times
<1> SUFFICES ASSUME Init PROVE Times
  OBVIOUS
<1>1. Lists
  BY ListsInit
<1>2. \A n \in Timers : adding[n] = "new" /\ ran[n] = FALSE /\ due[n] = 0 /\ expire[n] = 0 /\ pushed[n] = "no"
  BY DEF Init
<1>3. /\ \A s \in Slots : \A n \in Nodes(s) : FALSE
      /\ \A n \in Chain : FALSE
  BY <1>1, <1>2 DEF Lists, RingInv, Ringed, ChainInv
<1>4. \A n \in Timers : NodeTime(n)
  BY <1>2 DEF NodeTime, Prompt
<1>5. QED
  BY <1>3, <1>4, Sizes DEF Times

\* Every step keeps the times as long as no node is unlinked twice.
LEMMA TimeStep == Base /\ ListInv /\ TimeInv /\ [Next]_vars => TimeInv'
<1> SUFFICES ASSUME Base, ListInv, TimeInv, [Next]_vars, ~cut' PROVE Times'
  BY DEF TimeInv
<1>1. Lists /\ Times /\ Base'
  BY CutStays, BaseStep DEF ListInv, TimeInv
<1>2. CASE Tick
  BY <1>1, <1>2, TimesTick
<1>3. CASE CascadeTake
  BY <1>1, <1>3, TimesCascadeTake
<1>4. CASE CascadeAdd \/ ExecAdd
  BY <1>1, <1>4, TimesAgain
<1>5. CASE CascadeNext \/ ExecEnd
  BY <1>1, <1>5, TimesDrop
<1>6. CASE Inc
  BY <1>1, <1>6, TimesInc
<1>7. CASE Take
  BY <1>1, <1>7, TimesTake
<1>8. CASE Exec
  BY <1>1, <1>8, TimesExec
<1>9. ASSUME NEW n \in Timers, AfterFunc(n) \/ ScheduleFunc(n) PROVE Times'
  BY <1>1, <1>9, TimesAddLoad
<1>10. ASSUME NEW n \in Timers, AddPush(n) PROVE Times'
  BY <1>1, <1>10, TimesAddPush
<1>11. ASSUME NEW n \in Stops, StopFlag(n) \/ StopLoad(n) \/ StopDel(n) PROVE Times'
  <2>1. UNCHANGED <<jiffies, wheel, level, pos, expire, period, adding, loaded, due, lag, ran, pushed>>
    BY <1>11 DEF StopFlag, StopLoad, StopDel, nodeVars, addVars, wheelVars, history
  <2>2. \A m \in Timers : SameNode(m)
    BY <2>1 DEF SameNode
  <2>3. Chain' = Chain /\ \A s \in Slots : Nodes(s)' \subseteq Nodes(s)
    <3>1. CASE StopDel(n)
      BY <3>1, <1>1, ListsStopDel
    <3>2. CASE StopFlag(n) \/ StopLoad(n)
      BY <3>2, <1>1, ListsStopEarly
    <3>3. QED
      BY <3>1, <3>2, <1>11
  <2>4. QED
    BY <2>1, <2>2, <2>3, <1>1, TimesSame
<1>12. CASE UNCHANGED vars
  <2>1. /\ UNCHANGED <<jiffies, wheel, level, pos, expire, period, adding, loaded, due, lag, ran, pushed>>
        /\ UNCHANGED next
    BY <1>12 DEF vars, slotVars, nodeVars, addVars, wheelVars, history
  <2>2. \A m \in Timers : SameNode(m)
    BY <2>1 DEF SameNode
  <2>3. Chain' = Chain /\ \A s \in Slots : Nodes(s)' \subseteq Nodes(s)
    BY <2>1 DEF Chain, Nodes
  <2>4. QED
    BY <2>1, <2>2, <2>3, <1>1, TimesSame
<1>13. QED
  BY <1>2, <1>3, <1>4, <1>5, <1>6, <1>7, <1>8, <1>9, <1>10, <1>11, <1>12 DEF Next, WheelStep

\* The whole invariant holds in every state.
LEMMA TimesAlways == Spec => [](Base /\ ListInv /\ TimeInv)
<1>1. Init => Base /\ ListInv /\ TimeInv
  BY BaseInit, ListsInit, TimesInit DEF ListInv, TimeInv
<1>2. Base /\ ListInv /\ TimeInv /\ [Next]_vars => (Base /\ ListInv /\ TimeInv)'
  BY BaseStep, ListStep, TimeStep
<1>3. QED
  BY <1>1, <1>2, PTL DEF Spec

\* However late AfterFunc or ScheduleFunc pushes its node and through whatever
\* cascades it goes, moveAndExec does not run it before its tick, unless the
\* delay is the one that lets it fall into the list that is being taken.
THEOREM NeverEarlyHolds == Spec => []NeverEarly
<1>1. ASSUME Base, TimeInv PROVE NeverEarly
  BY <1>1 DEF TimeInv, Times, NodeTime, NeverEarly
<1>2. QED
  BY <1>1, TimesAlways, PTL

\* A timer that is pushed in the tick in which its caller loaded jiffies runs
\* in exactly its tick, and again at every multiple of its period, for every
\* size of the wheel and every distance, those beyond its reach included.
THEOREM OnTimeHolds == Spec => []OnTime
<1>1. ASSUME Base, ListInv, TimeInv PROVE OnTime
  <2> SUFFICES ASSUME ~cut, NEW n \in Timers, Prompt(n)
               PROVE  /\ ran[n] => lag[n] = 0
                      /\ wheel = "idle" /\ Pending(n) => jiffies <= due[n]
    BY DEF OnTime, Prompt
  <2>1. Lists /\ Times
    BY <1>1 DEF ListInv, TimeInv
  <2>2. (ran[n] => lag[n] = 0) /\ due[n] = expire[n]
    BY <2>1 DEF Times, NodeTime
  <2>3. ASSUME wheel = "idle", Pending(n) PROVE jiffies <= expire[n]
    <3>1. n \notin Chain
      BY <2>1, <2>3 DEF Lists, ChainInv, Chain, NodesFrom
    <3>2. n \in Nodes(nlist[n]) /\ nlist[n] \in Slots
      BY <2>1, <2>3, <3>1, <1>1 DEF Lists, HomeInv, Pending, Fresh, Base, TypeOK
    <3>3. CASE \E i \in 0 .. NearSize - 1 : nlist[n] = Near(i)
      <4>1. PICK i \in 0 .. NearSize - 1 : nlist[n] = Near(i)
        BY <3>3
      <4>2. NearTime(n, i)
        BY <4>1, <3>2, <2>1 DEF Times
      <4>3. QED
        BY <4>2, <2>3 DEF NearTime
    <3>4. CASE \E v \in 2 .. Levels + 1, i \in 0 .. LevelSize - 1 : nlist[n] = <<v, i>>
      <4>1. PICK v \in 2 .. Levels + 1, i \in 0 .. LevelSize - 1 : nlist[n] = <<v, i>>
        BY <3>4
      <4>2. Levels \in Nat /\ v - 2 \in 0 .. Levels - 1 /\ (v - 2) + 2 = v
        BY Sizes
      <4> PICK l \in 0 .. Levels - 1 : l = v - 2
        BY <4>2
      <4>3. LevelTime(n, l, i)
        BY <4>1, <4>2, <3>2, <2>1 DEF Times
      <4>4. PICK k \in 0 .. expire[n] : jiffies <= k * LevelMax[l] /\ k * LevelMax[l] <= expire[n]
        BY <4>3 DEF LevelTime
      <4> DEFINE c == k * LevelMax[l]
      <4>5. jiffies \in Nat /\ expire[n] \in Nat /\ LevelMax[l] \in Nat /\ k \in Nat
        BY <1>1, TimeTypes, LevelMaxDef, Sizes
      <4>6. c \in Nat
        BY <4>5
      <4> HIDE DEF c
      <4>7. jiffies <= c /\ c <= expire[n]
        BY <4>4 DEF c
      <4>8. QED
        BY <4>5, <4>6, <4>7
    <3>5. QED
      BY <3>2, <3>3, <3>4 DEF Slots
  <2>4. QED
    BY <2>2, <2>3
<1>2. QED
  BY <1>1, TimesAlways, PTL
=============================================================================

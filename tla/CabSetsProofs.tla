---------------------------- MODULE CabSetsProofs ----------------------------
(***************************************************************************)
(* Theorems about CabSets, for every number of cabinets, images, folders   *)
(* and files.  The first three hold for callers that also join members of  *)
(* a search chain; the other six are for callers that keep to the          *)
(* documentation of close(), and three of those for well-formed joints.    *)
(*                                                                         *)
(* A list is reached through Walk, a recursive function.  The proofs show  *)
(* once that what it visits is the least set that holds the head and is    *)
(* closed under next, and from there on use nothing else about it.  Only   *)
(* the last theorem, that CabSets implements CabSetView, is about the order*)
(* of the objects: there a list is a sequence (Lists).                     *)
(***************************************************************************)
EXTENDS CabSetsRefine, FiniteSetTheorems, SequenceTheorems, TLAPS

USE DEF FROM_PREV, TO_NEXT, PREV_AND_NEXT

\* What the constants say of one image.
LEMMA ImageType ==
  ASSUME NEW i \in Image
  PROVE  /\ MaxFolders \in Nat /\ MaxFiles \in Nat /\ FolderMax \in Nat \ {0}
         /\ ImageFolders[i] \in Seq(FolderEntry) /\ Len(ImageFolders[i]) \in 1..MaxFolders
         /\ ImageFiles[i] \in Seq(FileEntry) /\ Len(ImageFiles[i]) \in 1..MaxFiles
         /\ DOMAIN ImageFiles[i] = 1..Len(ImageFiles[i])
BY CabSetsAssumption DEF CabSetsAssumption

LEMMA FolderEntryType ==
  ASSUME NEW i \in Image, NEW n \in 1..Len(ImageFolders[i])
  PROVE  ImageFolders[i][n] \in FolderEntry /\ ImageFolders[i][n].blocks <= FolderMax
<1>1. ImageFolders[i][n] \in FolderEntry
  BY ImageType
<1> QED
  BY <1>1, CabSetsAssumption DEF CabSetsAssumption

-----------------------------------------------------------------------------
(* Lists: what Walk visits is the least set that holds the head and is      *)
(* closed under next.  All later proofs use only that.                      *)

\* The next fields of the objects of D.
Links(next, D) == next \in [D -> D \cup {NULL}] /\ NULL \notin D /\ IsFiniteSet(D)

\* A set of natural numbers that is not empty has a least member.
LEMMA LeastNumber ==
  ASSUME NEW S \in SUBSET Nat, S # {}
  PROVE  \E k \in S : \A j \in S : k <= j
<1> DEFINE R == OpToRel(<, Nat)
<1>1. PICK k \in S : \A j \in S : ~(<<j, k>> \in R)
  BY NatLessThanWellFounded, WFMin
<1>2. R = {p \in Nat \X Nat : p[1] < p[2]}
  BY DEF OpToRel
<1>3. \A j \in S : <<j, k>> \in Nat \X Nat /\ k \in Nat /\ j \in Nat
  OBVIOUS
<1>4. \A j \in S : k <= j
  <2> HIDE DEF R
  <2> TAKE j \in S
  <2>1. ~(j < k)
    BY <1>1, <1>2, <1>3
  <2> QED
    BY <2>1, <1>3
<1> QED
  BY <1>4

\* A walk of any length from h.
Steps(h, next, N, w) ==
  w = [n \in 0..N |-> IF n = 0 THEN h
                      ELSE LET p == w[n - 1] IN IF p = NULL THEN NULL ELSE next[p]]

LEMMA StepsExist ==
  ASSUME NEW h, NEW next, NEW N \in Nat
  PROVE  \E w : Steps(h, next, N, w)
<1> DEFINE S == {n \in Nat : ~\E w : Steps(h, next, n, w)}
<1> SUFFICES ASSUME S # {} PROVE FALSE
  OBVIOUS
<1>1. PICK k \in S : \A j \in S : k <= j
  BY LeastNumber
<1>2. CASE k = 0
  <2> DEFINE w == [n \in 0..0 |-> h]
  <2>1. Steps(h, next, 0, w)
    BY DEF Steps
  <2> QED
    BY <1>2, <2>1
<1>3. CASE k # 0
  <2>1. k - 1 \in Nat /\ k - 1 \notin S
    BY <1>1, <1>3
  <2>2. PICK v : Steps(h, next, k - 1, v)
    BY <2>1
  <2> DEFINE w == [n \in 0..k |-> IF n = k THEN (IF v[k - 1] = NULL THEN NULL ELSE next[v[k - 1]])
                                  ELSE v[n]]
  <2>3. \A n \in 0..k : w[n] = IF n = 0 THEN h ELSE IF w[n - 1] = NULL THEN NULL ELSE next[w[n - 1]]
    <3>1. \A n \in 0..k - 1 : v[n] = IF n = 0 THEN h ELSE IF v[n - 1] = NULL THEN NULL ELSE next[v[n - 1]]
      BY <2>1, <2>2 DEF Steps
    <3> TAKE n \in 0..k
    <3>2. CASE n = k
      <4>1. k - 1 \in 0..k /\ k - 1 # k /\ k \in 0..k
        BY <2>1
      <4> QED
        BY <3>2, <1>3, <4>1
    <3>3. CASE n # k
      <4>1. n \in 0..k - 1 /\ (n # 0 => n - 1 \in 0..k /\ n - 1 # k)
        BY <2>1, <3>3
      <4>2. w[n] = v[n] /\ (n # 0 => w[n - 1] = v[n - 1])
        BY <3>3, <4>1
      <4> HIDE DEF w
      <4> QED
        BY <3>1, <4>1, <4>2
    <3> QED
      BY <3>2, <3>3
  <2>4. Steps(h, next, k, w)
    <3> HIDE DEF w
    <3>1. w = [n \in 0..k |-> w[n]]
      BY DEF w
    <3> QED
      BY <2>3, <3>1 DEF Steps
  <2> QED
    BY <2>4
<1> QED
  BY <1>2, <1>3

\* The n-th step of a walk.
WalkStep(w, next, n) == w[n] = IF w[n - 1] = NULL THEN NULL ELSE next[w[n - 1]]

LEMMA WalkSteps ==
  ASSUME NEW D, NEW next, NEW h \in D \cup {NULL}, Links(next, D)
  PROVE  /\ Cardinality(D) \in Nat
         /\ Walk(h, next) \in [0..Cardinality(D) -> D \cup {NULL}]
         /\ Walk(h, next)[0] = h
         /\ \A n \in 1..Cardinality(D) : WalkStep(Walk(h, next), next, n)
<1> DEFINE N == Cardinality(D)
           w == Walk(h, next)
<1>1. N \in Nat /\ DOMAIN next = D
  BY FS_CardinalityType DEF Links
<1>2. w = CHOOSE v : Steps(h, next, N, v)
  BY <1>1 DEF Walk, Steps
<1>3. Steps(h, next, N, w)
  BY <1>1, <1>2, StepsExist
<1>4. w = [n \in 0..N |-> w[n]] /\ w[0] = h
  BY <1>1, <1>3 DEF Steps
<1>5. \A n \in 1..N : WalkStep(w, next, n)
  BY <1>1, <1>3 DEF Steps, WalkStep
<1> HIDE DEF w, N
<1>6. \A n \in 0..N : w[n] \in D \cup {NULL}
  <2> DEFINE S == {n \in 0..N : w[n] \notin D \cup {NULL}}
  <2> SUFFICES ASSUME S # {} PROVE FALSE
    OBVIOUS
  <2>1. S \in SUBSET Nat
    BY <1>1
  <2>2. PICK k \in S : \A j \in S : k <= j
    BY <2>1, LeastNumber
  <2>3. k # 0
    BY <1>4
  <2>4. k - 1 \in 0..N /\ k \in 1..N /\ k - 1 \notin S
    BY <1>1, <2>2, <2>3
  <2> QED
    BY <1>5, <2>2, <2>4 DEF Links, WalkStep
<1> QED
  BY <1>1, <1>4, <1>5, <1>6 DEF w, N

\* What is in a set that the head is in and that next does not leave holds the list.
LEMMA ItemsInClosed ==
  ASSUME NEW D, NEW next, NEW h \in D \cup {NULL}, Links(next, D), NEW S,
         h \in S \cup {NULL}, \A x \in S : x \in D => next[x] \in S \cup {NULL}
  PROVE  Items(h, next) \subseteq S /\ Items(h, next) \subseteq D
<1> DEFINE N == Cardinality(D)
           w == Walk(h, next)
           B == {n \in 0..N : w[n] \notin S \cup {NULL}}
<1>1. /\ N \in Nat /\ w \in [0..N -> D \cup {NULL}] /\ w[0] = h
      /\ \A n \in 1..N : WalkStep(w, next, n)
  BY WalkSteps
<1>2. DOMAIN next = D /\ DOMAIN w = 0..N /\ NULL \notin D
  BY <1>1 DEF Links
<1> HIDE DEF w, N
<1> USE DEF WalkStep
<1>3. ASSUME B # {} PROVE FALSE
  <2>1. B \in SUBSET Nat
    BY <1>1
  <2>2. PICK k \in B : \A j \in B : k <= j
    BY <1>3, <2>1, LeastNumber
  <2>3. k # 0
    BY <1>1
  <2>4. k - 1 \in 0..N /\ k \in 1..N /\ k - 1 \notin B
    BY <1>1, <2>2, <2>3
  <2> QED
    BY <1>1, <2>2, <2>4
<1>4. Items(h, next) = {x \in D : \E n \in 0..N : w[n] = x}
  BY <1>2 DEF Items, w
<1> QED
  BY <1>2, <1>3, <1>4

\* After the list has ended nothing comes.
LEMMA WalkEnds ==
  ASSUME NEW D, NEW next, NEW h \in D \cup {NULL}, Links(next, D),
         NEW m \in 0..Cardinality(D), Walk(h, next)[m] = NULL,
         NEW k \in m..Cardinality(D)
  PROVE  Walk(h, next)[k] = NULL
<1> DEFINE N == Cardinality(D)
           w == Walk(h, next)
           B == {n \in m..N : w[n] # NULL}
<1>1. /\ N \in Nat
      /\ \A n \in 1..N : WalkStep(w, next, n)
  BY WalkSteps
<1> HIDE DEF w, N
<1> USE DEF WalkStep
<1>2. ASSUME B # {} PROVE FALSE
  <2>1. B \in SUBSET Nat
    BY <1>1
  <2>2. PICK j \in B : \A i \in B : j <= i
    BY <1>2, <2>1, LeastNumber
  <2>3. j # m
    BY <2>2 DEF w
  <2>4. j - 1 \in m..N /\ j \in 1..N /\ j - 1 \notin B
    BY <1>1, <2>2, <2>3 DEF N
  <2> QED
    BY <1>1, <2>2, <2>4
<1> QED
  BY <1>2 DEF w, N

\* A walk of as many steps as there are objects comes by everything it can reach:
\* if it has not ended it has gone round.
LEMMA ItemsClosed ==
  ASSUME NEW D, NEW next, NEW h \in D \cup {NULL}, Links(next, D)
  PROVE  /\ h # NULL => h \in Items(h, next)
         /\ \A x \in Items(h, next) : next[x] \in Items(h, next) \cup {NULL}
<1> DEFINE N == Cardinality(D)
           w == Walk(h, next)
<1>1. /\ N \in Nat /\ w \in [0..N -> D \cup {NULL}] /\ w[0] = h
      /\ \A n \in 1..N : WalkStep(w, next, n)
  BY WalkSteps
<1>2. DOMAIN next = D /\ DOMAIN w = 0..N /\ NULL \notin D /\ next \in [D -> D \cup {NULL}] /\ IsFiniteSet(D)
  BY <1>1 DEF Links
<1>3. \A m \in 0..N : \A k \in m..N : w[m] = NULL => w[k] = NULL
  BY WalkEnds
<1>4. Items(h, next) = {x \in D : \E n \in 0..N : w[n] = x}
  BY <1>2 DEF Items
<1> HIDE DEF w, N
<1> USE DEF WalkStep
<1>5. h # NULL => h \in Items(h, next)
  BY <1>1, <1>4
<1>6. ASSUME NEW n \in 0..N, w[n] # NULL, n # N
      PROVE  next[w[n]] \in Items(h, next) \cup {NULL}
  <2>1. n + 1 \in 1..N /\ n + 1 - 1 = n /\ n + 1 \in 0..N
    BY <1>1, <1>6
  <2>2. w[n + 1] = next[w[n]]
    BY <1>1, <1>6, <2>1
  <2>3. w[n + 1] \in D \cup {NULL}
    BY <1>1, <2>1
  <2> QED
    BY <1>4, <2>1, <2>2, <2>3
<1>7. ASSUME w[N] # NULL
      PROVE  \E m \in 0..N : m # N /\ w[m] = w[N]
  <2>1. \A m \in 0..N : w[m] # NULL
    BY <1>1, <1>3, <1>7
  <2>2. w \in [0..N -> D]
    BY <1>1, <2>1
  <2>3. IsFiniteSet(0..N) /\ Cardinality(0..N) = N + 1
    BY <1>1, FS_Interval
  <2>4. Cardinality(D) < Cardinality(0..N)
    BY <1>1, <2>3 DEF N
  <2>5. \E x, y \in 0..N : x # y /\ w[x] = w[y]
    BY <1>2, <2>2, <2>3, <2>4, FS_PigeonHole
  <2>6. PICK i \in 0..N, j \in 0..N : i < j /\ w[i] = w[j]
    BY <1>1, <2>5
  <2> DEFINE B == {k \in 0..(N - j) : w[i + k] # w[j + k]}
  <2>7. ASSUME B # {} PROVE FALSE
    <3>1. B \in SUBSET Nat
      BY <1>1, <2>6
    <3>2. PICK k \in B : \A a \in B : k <= a
      BY <2>7, <3>1, LeastNumber
    <3>3. k # 0
      BY <1>1, <2>6
    <3>a. k \in Nat /\ k - 1 \in 0..(N - j)
      BY <1>1, <2>6, <3>2, <3>3
    <3>4. k - 1 \in 0..(N - j) /\ k - 1 \notin B
      <4> HIDE DEF B
      <4> QED
        BY <3>2, <3>a
    <3>5. w[i + (k - 1)] = w[j + (k - 1)]
      BY <3>4
    <3>6. /\ i + k \in 1..N /\ j + k \in 1..N
          /\ i + k - 1 = i + (k - 1) /\ j + k - 1 = j + (k - 1)
          /\ i + (k - 1) \in 0..N /\ j + (k - 1) \in 0..N
      BY <1>1, <2>6, <3>2, <3>3
    <3>7. w[i + k] = w[j + k]
      <4>1. /\ w[i + k] = IF w[i + k - 1] = NULL THEN NULL ELSE next[w[i + k - 1]]
            /\ w[j + k] = IF w[j + k - 1] = NULL THEN NULL ELSE next[w[j + k - 1]]
        BY <1>1, <3>6
      <4> QED
        BY <3>5, <3>6, <4>1
    <3> QED
      BY <3>2, <3>7
  <2>8. N - j \in 0..(N - j) /\ j + (N - j) = N /\ i + (N - j) \in 0..N /\ i + (N - j) # N
    BY <1>1, <2>6
  <2>9. w[i + (N - j)] = w[N]
    <3>1. N - j \notin B
      BY <2>7
    <3> QED
      BY <2>8, <3>1
  <2> QED
    BY <2>8, <2>9
<1>8. \A n \in 0..N : w[n] # NULL => next[w[n]] \in Items(h, next) \cup {NULL}
  BY <1>6, <1>7
<1> QED
  BY <1>2, <1>4, <1>5, <1>8

-----------------------------------------------------------------------------
(* What the operations on a list do to it.                                  *)

\* What the proofs need of a list: it starts at its head, next stays in it, and it
\* is no larger than that.
LEMMA ListBasics ==
  ASSUME NEW D, NEW next, NEW h \in D \cup {NULL}, Links(next, D)
  PROVE  /\ Items(h, next) \subseteq D
         /\ h # NULL => h \in Items(h, next)
         /\ \A x \in Items(h, next) : next[x] # NULL => next[x] \in Items(h, next)
         /\ Items(NULL, next) = {}
<1>1. Items(h, next) \subseteq D
  BY ItemsInClosed DEF Links
<1>2. Items(NULL, next) \subseteq {}
  <2> DEFINE S == {}
  <2>1. NULL \in S \cup {NULL} /\ \A x \in S : x \in D => next[x] \in S \cup {NULL}
    OBVIOUS
  <2>2. NULL \in D \cup {NULL}
    OBVIOUS
  <2> HIDE DEF S
  <2>3. Items(NULL, next) \subseteq S
    BY <2>1, <2>2, ItemsInClosed
  <2> QED
    BY <2>3 DEF S
<1> QED
  BY <1>1, <1>2, ItemsClosed

LEMMA ListUnfolds ==
  ASSUME NEW D, NEW next, NEW h \in D, Links(next, D)
  PROVE  /\ Items(h, next) = {h} \cup Items(next[h], next)
         /\ next[h] \in D \cup {NULL}
<1>1. next[h] \in D \cup {NULL} /\ NULL \notin D
  BY DEF Links
<1>2. h \in Items(h, next) /\ next[h] \in Items(h, next) \cup {NULL}
  BY <1>1, ListBasics
<1>3. Items(next[h], next) \subseteq Items(h, next)
  BY <1>1, <1>2, ListBasics, ItemsInClosed
<1>4. Items(h, next) \subseteq {h} \cup Items(next[h], next)
  <2> DEFINE S == {h} \cup Items(next[h], next)
  <2>1. \A x \in S : x \in D => next[x] \in S \cup {NULL}
    BY <1>1, ListBasics
  <2>2. h \in S \cup {NULL}
    OBVIOUS
  <2> HIDE DEF S
  <2>3. Items(h, next) \subseteq S
    BY <2>1, <2>2, ItemsInClosed
  <2> QED
    BY <2>3 DEF S
<1> QED
  BY <1>1, <1>2, <1>3, <1>4

LEMMA ListTail ==
  ASSUME NEW D, NEW next, NEW h \in D \cup {NULL}, Links(next, D), NEW x \in Items(h, next)
  PROVE  Items(x, next) \subseteq Items(h, next)
<1>1. x \in D
  BY ListBasics
<1> QED
  BY <1>1, ListBasics, ItemsInClosed

\* Of two objects of a list one comes after the other.
LEMMA ListOrdered ==
  ASSUME NEW D, NEW next, NEW h \in D \cup {NULL}, Links(next, D),
         NEW x \in Items(h, next), NEW y \in Items(h, next)
  PROVE  x \in Items(y, next) \/ y \in Items(x, next)
<1> DEFINE S == {z \in Items(h, next) : y \in Items(z, next) \/ z \in Items(y, next)}
<1>1. Items(h, next) \subseteq D /\ h # NULL
  BY ListBasics
<1>2. h \in S
  BY <1>1, ListBasics
<1>3. ASSUME NEW z \in S, next[z] # NULL PROVE next[z] \in S
  <2>1. z \in D /\ next[z] \in Items(h, next) /\ next[z] \in D
    BY <1>1, <1>3, ListBasics
  <2>2. Items(z, next) = {z} \cup Items(next[z], next)
    BY <2>1, ListUnfolds
  <2>3. CASE y = z
    <3>1. next[z] \in Items(next[z], next)
      BY <2>1, ListBasics DEF Links
    <3> QED
      BY <2>1, <2>2, <2>3, <3>1
  <2>4. CASE y # z /\ y \in Items(z, next)
    BY <2>1, <2>2, <2>4
  <2>5. CASE z \in Items(y, next)
    <3>1. y \in D
      BY <1>1
    <3>2. next[z] \in Items(y, next)
      BY <1>3, <2>5, <3>1, ListBasics
    <3> QED
      BY <2>1, <3>2
  <2> QED
    BY <2>3, <2>4, <2>5
<1>4. Items(h, next) \subseteq S
  BY <1>2, <1>3, ItemsInClosed
<1> QED
  BY <1>4

\* A list has one last object, and its tail does not hold its head.
LEMMA ListEndsOnce ==
  ASSUME NEW D, NEW next, NEW h \in D \cup {NULL}, Links(next, D),
         NEW x \in Items(h, next), next[x] = NULL
  PROVE  /\ \A y \in Items(h, next) : next[y] = NULL => y = x
         /\ LastOf(h, next) = x
         /\ \A z \in Items(h, next) : x \in Items(z, next)
         /\ h \notin Items(next[h], next)
<1>1. Items(h, next) \subseteq D /\ h \in D
  BY ListBasics DEF Links
<1>2. ASSUME NEW y \in D, next[y] = NULL
      PROVE  Items(y, next) = {y}
  BY <1>2, ListUnfolds, ListBasics
<1>3. ASSUME NEW y \in Items(h, next), next[y] = NULL
      PROVE  y = x
  <2>1. Items(y, next) = {y} /\ Items(x, next) = {x}
    BY <1>1, <1>2, <1>3
  <2> QED
    BY <2>1, ListOrdered
<1>4. LastOf(h, next) = x
  BY <1>3 DEF LastOf
<1>5. ASSUME NEW z \in Items(h, next)
      PROVE  x \in Items(z, next)
  <2>1. Items(x, next) = {x}
    BY <1>1, <1>2
  <2>2. z \in Items(z, next)
    BY <1>1, ListBasics DEF Links
  <2> QED
    BY <2>1, <2>2, ListOrdered
<1>6. ASSUME h \in Items(next[h], next) PROVE FALSE
  <2> DEFINE S == {z \in D : h \in Items(z, next)}
  <2>1. h \in S
    BY <1>1, ListBasics DEF Links
  <2>2. ASSUME NEW z \in S, next[z] # NULL PROVE next[z] \in S
    BY <1>6, <2>2, ListUnfolds
  <2>3. Items(h, next) \subseteq S
    BY <2>1, <2>2, ItemsInClosed
  <2>4. h = x
    BY <1>1, <1>2, <2>3
  <2> QED
    BY <1>1, <1>6, <2>4, ListBasics
<1> QED
  BY <1>3, <1>4, <1>5, <1>6

\* new and next agree on S.
SameOn(next, new, S) == \A x \in S : new[x] = next[x]

\* A list is what its own next fields make it.
LEMMA ListLocal ==
  ASSUME NEW D, NEW next, NEW new, NEW h \in D \cup {NULL}, Links(next, D), Links(new, D),
         SameOn(next, new, Items(h, next))
  PROVE  Items(h, new) = Items(h, next)
<1> USE DEF SameOn
<1>1. Items(h, next) \subseteq D /\ Items(h, new) \subseteq D
  BY ListBasics
<1>2. Items(h, new) \subseteq Items(h, next)
  BY ListBasics, ItemsInClosed
<1> DEFINE S == Items(h, next) \cap Items(h, new)
<1>3. \A x \in S : next[x] \in S \cup {NULL}
  BY ListBasics
<1>4. h \in S \cup {NULL}
  BY ListBasics
<1>5. Items(h, next) \subseteq S
  <2> HIDE DEF S
  <2> QED
    BY <1>3, <1>4, ItemsInClosed
<1> QED
  BY <1>2, <1>5

\* Hanging the list at k behind the last object of the list at h.
HungBehind(D, next, new, h, x, k) ==
  /\ Links(next, D) /\ Links(new, D) /\ h \in D \cup {NULL} /\ k \in D \cup {NULL}
  /\ x \in Items(h, next) /\ next[x] = NULL /\ x \notin Items(k, next)
  /\ new[x] = k /\ SameOn(next, new, (Items(h, next) \cup Items(k, next)) \ {x})

LEMMA ListAppend ==
  ASSUME NEW D, NEW next, NEW new, NEW h, NEW k, NEW x, HungBehind(D, next, new, h, x, k)
  PROVE  /\ Items(h, new) = Items(h, next) \cup Items(k, next)
         /\ Items(k, new) = Items(k, next)
<1> USE DEF SameOn, HungBehind
<1>1. Items(h, next) \subseteq D /\ Items(h, new) \subseteq D /\ Items(k, next) \subseteq D
  BY ListBasics
<1>2. Items(k, new) = Items(k, next)
  BY ListLocal
<1> DEFINE T == Items(h, next) \cup Items(k, next)
           S == Items(h, next) \cap Items(h, new)
<1>3. Items(h, new) \subseteq T
  <2>1. \A y \in T : new[y] \in T \cup {NULL}
    BY ListBasics
  <2>2. h \in T \cup {NULL}
    BY ListBasics
  <2> HIDE DEF T
  <2> QED
    BY <2>1, <2>2, ItemsInClosed
<1>4. Items(h, next) \subseteq S
  <2>1. \A y \in S : next[y] \in S \cup {NULL}
    BY ListBasics
  <2>2. h \in S \cup {NULL}
    BY ListBasics
  <2> HIDE DEF S
  <2> QED
    BY <2>1, <2>2, ItemsInClosed
<1>5. Items(k, new) \subseteq Items(h, new)
  <2>1. k \in Items(h, new) \cup {NULL}
    BY <1>4, ListBasics
  <2> QED
    BY <2>1, ListBasics, ItemsInClosed
<1> QED
  BY <1>2, <1>3, <1>4, <1>5

\* Taking the objects of gone out of the list at h: sv[x] is the first of the
\* list at x that stays.
Unlinked(D, next, new, h, gone, sv) ==
  /\ Links(next, D) /\ Links(new, D) /\ h \in D /\ h \notin gone
  /\ sv[NULL] = NULL
  /\ \A x \in D : sv[x] \in (Items(x, next) \ gone) \cup {NULL}
  /\ \A x \in D : x \notin gone => sv[x] = x
  /\ \A x \in D : x \in gone => sv[x] = sv[next[x]]
  /\ \A x \in Items(h, next) \ gone : new[x] = sv[next[x]]

LEMMA ListUnlink ==
  ASSUME NEW D, NEW next, NEW new, NEW h, NEW gone, NEW sv, Unlinked(D, next, new, h, gone, sv)
  PROVE  /\ Items(h, new) = Items(h, next) \ gone
         /\ (\E x \in Items(h, next) : next[x] = NULL) => \E x \in Items(h, new) : new[x] = NULL
<1>0. /\ Links(next, D) /\ Links(new, D) /\ h \in D /\ h \notin gone
      /\ sv[NULL] = NULL
      /\ \A x \in D : sv[x] \in (Items(x, next) \ gone) \cup {NULL}
      /\ \A x \in D : x \notin gone => sv[x] = x
      /\ \A x \in D : x \in gone => sv[x] = sv[next[x]]
      /\ \A x \in Items(h, next) \ gone : new[x] = sv[next[x]]
  BY DEF Unlinked
<1> USE <1>0
<1>1. Items(h, next) \subseteq D /\ h \in Items(h, next) /\ NULL \notin D
  BY ListBasics DEF Links
<1>2. Items(h, new) \subseteq Items(h, next) \ gone
  <2> DEFINE S == Items(h, next) \ gone
  <2>1. ASSUME NEW x \in S PROVE new[x] \in S \cup {NULL}
    <3>1. next[x] \in Items(h, next) \cup {NULL} /\ new[x] = sv[next[x]]
      BY <1>1, ListBasics
    <3>2. CASE next[x] = NULL
      BY <3>1, <3>2
    <3>3. CASE next[x] # NULL
      <4>1. next[x] \in Items(h, next) /\ next[x] \in D
        BY <1>1, <3>1, <3>3
      <4>2. Items(next[x], next) \subseteq Items(h, next)
        BY <4>1, ListTail
      <4> QED
        BY <3>1, <4>1, <4>2
    <3> QED
      BY <3>2, <3>3
  <2>2. h \in S \cup {NULL}
    BY <1>1
  <2> HIDE DEF S
  <2>3. Items(h, new) \subseteq S
    BY <2>1, <2>2, ItemsInClosed
  <2> QED
    BY <2>3 DEF S
<1>3. Items(h, next) \ gone \subseteq Items(h, new)
  <2> DEFINE S == {y \in Items(h, next) : sv[y] \in Items(h, new) \cup {NULL}}
  <2>1. h \in S
    BY <1>1, ListBasics
  <2>2. ASSUME NEW y \in S, next[y] # NULL PROVE next[y] \in S
    <3>1. next[y] \in Items(h, next) /\ y \in D
      BY <1>1, <2>2, ListBasics
    <3>2. CASE y \in gone
      BY <3>1, <3>2
    <3>3. CASE y \notin gone
      <4>1. y \in Items(h, new)
        BY <1>1, <3>1, <3>3
      <4>2. new[y] \in Items(h, new) \cup {NULL} /\ new[y] = sv[next[y]]
        BY <3>3, <4>1, ListBasics
      <4> QED
        BY <3>1, <4>2
    <3> QED
      BY <3>2, <3>3
  <2>3. Items(h, next) \subseteq S
    <3>1. h \in S \cup {NULL} /\ \A y \in S : y \in D => next[y] \in S \cup {NULL}
      BY <2>1, <2>2
    <3> HIDE DEF S
    <3> QED
      BY <3>1, ItemsInClosed
  <2> QED
    BY <1>1, <2>3
<1>4. ASSUME NEW x \in Items(h, next), next[x] = NULL, \A y \in Items(h, new) : new[y] # NULL
      PROVE  FALSE
  <2> DEFINE S == {y \in Items(h, next) : sv[y] # NULL}
  <2>1. h \in S
    BY <1>1
  <2>2. ASSUME NEW y \in S PROVE next[y] \in S
    <3>1. y \in D
      BY <1>1
    <3>2. sv[next[y]] # NULL
      <4>1. CASE y \in gone
        BY <3>1, <4>1
      <4>2. CASE y \notin gone
        BY <1>3, <1>4, <4>2
      <4> QED
        BY <4>1, <4>2
    <3>3. next[y] # NULL
      BY <3>2
    <3> QED
      BY <3>2, <3>3, ListBasics
  <2>3. Items(h, next) \subseteq S
    <3>1. h \in S \cup {NULL} /\ \A y \in S : y \in D => next[y] \in S \cup {NULL}
      BY <2>1, <2>2
    <3> HIDE DEF S
    <3> QED
      BY <3>1, ItemsInClosed
  <2>4. NULL \in Items(h, next)
    BY <1>4, <2>2, <2>3
  <2> QED
    BY <1>1, <2>4
<1> QED
  BY <1>2, <1>3, <1>4

\* Survivor is such a function, for files taken out of the lists of FilNext.
LEMMA SurvivorKeeps ==
  ASSUME Links(FilNext, File), NEW gone, NEW x \in File \cup {NULL}
  PROVE  /\ Survivor(NULL, gone) = NULL
         /\ Survivor(x, gone) \in (Items(x, FilNext) \ gone) \cup {NULL}
         /\ x \in File /\ x \notin gone => Survivor(x, gone) = x
         /\ x \in File /\ x \in gone => Survivor(x, gone) = Survivor(FilNext[x], gone)
<1> DEFINE tf == [f \in File |-> IF f \in gone THEN FilNext[f] ELSE NULL]
           rest(h) == Items(h, tf) \ gone
<1>1. Links(tf, File) /\ NULL \notin File
  BY DEF Links
<1>2. \A h : Survivor(h, gone) = IF rest(h) = {} THEN NULL ELSE CHOOSE f \in rest(h) : TRUE
  BY DEF Survivor
<1>3. \A f \in File : tf[f] = IF f \in gone THEN FilNext[f] ELSE NULL
  OBVIOUS
<1>4. FilNext \in [File -> File \cup {NULL}]
  BY DEF Links
<1> HIDE DEF tf
<1>5. Items(NULL, tf) = {}
  BY <1>1, ListBasics
<1>6. Items(x, tf) \subseteq Items(x, FilNext)
  <2>1. x \in Items(x, FilNext) \cup {NULL} /\ Items(x, FilNext) \subseteq File
        /\ \A y \in Items(x, FilNext) : y \in File => tf[y] \in Items(x, FilNext) \cup {NULL}
    BY <1>1, <1>3, ListBasics
  <2> QED
    BY <1>1, <2>1, ItemsInClosed
<1>7. ASSUME x \in File
      PROVE  Items(x, tf) = {x} \cup Items(tf[x], tf)
  BY <1>1, <1>7, ListUnfolds
<1>8. Survivor(NULL, gone) = NULL
  BY <1>2, <1>5
<1>9. Survivor(x, gone) \in rest(x) \cup {NULL}
  BY <1>2
<1>10. x \in File /\ x \notin gone => Survivor(x, gone) = x
  <2> SUFFICES ASSUME x \in File, x \notin gone PROVE Survivor(x, gone) = x
    OBVIOUS
  <2>1. rest(x) = {x}
    BY <1>3, <1>5, <1>7
  <2> QED
    BY <1>2, <2>1
<1>11. x \in File /\ x \in gone => Survivor(x, gone) = Survivor(FilNext[x], gone)
  <2> SUFFICES ASSUME x \in File, x \in gone PROVE Survivor(x, gone) = Survivor(FilNext[x], gone)
    OBVIOUS
  <2>1. rest(x) = rest(FilNext[x])
    BY <1>3, <1>7
  <2> QED
    BY <1>2, <2>1
<1> QED
  BY <1>6, <1>8, <1>9, <1>10, <1>11

-----------------------------------------------------------------------------
(* Two ways through a set: nextcab and prevcab.                             *)

\* The two ways through a cabinet set.
BothWays(nx, pv, D) ==
  /\ Links(nx, D) /\ Links(pv, D)
  /\ \A c, d \in D : nx[c] = d <=> pv[d] = c

LEMMA WayBack ==
  ASSUME NEW D, NEW nx, NEW pv, BothWays(nx, pv, D), NEW c \in D, NEW d \in Items(c, nx)
  PROVE  d \in D /\ c \in Items(d, pv)
<1> DEFINE S == {x \in D : c \in Items(x, pv)}
<1>0. Links(nx, D) /\ Links(pv, D) /\ NULL \notin D
  BY DEF BothWays, Links
<1>1. c \in S
  BY <1>0, ListBasics
<1>2. ASSUME NEW x \in S PROVE nx[x] \in S \cup {NULL}
  <2>1. CASE nx[x] = NULL
    BY <2>1
  <2>2. CASE nx[x] # NULL
    <3>1. nx[x] \in D
      BY <2>2 DEF BothWays, Links
    <3>2. pv[nx[x]] = x
      BY <3>1 DEF BothWays
    <3>3. Items(nx[x], pv) = {nx[x]} \cup Items(x, pv)
      BY <1>0, <3>1, <3>2, ListUnfolds
    <3> QED
      BY <3>1, <3>3
  <2> QED
    BY <2>1, <2>2
<1>3. c \in D \cup {NULL} /\ c \in S \cup {NULL}
  BY <1>1
<1> HIDE DEF S
<1>4. Items(c, nx) \subseteq S
  BY <1>0, <1>2, <1>3, ItemsInClosed
<1> QED
  BY <1>4 DEF S

LEMMA BothWaysMirror ==
  ASSUME NEW D, NEW nx, NEW pv, BothWays(nx, pv, D)
  PROVE  BothWays(pv, nx, D)
BY DEF BothWays

\* From a later part the later parts are later parts too, and the earlier ones are
\* reached either way.
LEMMA OneSetOneWay ==
  ASSUME NEW D, NEW nx, NEW pv, BothWays(nx, pv, D), NEW c \in D, NEW d \in Items(c, nx)
  PROVE  Items(d, pv) \cup Items(d, nx) = Items(c, pv) \cup Items(c, nx)
<1>0. Links(nx, D) /\ Links(pv, D) /\ NULL \notin D
  BY DEF BothWays, Links
<1>1. d \in D /\ c \in Items(d, pv)
  BY WayBack
<1>2. Items(d, nx) \subseteq Items(c, nx)
  BY <1>0, ListTail
<1>3. Items(c, pv) \subseteq Items(d, pv)
  BY <1>0, <1>1, ListTail
<1> DEFINE S == Items(d, pv) \cup Items(d, nx)
           T == Items(c, pv) \cup Items(c, nx)
<1>4. ASSUME NEW x \in S PROVE nx[x] \in S \cup {NULL}
  <2>1. CASE x \in Items(d, nx)
    BY <1>0, <1>1, <2>1, ListBasics
  <2>2. CASE x \in Items(d, pv)
    <3>1. x \in D
      BY <1>0, <1>1, <2>2, ListBasics
    <3>2. CASE nx[x] = NULL
      BY <3>2
    <3>3. CASE nx[x] # NULL
      <4>1. d \in Items(x, nx)
        BY <1>1, <2>2, BothWaysMirror, WayBack
      <4>2. Items(x, nx) = {x} \cup Items(nx[x], nx) /\ nx[x] \in D
        BY <1>0, <3>1, <3>3, ListUnfolds
      <4>3. CASE d = x
        BY <1>0, <1>1, <3>3, <4>3, ListBasics
      <4>4. CASE d # x
        <5>1. d \in Items(nx[x], nx)
          BY <4>1, <4>2, <4>4
        <5> QED
          BY <4>2, <5>1, WayBack
      <4> QED
        BY <4>3, <4>4
    <3> QED
      BY <3>2, <3>3
  <2> QED
    BY <2>1, <2>2
<1>5. ASSUME NEW x \in T PROVE pv[x] \in T \cup {NULL}
  <2>1. CASE x \in Items(c, pv)
    BY <1>0, <2>1, ListBasics
  <2>2. CASE x \in Items(c, nx)
    <3>1. x \in D /\ c \in Items(x, pv)
      BY <2>2, WayBack
    <3>2. CASE pv[x] = NULL
      BY <3>2
    <3>3. CASE pv[x] # NULL
      <4>2. Items(x, pv) = {x} \cup Items(pv[x], pv) /\ pv[x] \in D
        BY <1>0, <3>1, <3>3, ListUnfolds
      <4>3. CASE c = x
        BY <1>0, <3>3, <4>3, ListBasics
      <4>4. CASE c # x
        <5>1. c \in Items(pv[x], pv)
          BY <3>1, <4>2, <4>4
        <5> QED
          BY <4>2, <5>1, BothWaysMirror, WayBack
      <4> QED
        BY <4>3, <4>4
    <3> QED
      BY <3>2, <3>3
  <2> QED
    BY <2>1, <2>2
<1>6. Items(c, nx) \subseteq S
  <2>1. c \in S \cup {NULL} /\ \A x \in S : x \in D => nx[x] \in S \cup {NULL}
    BY <1>1, <1>4
  <2> HIDE DEF S
  <2> QED
    BY <1>0, <2>1, ItemsInClosed
<1>7. Items(d, pv) \subseteq T
  <2>1. d \in T \cup {NULL} /\ \A x \in T : x \in D => pv[x] \in T \cup {NULL}
    BY <1>5
  <2> HIDE DEF T
  <2> QED
    BY <1>0, <1>1, <2>1, ItemsInClosed
<1> QED
  BY <1>2, <1>3, <1>6, <1>7

LEMMA OneSet ==
  ASSUME NEW D, NEW nx, NEW pv, BothWays(nx, pv, D), NEW c \in D,
         NEW d \in Items(c, pv) \cup Items(c, nx)
  PROVE  /\ d \in D
         /\ Items(d, pv) \cup Items(d, nx) = Items(c, pv) \cup Items(c, nx)
         /\ c \in Items(d, pv) \cup Items(d, nx)
<1>1. CASE d \in Items(c, nx)
  BY <1>1, WayBack, OneSetOneWay
<1>2. CASE d \in Items(c, pv)
  <2>1. BothWays(pv, nx, D)
    BY BothWaysMirror
  <2>2. d \in D /\ c \in Items(d, nx)
    BY <1>2, <2>1, WayBack
  <2>3. Items(d, nx) \cup Items(d, pv) = Items(c, nx) \cup Items(c, pv)
    BY <1>2, <2>1, OneSetOneWay
  <2> QED
    BY <2>2, <2>3
<1> QED
  BY <1>1, <1>2

\* Joining two sets end to end.
EndToEnd(D, nx, pv, nx2, pv2, l, r) ==
  /\ BothWays(nx, pv, D)
  /\ l \in D /\ r \in D /\ nx[l] = NULL /\ pv[r] = NULL
  /\ r \notin Items(l, pv) /\ l \notin Items(r, nx)
  /\ nx2 = [nx EXCEPT ![l] = r] /\ pv2 = [pv EXCEPT ![r] = l]

Joining(D, nx, pv, nx2, pv2, left, right) ==
  /\ BothWays(nx2, pv2, D)
  /\ \A c \in left : /\ Items(c, nx2) = Items(c, nx) \cup right
                     /\ Items(c, pv2) = Items(c, pv)
                     /\ Items(c, pv2) \cup Items(c, nx2) = left \cup right
  /\ \A c \in right : /\ Items(c, nx2) = Items(c, nx)
                      /\ Items(c, pv2) = Items(c, pv) \cup left
                      /\ Items(c, pv2) \cup Items(c, nx2) = left \cup right
  /\ \A c \in D \ (left \cup right) :
       Items(c, nx2) = Items(c, nx) /\ Items(c, pv2) = Items(c, pv)

LEMMA JoinedSet ==
  ASSUME NEW D, NEW nx, NEW pv, NEW nx2, NEW pv2, NEW l, NEW r, EndToEnd(D, nx, pv, nx2, pv2, l, r)
  PROVE  /\ Joining(D, nx, pv, nx2, pv2, Items(l, pv), Items(r, nx))
         /\ Items(l, pv) = Items(l, pv) \cup Items(l, nx)
         /\ Items(r, nx) = Items(r, pv) \cup Items(r, nx)
         /\ Items(l, pv) \cap Items(r, nx) = {}
<1> USE DEF EndToEnd
<1> DEFINE left == Items(l, pv)
           right == Items(r, nx)
<1>0. Links(nx, D) /\ Links(pv, D) /\ NULL \notin D
  BY DEF BothWays, Links
<1>1. nx2 \in [D -> D \cup {NULL}] /\ pv2 \in [D -> D \cup {NULL}] /\ IsFiniteSet(D)
  BY DEF BothWays, Links
<1>2. /\ nx2[l] = r /\ \A x \in D : x # l => nx2[x] = nx[x]
      /\ pv2[r] = l /\ \A x \in D : x # r => pv2[x] = pv[x]
  BY DEF BothWays, Links
<1>3. BothWays(nx2, pv2, D)
  <2>1. \A c, d \in D : nx2[c] = d <=> pv2[d] = c
    <3> TAKE c \in D, d \in D
    <3>1. CASE c = l /\ d = r
      BY <1>2, <3>1
    <3>2. CASE c = l /\ d # r
      BY <1>0, <1>2, <3>2 DEF BothWays
    <3>3. CASE c # l /\ d = r
      BY <1>0, <1>2, <3>3 DEF BothWays
    <3>4. CASE c # l /\ d # r
      BY <1>2, <3>4 DEF BothWays
    <3> QED
      BY <3>1, <3>2, <3>3, <3>4
  <2> QED
    BY <1>0, <1>1, <2>1 DEF BothWays, Links
<1>4. Links(nx2, D) /\ Links(pv2, D)
  BY <1>3 DEF BothWays
<1>5. l \in left /\ r \in right /\ left \subseteq D /\ right \subseteq D
  BY <1>0, ListBasics
<1>6. Items(l, nx) = {l} /\ Items(r, pv) = {r}
  BY <1>0, ListUnfolds, ListBasics
<1>7. \A c \in D : l \in Items(c, nx) <=> c \in left
  BY BothWaysMirror, WayBack
<1>8. \A c \in D : r \in Items(c, pv) <=> c \in right
  BY BothWaysMirror, WayBack
<1>9. left \cap right = {}
  <2> SUFFICES ASSUME NEW x \in left, x \in right PROVE FALSE
    OBVIOUS
  <2>1. r \in Items(x, pv)
    BY <1>5, <1>8
  <2>2. Items(x, pv) \subseteq left
    BY <1>0, ListTail
  <2> QED
    BY <2>1, <2>2
<1>10. \A c \in D : c \notin right => Items(c, pv2) = Items(c, pv)
  <2> TAKE c \in D
  <2> HAVE c \notin right
  <2>1. \A x \in Items(c, pv) : x \in D /\ x # r
    BY <1>0, <1>8, ListBasics
  <2>2. c \in D \cup {NULL} /\ SameOn(pv, pv2, Items(c, pv))
    BY <1>2, <2>1 DEF SameOn
  <2> QED
    BY <1>0, <1>4, <2>2, ListLocal
<1>11. \A c \in D : c \notin left => Items(c, nx2) = Items(c, nx)
  <2> TAKE c \in D
  <2> HAVE c \notin left
  <2>1. \A x \in Items(c, nx) : x \in D /\ x # l
    BY <1>0, <1>7, ListBasics
  <2>2. c \in D \cup {NULL} /\ SameOn(nx, nx2, Items(c, nx))
    BY <1>2, <2>1 DEF SameOn
  <2> QED
    BY <1>0, <1>4, <2>2, ListLocal
<1>12. ASSUME NEW c \in left
       PROVE  /\ Items(c, nx2) = Items(c, nx) \cup right
              /\ Items(c, pv) \cup Items(c, nx) = left
  <2>1. c \in D /\ l \in Items(c, nx)
    BY <1>5, <1>7
  <2>2. HungBehind(D, nx, nx2, c, l, r)
    BY <1>0, <1>2, <1>4, <2>1, ListBasics DEF SameOn, HungBehind
  <2>3. Items(c, nx2) = Items(c, nx) \cup right
    <3> HIDE DEF left
    <3> QED
      BY <2>2, ListAppend
  <2>4. Items(c, pv) \cup Items(c, nx) = Items(l, pv) \cup Items(l, nx)
    BY OneSet
  <2> QED
    BY <1>5, <1>6, <2>3, <2>4
<1>13. ASSUME NEW c \in right
       PROVE  /\ Items(c, pv2) = Items(c, pv) \cup left
              /\ Items(c, pv) \cup Items(c, nx) = right
  <2>1. c \in D /\ r \in Items(c, pv)
    BY <1>5, <1>8
  <2>2. HungBehind(D, pv, pv2, c, r, l)
    BY <1>0, <1>2, <1>4, <2>1, ListBasics DEF SameOn, HungBehind
  <2>3. Items(c, pv2) = Items(c, pv) \cup left
    <3> HIDE DEF right
    <3> QED
      BY <2>2, ListAppend
  <2>4. Items(c, pv) \cup Items(c, nx) = Items(r, pv) \cup Items(r, nx)
    BY OneSet
  <2> QED
    BY <1>5, <1>6, <2>3, <2>4
<1>14. \A c \in left : Items(c, pv2) = Items(c, pv)
  BY <1>5, <1>9, <1>10
<1>15. \A c \in right : Items(c, nx2) = Items(c, nx)
  BY <1>5, <1>9, <1>11
<1>16. left = Items(l, pv) \cup Items(l, nx) /\ right = Items(r, pv) \cup Items(r, nx)
  BY <1>5, <1>6
<1> HIDE DEF left, right
<1>17. \A c \in left : Items(c, pv2) \cup Items(c, nx2) = left \cup right
  BY <1>12, <1>14
<1>18. \A c \in right : Items(c, pv2) \cup Items(c, nx2) = left \cup right
  BY <1>13, <1>15
<1>19. \A c \in D \ (left \cup right) : Items(c, nx2) = Items(c, nx) /\ Items(c, pv2) = Items(c, pv)
  BY <1>10, <1>11
<1> QED
  BY <1>3, <1>9, <1>12, <1>13, <1>14, <1>15, <1>16, <1>17, <1>18, <1>19 DEF left, right, Joining

-----------------------------------------------------------------------------
(* The lists cabd_read_headers links.                                       *)

LEMMA LeastIsLeast ==
  ASSUME NEW S \in SUBSET Nat, S # {}
  PROVE  Least(S) \in S /\ \A j \in S : Least(S) <= j
<1>1. \E k \in S : \A j \in S : k <= j
  BY LeastNumber
<1> QED
  BY <1>1 DEF Least

LEMMA GreatestNumber ==
  ASSUME NEW M \in Nat, NEW S \in SUBSET (0..M), S # {}
  PROVE  \E k \in S : \A j \in S : j <= k
<1> DEFINE T == {M - j : j \in S}
<1>1. T \in SUBSET Nat /\ T # {}
  <2>1. \A j \in S : M - j \in Nat
    OBVIOUS
  <2> QED
    BY <2>1
<1>2. PICK t \in T : \A u \in T : t <= u
  BY <1>1, LeastNumber
<1>3. PICK k \in S : t = M - k
  BY <1>2
<1>4. \A j \in S : t <= M - j
  BY <1>2
<1> QED
  BY <1>3, <1>4

\* A list that cabd_read_headers has linked: the entries K, in order.
ReadInOrder(next, c, K) ==
  \A k \in K : next[<<c, k>>] = LET later == {j \in K : j > k}
                                IN  IF later = {} THEN NULL ELSE <<c, Least(later)>>

Entries(c, K) == {<<c, k>> : k \in K}

LEMMA ReadList ==
  ASSUME NEW M \in Nat, NEW c \in Cab, NEW K \in SUBSET (1..M), K # {},
         NEW next, Links(next, Cab \X (1..M)), ReadInOrder(next, c, K)
  PROVE  /\ Items(<<c, Least(K)>>, next) = Entries(c, K)
         /\ \E x \in Entries(c, K) : next[x] = NULL
<1> USE DEF Entries
<1> DEFINE D == Cab \X (1..M)
           h == <<c, Least(K)>>
           S == {<<c, k>> : k \in K}
           later(k) == {j \in K : j > k}
<1>1. K \in SUBSET Nat /\ K \in SUBSET (0..M)
  OBVIOUS
<1>2. Least(K) \in K /\ \A j \in K : Least(K) <= j
  BY <1>1, LeastIsLeast
<1>3. h \in D /\ h \in S /\ S \subseteq D
  <2>1. \A k \in K : <<c, k>> \in D
    OBVIOUS
  <2> QED
    BY <1>2, <2>1
<1>4. \A k \in K : next[<<c, k>>] = IF later(k) = {} THEN NULL ELSE <<c, Least(later(k))>>
  BY DEF ReadInOrder
<1>5. ASSUME NEW k \in K, later(k) # {}
      PROVE  Least(later(k)) \in later(k) /\ \A j \in later(k) : Least(later(k)) <= j
  <2>1. later(k) \in SUBSET Nat
    BY <1>1
  <2> QED
    BY <1>5, <2>1, LeastIsLeast
<1>6. Items(h, next) \subseteq S
  <2>1. ASSUME NEW k \in K PROVE next[<<c, k>>] \in S \cup {NULL}
    BY <1>4, <1>5
  <2>2. h \in S \cup {NULL} /\ h \in D \cup {NULL} /\ \A x \in S : x \in D => next[x] \in S \cup {NULL}
    BY <1>3, <2>1
  <2> HIDE DEF S, h
  <2> QED
    BY <2>2, ItemsInClosed
<1> DEFINE B == {k \in K : <<c, k>> \notin Items(h, next)}
<1>7. ASSUME B # {} PROVE FALSE
  <2>1. PICK k \in B : \A j \in B : k <= j
    BY <1>1, <1>7, LeastNumber
  <2> DEFINE P == {j \in K : j < k}
  <2>2. h \in Items(h, next)
    BY <1>3, ListBasics DEF Links
  <2>3. Least(K) \in P
    <3>1. Least(K) # k
      BY <2>1, <2>2
    <3>2. Least(K) \in Nat /\ k \in Nat /\ Least(K) <= k
      BY <1>1, <1>2, <2>1
    <3> QED
      BY <1>2, <3>1, <3>2
  <2>4. P \in SUBSET (0..M) /\ P # {}
    BY <1>1, <2>3
  <2>5. PICK m \in P : \A j \in P : j <= m
    BY <2>4, GreatestNumber
  <2>6. m \in K /\ m < k /\ m \notin B /\ k \in K
    BY <1>1, <2>1, <2>5
  <2>7. later(m) # {} /\ k \in later(m)
    BY <1>1, <2>6
  <2>8. Least(later(m)) = k
    <3>1. Least(later(m)) \in later(m) /\ Least(later(m)) <= k
      BY <1>5, <2>6, <2>7
    <3>2. Least(later(m)) \in K /\ Least(later(m)) > m
      BY <3>1
    <3>3. Least(later(m)) \in Nat /\ m \in Nat /\ k \in Nat
      BY <1>1, <2>6, <3>2
    <3>4. Least(later(m)) < k => Least(later(m)) \in P
      BY <3>2
    <3>5. Least(later(m)) \in P => Least(later(m)) <= m
      BY <2>5
    <3> HIDE DEF later, P
    <3> QED
      BY <3>1, <3>2, <3>3, <3>4, <3>5
  <2>9. next[<<c, m>>] = <<c, k>>
    BY <1>4, <2>6, <2>7, <2>8
  <2>10. <<c, m>> \in Items(h, next)
    BY <2>6
  <2>11. <<c, k>> # NULL
    <3>1. <<c, k>> \in D
      BY <2>6
    <3> QED
      BY <3>1 DEF Links
  <2>12. <<c, k>> \in Items(h, next)
    <3> HIDE DEF h
    <3> QED
      BY <1>3, <2>9, <2>10, <2>11, ListBasics
  <2> QED
    BY <2>1, <2>12
<1>8. PICK g \in K : \A j \in K : j <= g
  BY <1>1, GreatestNumber
<1>9. later(g) = {}
  <2>1. \A j \in K : j \in Nat /\ g \in Nat /\ ~(j > g)
    BY <1>1, <1>8
  <2> QED
    BY <2>1
<1>10. next[<<c, g>>] = NULL
  BY <1>4, <1>9
<1> QED
  BY <1>3, <1>6, <1>7, <1>10

LEMMA ReadFolders ==
  ASSUME NEW next, Links(next, Folder), MaxFolders \in Nat, NEW c \in Cab, NEW Q \in SUBSET (1..MaxFolders), Q # {},
     ReadInOrder(next, c, Q)
  PROVE  /\ Items(<<c, Least(Q)>>, next) = Entries(c, Q)
         /\ \E x \in Entries(c, Q) : next[x] = NULL
<1>1. Folder = Cab \X (1..MaxFolders)
  BY DEF Folder
<1>2. Links(next, Cab \X (1..MaxFolders))
  BY <1>1
<1> QED
  BY <1>2, ReadList
LEMMA ReadFiles ==
  ASSUME NEW next, Links(next, File), MaxFiles \in Nat, NEW c \in Cab, NEW Q \in SUBSET (1..MaxFiles), Q # {},
     ReadInOrder(next, c, Q)
  PROVE  /\ Items(<<c, Least(Q)>>, next) = Entries(c, Q)
         /\ \E x \in Entries(c, Q) : next[x] = NULL
<1>1. File = Cab \X (1..MaxFiles)
  BY DEF File
<1>2. Links(next, Cab \X (1..MaxFiles))
  BY <1>1
<1> QED
  BY <1>2, ReadList

\* The next fields of a list in the making, which cabd_close walks when the rest
\* of it does not read: the walk meets what has been linked.
LEMMA LinkedReached ==
  ASSUME NEW M \in Nat, NEW c \in Cab, NEW K \in SUBSET (1..M),
         NEW next, Links(next, Cab \X (1..M))
  PROVE  Items(FirstLink(c, K), Linked(next, c, K)) = Entries(c, K)
<1> DEFINE D == Cab \X (1..M)
           new == Linked(next, c, K)
           later(k) == {m \in K : m > k}
<1>0. next \in [D -> D \cup {NULL}] /\ NULL \notin D /\ IsFiniteSet(D)
  BY DEF Links
<1>1. \A Q \in SUBSET K : Q # {} => Least(Q) \in Q
  BY LeastIsLeast
<1>2. \A Q \in SUBSET K : FirstLink(c, Q) \in D \cup {NULL}
  BY <1>1 DEF FirstLink
<1>3. \A k : later(k) \in SUBSET K
  OBVIOUS
<1>4. new = [x \in D |-> IF x[1] = c /\ x[2] \in K THEN FirstLink(c, later(x[2])) ELSE next[x]]
  BY <1>0 DEF Linked
<1>5. Links(new, D)
  <2>1. \A x \in D : new[x] \in D \cup {NULL}
    <3> HIDE DEF later, D, new
    <3> QED
      BY <1>0, <1>2, <1>3, <1>4
  <2> HIDE DEF D
  <2> QED
    BY <1>0, <1>4, <2>1 DEF Links
<1> SUFFICES Items(FirstLink(c, K), new) = Entries(c, K)
  OBVIOUS
<1> HIDE DEF new
<1>6. CASE K = {}
  <2>1. Items(NULL, new) = {}
    <3> HIDE DEF D
    <3> QED
      BY <1>5, ListBasics
  <2> QED
    BY <1>6, <2>1 DEF FirstLink, Entries
<1>7. CASE K # {}
  <2>1. ASSUME NEW k \in K PROVE new[<<c, k>>] = FirstLink(c, later(k))
    <3>1. <<c, k>> \in D
      OBVIOUS
    <3> HIDE DEF D, later
    <3> QED
      BY <1>4, <3>1
  <2>2. ReadInOrder(new, c, K)
    BY <2>1 DEF ReadInOrder, FirstLink
  <2>3. FirstLink(c, K) = <<c, Least(K)>>
    BY <1>7 DEF FirstLink
  <2> QED
    BY <1>5, <1>7, <2>2, <2>3, ReadList
<1> QED
  BY <1>6, <1>7

-----------------------------------------------------------------------------
(* The lists read from one image.                                           *)

\* The first entry of a non-empty set of entries exists (linkfile in
\* cabd_read_headers).
LEMMA LeastIsIn ==
  ASSUME NEW S \in SUBSET Nat, S # {}
  PROVE  Least(S) \in S
<1> DEFINE R == OpToRel(<, Nat)
<1>1. PICK k \in S : \A j \in S : ~(<<j, k>> \in R)
  BY NatLessThanWellFounded, WFMin
<1>2. R = {p \in Nat \X Nat : p[1] < p[2]}
  BY DEF OpToRel
<1>3. \A j \in S : <<j, k>> \in Nat \X Nat /\ k \in Nat /\ j \in Nat
  OBVIOUS
<1>4. \A j \in S : k <= j
  <2> HIDE DEF R
  <2> TAKE j \in S
  <2>1. ~(j < k)
    BY <1>1, <1>2, <1>3
  <2> QED
    BY <2>1, <1>3
<1> QED
  BY <1>4 DEF Least

LEMMA EntryType ==
  ASSUME NEW i \in Image, NEW k \in Kept(i)
  PROVE  /\ ImageFiles[i][k].fidx \in Nat /\ ImageFiles[i][k].fidx <= PREV_AND_NEXT
         /\ ImageFiles[i][k].key \in Key
         /\ GoodEntry(i, k)
<1>1. k \in 1..Len(ImageFiles[i]) /\ GoodEntry(i, k)
  BY ImageType DEF Kept
<1>2. ImageFiles[i][k] \in FileEntry
  BY <1>1, ImageType
<1>3. ImageFiles[i][k].fidx <= PREV_AND_NEXT
  BY <1>1, CabSetsAssumption DEF CabSetsAssumption
<1> QED
  BY <1>1, <1>2, <1>3 DEF FileEntry

\* Every kept entry lies in a folder of its own cabinet.
LEMMA EntryFolderType ==
  ASSUME NEW i \in Image, NEW k \in Kept(i)
  PROVE  EntryFolder(i, k) \in 1..MaxFolders
<1> DEFINE x == ImageFiles[i][k].fidx
           n == Len(ImageFolders[i])
<1>1. x \in Nat /\ x <= PREV_AND_NEXT /\ (x >= FROM_PREV \/ x < n)
  BY EntryType DEF GoodEntry
<1>2. n \in 1..MaxFolders /\ MaxFolders \in Nat
  BY ImageType
<1>3. EntryFolder(i, k) = IF x \in {FROM_PREV, PREV_AND_NEXT} THEN 1
                          ELSE IF x = TO_NEXT THEN n ELSE x + 1
  BY DEF EntryFolder
<1> HIDE DEF x, n
<1> QED
  BY <1>1, <1>2, <1>3

LEMMA KeptType ==
  ASSUME NEW i \in Image
  PROVE  Kept(i) \in SUBSET (1..MaxFiles) /\ Kept(i) \in SUBSET Nat
BY ImageType DEF Kept

LEMMA FirstWithType ==
  ASSUME NEW c \in Cab, NEW i \in Image, NEW xs
  PROVE  FirstWith(c, i, xs) \in File \cup {NULL}
<1> DEFINE ks == {k \in DOMAIN ImageFiles[i] : ImageFiles[i][k].fidx \in xs}
<1>1. ks \in SUBSET (1..MaxFiles) /\ ks \in SUBSET Nat
  BY ImageType
<1>2. ks # {} => Least(ks) \in 1..MaxFiles
  BY <1>1, LeastIsIn
<1> QED
  BY <1>2 DEF FirstWith, File

LEMMA NewFolderType ==
  ASSUME NEW c \in Cab, NEW i \in Image, NEW n \in 1..Len(ImageFolders[i])
  PROVE  /\ NewFolder(c, i, n) \in FolderObj
         /\ NewFolder(c, i, n).blocks <= FolderMax
<1>1. ImageFolders[i][n] \in FolderEntry /\ ImageFolders[i][n].blocks <= FolderMax
  BY FolderEntryType
<1>2. n < Len(ImageFolders[i]) => <<c, n + 1>> \in Folder
  BY ImageType DEF Folder
<1>3. /\ FirstWith(c, i, {FROM_PREV, PREV_AND_NEXT}) \in File \cup {NULL}
      /\ FirstWith(c, i, {TO_NEXT, PREV_AND_NEXT}) \in File \cup {NULL}
  BY FirstWithType
<1>4. <<c>> \in Seq(Cab)
  OBVIOUS
<1> QED
  BY <1>1, <1>2, <1>3, <1>4 DEF NewFolder, FolderObj, FolderEntry

LEMMA NewFileType ==
  ASSUME NEW c \in Cab, NEW i \in Image, NEW k \in Kept(i)
  PROVE  NewFile(c, i, k) \in FileObj
<1> DEFINE later == {j \in Kept(i) : j > k}
<1>1. later \in SUBSET (1..MaxFiles) /\ later \in SUBSET Nat
  BY KeptType
<1>2. later # {} => <<c, Least(later)>> \in File
  BY <1>1, LeastIsIn DEF File
<1>3. <<c, EntryFolder(i, k)>> \in Folder
  BY EntryFolderType DEF Folder
<1>4. ImageFiles[i][k].key \in Key
  BY EntryType
<1> QED
  BY <1>2, <1>3, <1>4 DEF NewFile, FileObj

-----------------------------------------------------------------------------
(* Type correctness.                                                        *)

LEMMA EmptyTypes ==
  /\ NoCab \in Cabinet /\ NoFolder \in FolderObj /\ NoFile \in FileObj
  /\ NoDecoder \in Decoder
<1>1. <<>> \in Seq(Cab)
  OBVIOUS
<1>2. NoFolder \in FolderObj
  BY <1>1 DEF NoFolder, FolderObj
<1>3. NoFile \in FileObj
  BY DEF NoFile, FileObj
<1>4. NoCab \in Cabinet
  BY DEF NoCab, Cabinet
<1>5. NoDecoder \in Decoder
  BY DEF NoDecoder, Decoder
<1> QED
  BY <1>2, <1>3, <1>4, <1>5

\* What the later steps need besides the types: an open cabinet has lists.
HeadsSet == \A c \in Cab : Open(c) => cab[c].folders # NULL /\ cab[c].files # NULL

TypeInv == TypeOK /\ HeadsSet

LEMMA FiniteHeap == IsFiniteSet(Cab) /\ IsFiniteSet(Folder) /\ IsFiniteSet(File)
                    /\ NULL \notin Cab /\ NULL \notin Folder /\ NULL \notin File /\ NULL \notin Image
<1>1. MaxFolders \in Nat /\ MaxFiles \in Nat /\ IsFiniteSet(Cab)
  BY CabSetsAssumption DEF CabSetsAssumption
<1>2. IsFiniteSet(1..MaxFolders) /\ IsFiniteSet(1..MaxFiles)
  BY <1>1, FS_Interval
<1>3. IsFiniteSet(Cab \X (1..MaxFolders)) /\ IsFiniteSet(Cab \X (1..MaxFiles))
  BY <1>1, <1>2, FS_Product
<1> QED
  BY <1>1, <1>3, CabSetsAssumption DEF CabSetsAssumption, Folder, File

LEMMA HeapLinks ==
  TypeInv => /\ Links(FolNext, Folder) /\ Links(FilNext, File)
             /\ Links(NextOf, Cab) /\ Links(PrevOf, Cab) /\ Links(Chain, Cab)
BY FiniteHeap DEF TypeInv, TypeOK, Links, FolNext, FilNext, NextOf, PrevOf, Chain,
   Cabinet, FolderObj, FileObj

LEMMA LoadType ==
  ASSUME TypeInv, NEW S \in SUBSET Cab, NEW img \in [S -> Image],
         NEW succ \in [S -> Cab \cup {NULL}], \A c \in S : Readable(img[c]),
         Load(img, succ)
  PROVE  TypeInv'
<1> USE DEF TypeInv, TypeOK
<1>1. ASSUME NEW c \in Cab, c \in S
      PROVE  <<c, Least(Kept(img[c]))>> \in File /\ <<c, 1>> \in Folder
  <2>1. Kept(img[c]) # {} /\ Kept(img[c]) \in SUBSET (1..MaxFiles)
          /\ Kept(img[c]) \in SUBSET Nat
    BY <1>1, KeptType DEF Readable
  <2>2. Least(Kept(img[c])) \in 1..MaxFiles
    BY <2>1, LeastIsIn
  <2>3. Len(ImageFolders[img[c]]) \in 1..MaxFolders /\ MaxFolders \in Nat
    BY <1>1, ImageType
  <2> QED
    BY <1>1, <2>2, <2>3 DEF File, Folder
<1>2. cab' \in [Cab -> Cabinet]
  BY <1>1 DEF Load, NoCab, Cabinet
<1>3. HeadsSet'
  <2>1. \A c \in Cab : c \notin S => cab'[c] = cab[c]
    BY DEF Load
  <2>2. \A c \in S : cab'[c].folders = <<c, 1>> /\ cab'[c].files = <<c, Least(Kept(img[c]))>>
    BY DEF Load, NoCab
  <2>3. NULL \notin File \cup Folder
    BY CabSetsAssumption DEF CabSetsAssumption
  <2> QED
    BY <1>1, <2>1, <2>2, <2>3 DEF HeadsSet, Open
<1>4. folder' \in [Folder -> FolderObj]
  <2>1. ASSUME NEW f \in Folder, f[1] \in S, f[2] <= Len(ImageFolders[img[f[1]]])
        PROVE  NewFolder(f[1], img[f[1]], f[2]) \in FolderObj
    <3>1. f[1] \in Cab /\ f[2] \in 1..Len(ImageFolders[img[f[1]]]) /\ img[f[1]] \in Image
      BY <2>1, ImageType DEF Folder
    <3> QED
      BY <3>1, NewFolderType
  <2> QED
    BY <2>1 DEF Load
<1>5. file' \in [File -> FileObj]
  <2>1. ASSUME NEW f \in File, f[1] \in S, f[2] \in Kept(img[f[1]])
        PROVE  NewFile(f[1], img[f[1]], f[2]) \in FileObj
    <3>1. f[1] \in Cab /\ img[f[1]] \in Image
      BY <2>1 DEF File
    <3> QED
      BY <2>1, <3>1, NewFileType
  <2> QED
    BY <2>1 DEF Load
<1> QED
  BY <1>2, <1>3, <1>4, <1>5 DEF Load, Errors

LEMMA OpenCabType ==
  ASSUME TypeInv, NEW c \in Cab, NEW i \in Image, OpenCab(c, i)
  PROVE  TypeInv'
<1>1. [x \in {c} |-> i] \in [{c} -> Image] /\ [x \in {c} |-> NULL] \in [{c} -> Cab \cup {NULL}]
  OBVIOUS
<1>2. \A x \in {c} : Readable([y \in {c} |-> i][x])
  BY DEF OpenCab
<1> QED
  BY <1>1, <1>2, LoadType DEF OpenCab

LEMMA SearchType ==
  ASSUME TypeInv, NEW c \in Cab, NEW d \in Cab, NEW i \in Image, NEW j \in Image,
         Search(c, d, i, j)
  PROVE  TypeInv'
<1> DEFINE img == [x \in {c, d} |-> IF x = c THEN i ELSE j]
           succ == [x \in {c, d} |-> IF x = c THEN d ELSE NULL]
<1>1. img \in [{c, d} -> Image] /\ succ \in [{c, d} -> Cab \cup {NULL}]
  OBVIOUS
<1>2. \A x \in {c, d} : Readable(img[x])
  BY DEF Search
<1>3. Load(img, succ)
  BY DEF Search
<1> HIDE DEF img, succ
<1> QED
  BY <1>1, <1>2, <1>3, LoadType

\* Joining touches the heads of cabinets only by copying lcab's.
LEMMA AttachType ==
  ASSUME TypeInv, NEW l \in Cab, NEW r \in Cab, Open(l), Attach(l, r)
  PROVE  cab' \in [Cab -> Cabinet] /\ HeadsSet'
<1> USE DEF TypeInv, TypeOK
<1>1. cab' \in [Cab -> Cabinet]
  BY DEF Attach, Cabinet
<1>2. cab[l].folders # NULL /\ cab[l].files # NULL
  BY DEF HeadsSet
<1>3. \A c \in Cab : \/ cab'[c].folders = cab[c].folders /\ cab'[c].files = cab[c].files
                     \/ cab'[c].folders = cab[l].folders /\ cab'[c].files = cab[l].files
  BY DEF Attach, Cabinet
<1>4. \A c \in Cab : cab'[c].img = cab[c].img
  BY DEF Attach, Cabinet
<1> QED
  BY <1>1, <1>2, <1>3, <1>4 DEF HeadsSet, Open

LEMMA MergePlainType ==
  ASSUME TypeInv, NEW l \in Cab, NEW r \in Cab, MergePlain(l, r)
  PROVE  TypeInv'
<1> USE DEF TypeInv, TypeOK
<1>1. Open(l) /\ Attach(l, r)
  BY DEF MergePlain, MayJoin
<1>2. folder' \in [Folder -> FolderObj]
  BY DEF MergePlain, RightFolder, FolderObj, Cabinet
<1>3. file' \in [File -> FileObj]
  BY DEF MergePlain, FileObj, Cabinet
<1> QED
  BY <1>1, <1>2, <1>3, AttachType DEF MergePlain, Errors

LEMMA SurvivorType ==
  ASSUME NEW h, NEW gone
  PROVE  Survivor(h, gone) \in File \cup {NULL}
<1> DEFINE toFirst == [f \in File |-> IF f \in gone THEN FilNext[f] ELSE NULL]
<1>1. Items(h, toFirst) \subseteq File
  BY DEF Items
<1> QED
  BY <1>1 DEF Survivor

\* What a folder merge does to the two folders.
LEMMA MergeFoldersFolder ==
  ASSUME TypeInv, NEW l \in Cab, NEW r \in Cab, MergeFolders(l, r)
  PROVE  /\ RightFolder(r) \in Folder
         /\ folder' \in [Folder -> FolderObj]
         /\ folder'[RightFolder(r)] = NoFolder
         /\ \A g \in Folder \ {RightFolder(r)} :
              /\ folder'[g].live = folder[g].live
              /\ folder'[g].merge_prev = folder[g].merge_prev
              /\ \/ folder'[g].blocks = folder[g].blocks
                 \/ /\ g = LeftFolder(l)
                    /\ folder'[g].blocks = folder[g].blocks + folder[RightFolder(r)].blocks - 1
<1> USE DEF TypeInv, TypeOK
<1> DEFINE lf == LeftFolder(l)
           rf == RightFolder(r)
           joined == [folder[lf] EXCEPT !.data = JoinedData(lf, rf),
                                        !.blocks = JoinedBlocks(lf, rf),
                                        !.merge_next = JoinedMergeNext(lf, rf),
                                        !.next = folder[rf].next]
<1>1. rf \in Folder
  BY DEF MergeFolders, MayJoin, HeadsSet, RightFolder, Cabinet
<1>2. folder' = [folder EXCEPT ![lf] = joined, ![rf] = NoFolder]
  BY DEF MergeFolders
<1>3. ASSUME lf \in Folder
      PROVE  /\ joined \in FolderObj
             /\ joined.live = folder[lf].live /\ joined.merge_prev = folder[lf].merge_prev
             /\ joined.blocks = folder[lf].blocks + folder[rf].blocks - 1
  <2>1. JoinedData(lf, rf) \in Seq(Cab)
    BY <1>1, <1>3 DEF JoinedData, FolderObj
  <2>2. JoinedBlocks(lf, rf) \in Int
    BY <1>1, <1>3 DEF JoinedBlocks, FolderObj
  <2>3. JoinedMergeNext(lf, rf) \in File \cup {NULL}
    BY <1>1, <1>3 DEF JoinedMergeNext, FolderObj
  <2>4. folder[rf].next \in Folder \cup {NULL} /\ folder[lf] \in FolderObj
    BY <1>1, <1>3 DEF FolderObj
  <2> QED
    BY <2>1, <2>2, <2>3, <2>4 DEF FolderObj, JoinedBlocks
<1>4. NoFolder \in FolderObj
  BY EmptyTypes
<1> HIDE DEF joined, lf
<1>5. folder' \in [Folder -> FolderObj] /\ folder'[rf] = NoFolder
  BY <1>1, <1>2, <1>3, <1>4
<1>6. \A g \in Folder \ {rf} : folder'[g] = IF g = lf THEN joined ELSE folder[g]
  BY <1>1, <1>2
<1> QED
  BY <1>1, <1>3, <1>5, <1>6 DEF lf

LEMMA MergeFoldersType ==
  ASSUME TypeInv, NEW l \in Cab, NEW r \in Cab, MergeFolders(l, r)
  PROVE  TypeInv'
<1> USE DEF TypeInv, TypeOK
<1>1. Open(l) /\ Attach(l, r)
  BY DEF MergeFolders, MayJoin
<1>2. file' \in [File -> FileObj]
  <2>1. \A f \in File : \A h : [file[f] EXCEPT !.next = Survivor(h, Duplicates(l, r))] \in FileObj
    BY SurvivorType DEF FileObj
  <2> QED
    BY <2>1, EmptyTypes DEF MergeFolders
<1>3. memErr' \in BOOLEAN /\ error' \in Errors /\ dec' \in Decoder
  BY DEF MergeFolders, Errors
<1> QED
  BY <1>1, <1>2, <1>3, AttachType, MergeFoldersFolder

\* Where an extraction may leave the decoder.
LEMMA AdvancedType ==
  ASSUME TypeInv, NEW fol \in Folder, NEW d \in Decoder, NEW n \in DOMAIN folder[fol].data
  PROVE  /\ Advanced(d, fol, n) \in Decoder /\ Advanced(d, fol, n).folder = d.folder
         /\ StuckAt(d, fol, n) \in Decoder /\ StuckAt(d, fol, n).folder = d.folder
<1>1. folder[fol].data[n] \in Cab
  BY DEF TypeInv, TypeOK, FolderObj
<1>2. cab[folder[fol].data[n]].img \in Image \cup {NULL}
  BY <1>1 DEF TypeInv, TypeOK, Cabinet
<1> QED
  BY <1>1, <1>2 DEF Advanced, StuckAt, Decoder

LEMMA ExtractRestartType ==
  ASSUME TypeInv, NEW f \in File, ExtractRestart(f)
  PROVE  TypeInv' /\ file[f].folder \in Folder
         /\ (dec'.folder # dec.folder => dec'.folder = file[f].folder)
<1> USE DEF TypeInv, TypeOK
<1> DEFINE fol == file[f].folder
           d == Rewound(fol)
           ready == [d EXCEPT !.folder = fol, !.state = TRUE]
<1>1. fol \in Folder /\ folder[fol].data \in Seq(Cab) /\ folder[fol].data # <<>>
  BY DEF ExtractRestart, Sound, FileObj, FolderObj
<1>2. d \in Decoder /\ d.folder = dec.folder
  <2>1. Head(folder[fol].data) \in Cab
    BY <1>1
  <2> QED
    BY <2>1 DEF Rewound, Decoder, Cabinet
<1>3. ready \in Decoder /\ ready.folder = fol
  BY <1>1, <1>2 DEF Decoder
<1>4. DOMAIN folder[fol].data = 1..Len(folder[fol].data) /\ Len(folder[fol].data) \in Nat \ {0}
  BY <1>1
<1>5. \A n \in 1..Len(folder[fol].data) :
        /\ Advanced(ready, fol, n) \in Decoder /\ Advanced(ready, fol, n).folder = fol
        /\ StuckAt(ready, fol, n) \in Decoder /\ StuckAt(ready, fol, n).folder = fol
  <2> HIDE DEF fol, ready
  <2> QED
    BY <1>1, <1>3, <1>4, AdvancedType
<1>6. [d EXCEPT !.infh = NULL] \in Decoder /\ [d EXCEPT !.infh = NULL].folder = dec.folder
  BY <1>2 DEF Decoder
<1>7. UNCHANGED <<cab, folder, file, memErr>> /\ error' \in Errors
  BY DEF ExtractRestart, Errors
<1>8. \/ dec' \in {dec, d, ready, [d EXCEPT !.infh = NULL]}
      \/ \E n \in 1..Len(folder[fol].data) : dec' \in {Advanced(ready, fol, n), StuckAt(ready, fol, n)}
  <2>1. \/ dec' = dec \/ dec' = d \/ dec' = ready \/ dec' = [d EXCEPT !.infh = NULL]
        \/ \E n \in 1..Len(folder[fol].data) : dec' = Advanced(ready, fol, n)
        \/ dec' = StuckAt(ready, fol, Len(folder[fol].data))
        \/ \E n \in (1..Len(folder[fol].data)) \ {1} : dec' = StuckAt(ready, fol, n)
    BY Zenon DEF ExtractRestart
  <2> HIDE DEF fol, d, ready
  <2>2. Len(folder[fol].data) \in 1..Len(folder[fol].data)
    BY <1>4
  <2> QED
    BY <2>1, <2>2
<1>9. dec' \in Decoder /\ (dec'.folder = dec.folder \/ dec'.folder = fol)
  <2> HIDE DEF fol, d, ready
  <2> QED
    BY <1>2, <1>3, <1>5, <1>6, <1>8
<1> QED
  BY <1>1, <1>7, <1>9 DEF HeadsSet, Open

LEMMA ExtractOnwardsType ==
  ASSUME TypeInv, NEW f \in File, ExtractOnwards(f)
  PROVE  TypeInv' /\ dec'.folder = dec.folder
<1> USE DEF TypeInv, TypeOK
<1> DEFINE fol == file[f].folder
<1>1. fol \in Folder /\ folder[fol].data \in Seq(Cab)
  BY DEF ExtractOnwards, Sound, FileObj, FolderObj
<1>2. \A n \in 1..Len(folder[fol].data) :
        /\ Advanced(dec, fol, n) \in Decoder /\ Advanced(dec, fol, n).folder = dec.folder
        /\ StuckAt(dec, fol, n) \in Decoder /\ StuckAt(dec, fol, n).folder = dec.folder
  BY <1>1, AdvancedType
<1>3. UNCHANGED <<cab, folder, file, memErr>> /\ error' \in Errors
  BY DEF ExtractOnwards, Errors
<1>4. \/ dec' = dec
      \/ \E n \in 1..Len(folder[fol].data) : dec' \in {Advanced(dec, fol, n), StuckAt(dec, fol, n)}
  BY <1>1 DEF ExtractOnwards
<1> HIDE DEF fol
<1>5. dec' \in Decoder /\ dec'.folder = dec.folder
  BY <1>2, <1>4
<1> QED
  BY <1>3, <1>5 DEF HeadsSet, Open

LEMMA CloseType ==
  ASSUME TypeInv, NEW c \in Cab, Close(c)
  PROVE  TypeInv'
<1> USE DEF TypeInv, TypeOK
<1>1. cab' \in [Cab -> Cabinet] /\ HeadsSet'
  BY DEF Close, NoCab, Cabinet, HeadsSet, Open
<1>2. folder' \in [Folder -> FolderObj] /\ file' \in [File -> FileObj]
  BY EmptyTypes DEF Close
<1>3. dec' \in Decoder /\ error' \in Errors
  BY DEF Close, DecoderAfter, NoDecoder, Decoder, Errors
<1>4. memErr' \in BOOLEAN
  BY DEF Close
<1> QED
  BY <1>1, <1>2, <1>3, <1>4

\* Headers that do not read leave the heap as it was (cabd_close in cabd_open and
\* cabd_find): what was built is reached and released, and nothing else is.
LEMMA OpenFailsStill ==
  ASSUME TypeInv, NEW c \in Cab, NEW i \in Image, NEW n \in Nat, NEW k \in Nat,
         OpenFails(c, i, n, k)
  PROVE  /\ UNCHANGED <<cab, folder, file, memErr>>
         /\ dec' \in {dec, NoDecoder} /\ error' \in Errors
<1> DEFINE ks == {j \in Kept(i) : j <= k}
           goneFols == Items(FirstLink(c, 1..n), Linked(FolNext, c, 1..n))
           goneFils == Items(FirstLink(c, ks), Linked(FilNext, c, ks))
<1>1. MaxFolders \in Nat /\ MaxFiles \in Nat /\ Links(FolNext, Folder) /\ Links(FilNext, File)
  BY HeapLinks, ImageType
<1>2. 1..n \in SUBSET (1..MaxFolders)
  <2>1. n <= Len(ImageFolders[i]) /\ Len(ImageFolders[i]) \in 1..MaxFolders
    BY ImageType DEF OpenFails, ReadsAsFarAs
  <2> QED
    BY <1>1, <2>1
<1>3. ks \in SUBSET (1..MaxFiles)
  <2>1. Kept(i) \subseteq 1..Len(ImageFiles[i]) /\ Len(ImageFiles[i]) \in 1..MaxFiles
    BY ImageType DEF Kept
  <2> QED
    BY <1>1, <2>1
<1>4. goneFols = {c} \X (1..n)
  <2>1. goneFols = Entries(c, 1..n)
    <3> DEFINE K == 1..n
    <3>1. K \in SUBSET (1..MaxFolders)
      BY <1>2
    <3> HIDE DEF K
    <3>2. Items(FirstLink(c, K), Linked(FolNext, c, K)) = Entries(c, K)
      BY <1>1, <3>1, LinkedReached DEF Folder
    <3> QED
      BY <3>2 DEF K
  <2> HIDE DEF goneFols
  <2> QED
    BY <2>1 DEF Entries
<1>5. goneFils = {c} \X ks
  <2>1. goneFils = Entries(c, ks)
    <3> HIDE DEF ks
    <3> QED
      BY <1>1, <1>3, LinkedReached DEF File
  <2> HIDE DEF goneFils, ks
  <2> QED
    BY <2>1 DEF Entries
<1>6. /\ folder' = [g \in Folder |-> IF g \in ({c} \X (1..n)) \ goneFols
                                      THEN NewFolder(c, i, g[2]) ELSE folder[g]]
      /\ file' = [f \in File |-> IF f \in ({c} \X ks) \ goneFils
                                  THEN NewFile(c, i, f[2]) ELSE file[f]]
      /\ memErr' = (memErr \/ ~(goneFols \subseteq {c} \X (1..n)) \/ ~(goneFils \subseteq {c} \X ks))
      /\ dec' = DecoderAfter(goneFols) /\ cab' = cab
  BY DEF OpenFails
<1>7. error' \in Errors
  BY DEF OpenFails, Errors
<1>8. folder \in [Folder -> FolderObj] /\ file \in [File -> FileObj] /\ memErr \in BOOLEAN
  BY DEF TypeInv, TypeOK
<1> HIDE DEF ks, goneFols, goneFils
<1>9. folder' = folder
  BY <1>4, <1>6, <1>8
<1>10. file' = file
  BY <1>5, <1>6, <1>8
<1>11. memErr' = memErr
  BY <1>4, <1>5, <1>6, <1>8
<1>12. dec' \in {dec, NoDecoder}
  BY <1>6 DEF DecoderAfter
<1> QED
  BY <1>6, <1>7, <1>9, <1>10, <1>11, <1>12

LEMMA TypeInvNext == TypeInv /\ [Next]_vars => TypeInv'
<1> SUFFICES ASSUME TypeInv, [Next]_vars PROVE TypeInv'
  OBVIOUS
<1>1. ASSUME NEW c \in Cab, NEW i \in Image, OpenCab(c, i) PROVE TypeInv'
  BY <1>1, OpenCabType
<1>2. ASSUME NEW c \in Cab, NEW d \in Cab, NEW i \in Image, NEW j \in Image, Search(c, d, i, j)
      PROVE  TypeInv'
  BY <1>2, SearchType
<1>3. ASSUME NEW c \in Cab, NEW i \in Image, NEW n \in 0..MaxFolders, NEW k \in 0..MaxFiles,
             OpenFails(c, i, n, k)
      PROVE  TypeInv'
  <2>0. n \in Nat /\ k \in Nat
    BY ImageType
  <2>1. /\ UNCHANGED <<cab, folder, file, memErr>>
        /\ dec' \in {dec, NoDecoder} /\ error' \in Errors
    BY <1>3, <2>0, OpenFailsStill
  <2> QED
    BY <2>1, EmptyTypes DEF TypeInv, TypeOK, HeadsSet, Open
<1>4. ASSUME NEW l \in Cab, NEW r \in Cab, MergeRejected(l, r) PROVE TypeInv'
  BY <1>4 DEF MergeRejected, TypeInv, TypeOK, HeadsSet, Open, Errors
<1>5. ASSUME NEW l \in Cab, NEW r \in Cab, MergePlain(l, r) PROVE TypeInv'
  BY <1>5, MergePlainType
<1>6. ASSUME NEW l \in Cab, NEW r \in Cab, MergeFolders(l, r) PROVE TypeInv'
  BY <1>6, MergeFoldersType
<1>7. ASSUME NEW f \in File, ExtractRefused(f) PROVE TypeInv'
  BY <1>7 DEF ExtractRefused, TypeInv, TypeOK, HeadsSet, Open, Errors
<1>8. ASSUME NEW f \in File, ExtractRestart(f) PROVE TypeInv'
  BY <1>8, ExtractRestartType
<1>9. ASSUME NEW f \in File, ExtractOnwards(f) PROVE TypeInv'
  BY <1>9, ExtractOnwardsType
<1>10. ASSUME NEW c \in Cab, Close(c) PROVE TypeInv'
  BY <1>10, CloseType
<1>11. CASE UNCHANGED vars
  BY <1>11 DEF vars, TypeInv, TypeOK, HeadsSet, Open
<1> QED
  BY <1>1, <1>2, <1>3, <1>4, <1>5, <1>6, <1>7, <1>8, <1>9, <1>10, <1>11 DEF Next

LEMMA InitTypeInv == Init => TypeInv
<1> SUFFICES ASSUME Init PROVE TypeInv
  OBVIOUS
<1>1. TypeOK
  BY EmptyTypes DEF Init, TypeOK, Errors
<1>2. HeadsSet
  BY DEF Init, HeadsSet, Open, NoCab
<1> QED
  BY <1>1, <1>2 DEF TypeInv

\* Every field of every object keeps its type, and an open cabinet always has a
\* folder list and a file list to walk.
THEOREM TypeCorrect == Spec => [](TypeOK /\ HeadsSet)
<1>1. Spec => []TypeInv
  BY InitTypeInv, TypeInvNext, PTL DEF Spec
<1> QED
  BY <1>1, PTL DEF TypeInv

-----------------------------------------------------------------------------
(* Safety.                                                                  *)

\* Unless it was just allocated, a folder that is live after a step was live
\* before it.
LEMMA LoadKeepsLive ==
  ASSUME TypeInv, NEW S \in SUBSET Cab, NEW img \in [S -> Image], NEW succ,
         \A c \in S : Unallocated(c), Load(img, succ),
         NEW g \in Folder, folder[g].live
  PROVE  folder'[g] = folder[g]
<1>1. g[1] \in Cab /\ g[2] \in 1..MaxFolders /\ g = <<g[1], g[2]>>
  BY DEF Folder
<1>2. g[1] \notin S
  BY <1>1 DEF Unallocated
<1> QED
  BY <1>2 DEF Load

LEMMA DecoderInit == Init => DecoderFolderLive
BY DEF Init, DecoderFolderLive, NoDecoder

LEMMA DecoderNext == TypeInv /\ DecoderFolderLive /\ [Next]_vars => DecoderFolderLive'
<1> SUFFICES ASSUME TypeInv, DecoderFolderLive, [Next]_vars PROVE DecoderFolderLive'
  OBVIOUS
<1> USE DEF DecoderFolderLive
<1>0. dec.folder \in Folder \cup {NULL} /\ folder \in [Folder -> FolderObj]
  BY DEF TypeInv, TypeOK, Decoder
<1>1. ASSUME NEW c \in Cab, NEW i \in Image, OpenCab(c, i) PROVE DecoderFolderLive'
  <2>1. [x \in {c} |-> i] \in [{c} -> Image] /\ \A x \in {c} : Unallocated(x)
    BY <1>1 DEF OpenCab
  <2>2. dec.folder # NULL => folder'[dec.folder] = folder[dec.folder]
    BY <1>0, <1>1, <2>1, LoadKeepsLive DEF OpenCab
  <2> QED
    BY <1>1, <2>2 DEF OpenCab, Load
<1>2. ASSUME NEW c \in Cab, NEW d \in Cab, NEW i \in Image, NEW j \in Image, Search(c, d, i, j)
      PROVE  DecoderFolderLive'
  <2> DEFINE img == [x \in {c, d} |-> IF x = c THEN i ELSE j]
             succ == [x \in {c, d} |-> IF x = c THEN d ELSE NULL]
  <2>1. img \in [{c, d} -> Image] /\ \A x \in {c, d} : Unallocated(x)
    BY <1>2 DEF Search
  <2>2. Load(img, succ)
    BY <1>2 DEF Search
  <2> HIDE DEF img, succ
  <2>3. dec.folder # NULL => folder'[dec.folder] = folder[dec.folder]
    BY <1>0, <2>1, <2>2, LoadKeepsLive
  <2> QED
    BY <2>2, <2>3 DEF Load
<1>3. ASSUME NEW c \in Cab, NEW i \in Image, NEW n \in 0..MaxFolders, NEW k \in 0..MaxFiles,
             OpenFails(c, i, n, k)
      PROVE  DecoderFolderLive'
  <2>0. n \in Nat /\ k \in Nat
    BY ImageType
  <2>1. folder' = folder /\ dec' \in {dec, NoDecoder}
    BY <1>3, <2>0, OpenFailsStill
  <2> QED
    BY <2>1 DEF NoDecoder
<1>4. ASSUME NEW l \in Cab, NEW r \in Cab, MergeRejected(l, r) PROVE DecoderFolderLive'
  BY <1>4 DEF MergeRejected
<1>5. ASSUME NEW l \in Cab, NEW r \in Cab, MergePlain(l, r) PROVE DecoderFolderLive'
  <2>1. \A g \in Folder : folder'[g].live = folder[g].live /\ folder'[g].merge_prev = folder[g].merge_prev
    BY <1>0, <1>5 DEF MergePlain, FolderObj
  <2> QED
    BY <1>0, <1>5, <2>1 DEF MergePlain
<1>6. ASSUME NEW l \in Cab, NEW r \in Cab, MergeFolders(l, r) PROVE DecoderFolderLive'
  \* the folder that is freed has files from a previous part, so no file of it
  \* was ever extracted
  <2>1. folder[RightFolder(r)].merge_prev # NULL
    BY <1>6 DEF MergeFolders, CanMergeFolders, ComparesFiles
  <2>2. dec.folder # NULL => dec.folder \in Folder \ {RightFolder(r)}
    BY <1>0, <2>1
  <2> QED
    BY <1>6, <2>2, MergeFoldersFolder DEF MergeFolders
<1>7. ASSUME NEW f \in File, ExtractRefused(f) PROVE DecoderFolderLive'
  BY <1>7 DEF ExtractRefused
<1>8. ASSUME NEW f \in File, ExtractRestart(f) PROVE DecoderFolderLive'
  <2>1. folder[file[f].folder].live /\ folder[file[f].folder].merge_prev = NULL
    BY <1>8 DEF ExtractRestart, Sound
  <2>2. folder' = folder
    BY <1>8 DEF ExtractRestart
  <2> QED
    BY <1>8, <2>1, <2>2, ExtractRestartType
<1>9. ASSUME NEW f \in File, ExtractOnwards(f) PROVE DecoderFolderLive'
  <2>1. folder' = folder
    BY <1>9 DEF ExtractOnwards
  <2> QED
    BY <1>9, <2>1, ExtractOnwardsType
<1>10. ASSUME NEW c \in Cab, Close(c) PROVE DecoderFolderLive'
  <2>1. dec' = DecoderAfter(Freed(c).folders)
    BY <1>10 DEF Close
  <2>2. \A g \in Folder \ Freed(c).folders : folder'[g] = folder[g]
    BY <1>10 DEF Close
  <2> QED
    BY <1>0, <2>1, <2>2 DEF DecoderAfter, NoDecoder
<1>11. CASE UNCHANGED vars
  BY <1>11 DEF vars
<1> QED
  BY <1>1, <1>2, <1>3, <1>4, <1>5, <1>6, <1>7, <1>8, <1>9, <1>10, <1>11 DEF Next

\* The decoder kept between calls is never left in a folder that cabd_close or
\* cabd_merge has freed, whatever the caller does.
THEOREM DecoderNeverDangles == Spec => []DecoderFolderLive
BY InitTypeInv, TypeInvNext, DecoderInit, DecoderNext, PTL DEF Spec

LEMMA BlocksInit == Init => BlocksBounded
BY CabSetsAssumption DEF CabSetsAssumption, Init, BlocksBounded, NoFolder

LEMMA LoadBlocks ==
  ASSUME BlocksBounded, NEW S \in SUBSET Cab, NEW img \in [S -> Image], NEW succ,
         Load(img, succ)
  PROVE  BlocksBounded'
<1> SUFFICES ASSUME NEW g \in Folder PROVE folder'[g].blocks <= FolderMax
  BY DEF BlocksBounded
<1>1. CASE g[1] \in S /\ g[2] <= Len(ImageFolders[img[g[1]]])
  <2>1. g[1] \in Cab /\ g[2] \in 1..Len(ImageFolders[img[g[1]]]) /\ img[g[1]] \in Image
    BY <1>1, ImageType DEF Folder
  <2>2. folder'[g] = NewFolder(g[1], img[g[1]], g[2])
    BY <1>1 DEF Load
  <2> QED
    BY <2>1, <2>2, NewFolderType
<1>2. CASE ~(g[1] \in S /\ g[2] <= Len(ImageFolders[img[g[1]]]))
  BY <1>2 DEF Load, BlocksBounded
<1> QED
  BY <1>1, <1>2

LEMMA BlocksNext == TypeInv /\ BlocksBounded /\ [Next]_vars => BlocksBounded'
<1> SUFFICES ASSUME TypeInv, BlocksBounded, [Next]_vars PROVE BlocksBounded'
  OBVIOUS
<1>1. ASSUME NEW c \in Cab, NEW i \in Image, OpenCab(c, i) PROVE BlocksBounded'
  <2>1. [x \in {c} |-> i] \in [{c} -> Image]
    OBVIOUS
  <2> QED
    BY <1>1, <2>1, LoadBlocks DEF OpenCab
<1>2. ASSUME NEW c \in Cab, NEW d \in Cab, NEW i \in Image, NEW j \in Image, Search(c, d, i, j)
      PROVE  BlocksBounded'
  <2>1. [x \in {c, d} |-> IF x = c THEN i ELSE j] \in [{c, d} -> Image]
    OBVIOUS
  <2> QED
    BY <1>2, <2>1, LoadBlocks DEF Search
<1>3. ASSUME NEW l \in Cab, NEW r \in Cab, MergePlain(l, r) PROVE BlocksBounded'
  BY <1>3 DEF MergePlain, BlocksBounded, TypeInv, TypeOK, FolderObj
<1>4. ASSUME NEW l \in Cab, NEW r \in Cab, MergeFolders(l, r) PROVE BlocksBounded'
  <2> DEFINE lf == LeftFolder(l)
             rf == RightFolder(r)
  <2>1. folder[lf].blocks + folder[rf].blocks <= FolderMax
    BY <1>4 DEF MergeFolders, CanMergeFolders, ComparesFiles
  <2>2. FolderMax \in Nat /\ \A g \in Folder : folder[g].blocks \in Int
    BY CabSetsAssumption DEF CabSetsAssumption, TypeInv, TypeOK, FolderObj
  <2>3. rf \in Folder /\ folder'[rf].blocks = 0
    BY <1>4, MergeFoldersFolder DEF NoFolder
  <2>4. \A g \in Folder \ {rf} : \/ folder'[g].blocks = folder[g].blocks
                                 \/ g = lf /\ folder'[g].blocks = folder[g].blocks + folder[rf].blocks - 1
    BY <1>4, MergeFoldersFolder
  <2> HIDE DEF lf, rf
  <2> QED
    BY <2>1, <2>2, <2>3, <2>4 DEF BlocksBounded
<1>5. ASSUME NEW c \in Cab, Close(c) PROVE BlocksBounded'
  BY <1>5, CabSetsAssumption DEF CabSetsAssumption, Close, BlocksBounded, NoFolder
<1>6. CASE UNCHANGED folder
  BY <1>6 DEF BlocksBounded
<1>7. ASSUME NEW c \in Cab, NEW i \in Image, NEW n \in 0..MaxFolders, NEW k \in 0..MaxFiles,
             OpenFails(c, i, n, k)
      PROVE  UNCHANGED folder
  <2>0. n \in Nat /\ k \in Nat
    BY ImageType
  <2> QED
    BY <1>7, <2>0, OpenFailsStill
<1>8. /\ \A l, r \in Cab : MergeRejected(l, r) => UNCHANGED folder
      /\ \A f \in File : ExtractRefused(f) \/ ExtractRestart(f) \/ ExtractOnwards(f)
                           => UNCHANGED folder
  BY DEF MergeRejected, ExtractRefused, ExtractRestart, ExtractOnwards
<1> QED
  BY <1>1, <1>2, <1>3, <1>4, <1>5, <1>6, <1>7, <1>8 DEF Next, vars

\* No folder, merged or not, claims more than CAB_FOLDERMAX blocks, on which
\* cabd_extract's bound on offsets rests.
THEOREM BlocksStayBounded == Spec => []BlocksBounded
BY InitTypeInv, TypeInvNext, BlocksInit, BlocksNext, PTL DEF Spec

-----------------------------------------------------------------------------
(* The cabinet graph.                                                       *)

\* Every list of an open cabinet ends.
ListsEnd ==
  \A c \in Cab : Open(c) => /\ \E x \in FoldersOf(c) : folder[x].next = NULL
                            /\ \E x \in FilesOf(c) : file[x].next = NULL

\* nextcab and prevcab lead back and forth between open cabinets.
SetsLinked ==
  /\ \A c \in Cab : ~Open(c) => cab[c] = NoCab
  /\ \A c, d \in Cab : cab[c].nextcab = d <=> cab[d].prevcab = c

\* A search result is two cabinets, of which only one may be in a set.
ChainsKept ==
  /\ \A c, d \in Cab : cab[c].next = d =>
       Open(d) /\ c # d /\ cab[d].next = NULL /\ \A e \in Cab : cab[e].next = d => e = c
  /\ \A c \in Cab : Open(c) => \A x, y \in SetOf(c) : InChain(x) /\ InChain(y) => x = y

\* A folder's parts are cabinets of its set.
PartsInSet ==
  \A c \in Cab : Open(c) => \A g \in FoldersOf(c) :
    folder[g].data # <<>> /\ \A n \in DOMAIN folder[g].data : folder[g].data[n] \in SetOf(c)

Graph == /\ TypeInv /\ ListsEnd /\ SetsLinked /\ ChainsKept /\ PartsInSet
         /\ ListsHoldTheHeap /\ SetSharesLists /\ FilesPointIntoSet

LEMMA HeapLinksAfter ==
  TypeInv' => /\ Links(FolNext', Folder) /\ Links(FilNext', File)
              /\ Links(NextOf', Cab) /\ Links(PrevOf', Cab) /\ Links(Chain', Cab)
BY FiniteHeap DEF TypeInv, TypeOK, Links, FolNext, FilNext, NextOf, PrevOf, Chain,
   Cabinet, FolderObj, FileObj

LEMMA SetWays == TypeInv /\ SetsLinked => BothWays(NextOf, PrevOf, Cab)
BY HeapLinks DEF BothWays, SetsLinked, NextOf, PrevOf

\* The sets of the graph are the same whichever member one starts from.
LEMMA SetFacts ==
  ASSUME TypeInv, SetsLinked, NEW c \in Cab
  PROVE  /\ SetOf(c) \subseteq Cab /\ c \in SetOf(c)
         /\ \A d \in SetOf(c) : SetOf(d) = SetOf(c)
         /\ Open(c) => \A d \in SetOf(c) : Open(d)
<1>1. BothWays(NextOf, PrevOf, Cab) /\ Links(NextOf, Cab) /\ Links(PrevOf, Cab)
  BY SetWays, HeapLinks
<1>2. SetOf(c) \subseteq Cab /\ c \in SetOf(c)
  BY <1>1, FiniteHeap, ListBasics DEF SetOf
<1>3. ASSUME NEW d \in SetOf(c) PROVE SetOf(d) = SetOf(c)
  <2>1. d \in Items(c, PrevOf) \cup Items(c, NextOf)
    BY <1>3 DEF SetOf
  <2>2. Items(d, PrevOf) \cup Items(d, NextOf) = Items(c, PrevOf) \cup Items(c, NextOf)
    BY <1>1, <2>1, OneSet
  <2> QED
    BY <2>2 DEF SetOf
<1>4. ASSUME Open(c) PROVE \A d \in SetOf(c) : Open(d)
  <2> DEFINE S == {d \in Cab : Open(d)}
  <2>1. c \in S \cup {NULL} /\ c \in Cab \cup {NULL}
    BY <1>4
  <2>2. \A d, e \in Cab : cab[d].nextcab = e => Open(e)
    BY FiniteHeap DEF SetsLinked, NoCab
  <2>3. \A d, e \in Cab : cab[d].prevcab = e => Open(e)
    BY FiniteHeap DEF SetsLinked, NoCab
  <2>4. \A d \in S : d \in Cab => NextOf[d] \in S \cup {NULL}
    BY <1>1, <2>2 DEF NextOf, Links
  <2>5. \A d \in S : d \in Cab => PrevOf[d] \in S \cup {NULL}
    BY <1>1, <2>3 DEF PrevOf, Links
  <2> HIDE DEF S
  <2>6. Items(c, NextOf) \subseteq S
    BY <1>1, <2>1, <2>4, ItemsInClosed
  <2>7. Items(c, PrevOf) \subseteq S
    BY <1>1, <2>1, <2>5, ItemsInClosed
  <2> QED
    BY <2>6, <2>7 DEF S, SetOf
<1> QED
  BY <1>2, <1>3, <1>4

\* The lists of an open cabinet, and what is in them.
LEMMA ListFacts ==
  ASSUME Graph, NEW c \in Cab, Open(c)
  PROVE  /\ FoldersOf(c) \subseteq Folder /\ FilesOf(c) \subseteq File
         /\ cab[c].folders \in FoldersOf(c) /\ cab[c].files \in FilesOf(c)
         /\ \A g \in FoldersOf(c) : folder[g].live
         /\ \A f \in FilesOf(c) : file[f].live
<1> USE DEF Graph
<1>1. Links(FolNext, Folder) /\ Links(FilNext, File)
  BY HeapLinks
<1>2. cab[c].folders \in Folder /\ cab[c].files \in File
  BY DEF TypeInv, TypeOK, HeadsSet, Cabinet
<1>3. /\ FoldersOf(c) \subseteq Folder /\ FilesOf(c) \subseteq File
      /\ cab[c].folders \in FoldersOf(c) /\ cab[c].files \in FilesOf(c)
  BY <1>1, <1>2, FiniteHeap, ListBasics DEF FoldersOf, FilesOf
<1>4. \A g \in FoldersOf(c) : g \in {f \in Folder : folder[f].live}
  BY DEF ListsHoldTheHeap
<1>5. \A g \in FilesOf(c) : g \in {f \in File : file[f].live}
  BY DEF ListsHoldTheHeap
<1> QED
  BY <1>3, <1>4, <1>5

LEMMA LiveIsListed ==
  ASSUME Graph
  PROVE  /\ \A g \in Folder : folder[g].live => \E c \in Cab : Open(c) /\ g \in FoldersOf(c)
         /\ \A f \in File : file[f].live => \E c \in Cab : Open(c) /\ f \in FilesOf(c)
<1>1. \A g \in Folder : folder[g].live => g \in UNION {FoldersOf(c) : c \in {x \in Cab : Open(x)}}
  BY DEF Graph, ListsHoldTheHeap
<1>2. \A g \in File : file[g].live => g \in UNION {FilesOf(c) : c \in {x \in Cab : Open(x)}}
  BY DEF Graph, ListsHoldTheHeap
<1> QED
  BY <1>1, <1>2

\* Two sets have nothing in common.
LEMMA SetsApart ==
  ASSUME Graph, NEW c \in Cab, NEW d \in Cab, Open(c), Open(d)
  PROVE  /\ d \in SetOf(c) => FoldersOf(d) = FoldersOf(c) /\ FilesOf(d) = FilesOf(c)
         /\ d \notin SetOf(c) => FoldersOf(c) \cap FoldersOf(d) = {} /\ FilesOf(c) \cap FilesOf(d) = {}
<1> USE DEF Graph
<1>1. d \in SetOf(c) => cab[c].files = cab[d].files /\ cab[c].folders = cab[d].folders
  BY DEF SetSharesLists
<1>2. d \notin SetOf(c) => FoldersOf(c) \cap FoldersOf(d) = {}
  BY DEF SetSharesLists
<1>3. \A f \in FilesOf(c) : file[f].folder \in FoldersOf(c)
  BY DEF FilesPointIntoSet
<1>4. \A f \in FilesOf(d) : file[f].folder \in FoldersOf(d)
  BY DEF FilesPointIntoSet
<1> QED
  BY <1>1, <1>2, <1>3, <1>4 DEF FoldersOf, FilesOf

-----------------------------------------------------------------------------
(* Opening keeps it.                                                        *)

LEMMA EntryFolderListed ==
  ASSUME NEW i \in Image, NEW k \in Kept(i)
  PROVE  EntryFolder(i, k) \in 1..Len(ImageFolders[i])
<1> DEFINE x == ImageFiles[i][k].fidx
           n == Len(ImageFolders[i])
<1>1. x \in Nat /\ x <= PREV_AND_NEXT /\ (x >= FROM_PREV \/ x < n)
  BY EntryType DEF GoodEntry
<1>2. n \in Nat /\ n >= 1
  BY ImageType
<1>4. x \in {FROM_PREV, PREV_AND_NEXT} \/ x = TO_NEXT \/ x < n
  <2> HIDE DEF x, n
  <2> QED
    BY <1>1, <1>2 DEF FROM_PREV, TO_NEXT, PREV_AND_NEXT
<1>3. EntryFolder(i, k) = IF x \in {FROM_PREV, PREV_AND_NEXT} THEN 1
                          ELSE IF x = TO_NEXT THEN n ELSE x + 1
  BY DEF EntryFolder
<1>5. EntryFolder(i, k) \in 1..n
  <2> HIDE DEF x, n
  <2> QED
    BY <1>1, <1>2, <1>3, <1>4
<1> QED
  BY <1>5

\* What chains of two look like: succ[c] is the second of the first.
ShortChains(S, succ) ==
  \A c \in S : succ[c] # NULL =>
    succ[c] \in S /\ succ[c] # c /\ succ[succ[c]] = NULL /\ \A e \in S : succ[e] = succ[c] => e = c

LEMMA LoadGraph ==
  ASSUME Graph, TypeInv', NEW S \in SUBSET Cab, NEW img \in [S -> Image],
         NEW succ \in [S -> Cab \cup {NULL}], ShortChains(S, succ),
         \A c \in S : Unallocated(c) /\ Readable(img[c]),
         Load(img, succ)
  PROVE  /\ Graph'
         /\ \A c \in Cab : SetOf(c)' = SetOf(c)
         /\ \A c \in Cab \ S : cab'[c] = cab[c]
         /\ \A c \in S : cab'[c].img = img[c]
         /\ \A g \in Folder : IF g[1] \in S /\ g[2] \in 1..Len(ImageFolders[img[g[1]]])
                                THEN folder'[g] = NewFolder(g[1], img[g[1]], g[2])
                                ELSE folder'[g] = folder[g]
         /\ \A f \in File : IF f[1] \in S /\ f[2] \in Kept(img[f[1]])
                              THEN file'[f] = NewFile(f[1], img[f[1]], f[2])
                              ELSE file'[f] = file[f]
         /\ \A c \in S : /\ FoldersOf(c)' = {<<c, n>> : n \in 1..Len(ImageFolders[img[c]])}
                         /\ FilesOf(c)' = {<<c, k>> : k \in Kept(img[c])}
<1> DEFINE N(c) == Len(ImageFolders[img[c]])
           K(c) == Kept(img[c])
<1>1. /\ TypeInv /\ SetsLinked /\ ChainsKept /\ ListsEnd /\ PartsInSet
      /\ ListsHoldTheHeap /\ SetSharesLists /\ FilesPointIntoSet
  BY DEF Graph
<1>2. \A c \in S : /\ c \in Cab /\ img[c] \in Image /\ ~Open(c) /\ cab[c] = NoCab
                   /\ \A n \in 1..MaxFolders : ~folder[<<c, n>>].live
                   /\ \A k \in 1..MaxFiles : ~file[<<c, k>>].live
  BY <1>1 DEF Unallocated, SetsLinked
<1>3. \A c \in S : /\ N(c) \in 1..MaxFolders /\ MaxFolders \in Nat /\ MaxFiles \in Nat
                   /\ K(c) \in SUBSET (1..MaxFiles) /\ K(c) # {}
  BY <1>2, ImageType, KeptType DEF Readable
<1>4. /\ \A c \in Cab \ S : cab'[c] = cab[c]
      /\ \A c \in S : /\ cab'[c].img = img[c] /\ cab'[c].next = succ[c]
                      /\ cab'[c].prevcab = NULL /\ cab'[c].nextcab = NULL
                      /\ cab'[c].files = <<c, Least(K(c))>> /\ cab'[c].folders = <<c, 1>>
  BY DEF Load, NoCab
<1>5. \A g \in Folder : IF g[1] \in S /\ g[2] \in 1..N(g[1])
                          THEN folder'[g] = NewFolder(g[1], img[g[1]], g[2])
                          ELSE folder'[g] = folder[g]
  <2> TAKE g \in Folder
  <2>1. g[2] \in 1..MaxFolders
    BY DEF Folder
  <2>2. folder'[g] = IF g[1] \in S /\ g[2] <= N(g[1]) THEN NewFolder(g[1], img[g[1]], g[2]) ELSE folder[g]
    BY DEF Load
  <2>3. g[1] \in S => (g[2] <= N(g[1]) <=> g[2] \in 1..N(g[1]))
    BY <1>3, <2>1
  <2> HIDE DEF N
  <2> QED
    BY <2>2, <2>3
<1>6. \A f \in File : IF f[1] \in S /\ f[2] \in K(f[1])
                        THEN file'[f] = NewFile(f[1], img[f[1]], f[2])
                        ELSE file'[f] = file[f]
  BY DEF Load
<1>7. /\ \A c \in S : Open(c)' /\ ~Open(c)
      /\ \A c \in Cab \ S : Open(c)' <=> Open(c)
  BY <1>2, <1>4, FiniteHeap DEF Open
<1>8. \A c \in Cab : SetOf(c)' = SetOf(c)
  <2>1. \A c \in Cab : cab'[c].nextcab = cab[c].nextcab /\ cab'[c].prevcab = cab[c].prevcab
    BY <1>2, <1>4 DEF NoCab
  <2>2. NextOf' = NextOf /\ PrevOf' = PrevOf
    BY <2>1 DEF NextOf, PrevOf
  <2> QED
    BY <2>2 DEF SetOf
<1>9. \A c \in S : SetOf(c) = {c}
  <2> TAKE c \in S
  <2>1. NextOf[c] = NULL /\ PrevOf[c] = NULL
    BY <1>2 DEF NextOf, PrevOf, NoCab
  <2>2. Items(c, NextOf) = {c} /\ Items(c, PrevOf) = {c}
    <3>1. Links(NextOf, Cab) /\ Links(PrevOf, Cab)
      BY <1>1, HeapLinks
    <3>2. Items(NULL, NextOf) = {} /\ Items(NULL, PrevOf) = {}
      BY <3>1, ListBasics
    <3>3. c \in Cab
      OBVIOUS
    <3>4. /\ Items(c, NextOf) = {c} \cup Items(NextOf[c], NextOf)
          /\ Items(c, PrevOf) = {c} \cup Items(PrevOf[c], PrevOf)
      BY <3>1, <3>3, ListUnfolds
    <3> QED
      BY <2>1, <3>2, <3>4
  <2> QED
    BY <2>2 DEF SetOf
<1> HIDE DEF N, K
<1>10. \A g \in Folder : folder[g].live => folder'[g] = folder[g]
  <2> TAKE g \in Folder
  <2> HAVE folder[g].live
  <2>1. g = <<g[1], g[2]>> /\ g[2] \in 1..MaxFolders
    BY DEF Folder
  <2>2. g[1] \notin S
    BY <1>2, <2>1
  <2> QED
    BY <1>5, <2>2
<1>11. \A f \in File : file[f].live => file'[f] = file[f]
  <2> TAKE f \in File
  <2> HAVE file[f].live
  <2>1. f = <<f[1], f[2]>> /\ f[2] \in 1..MaxFiles
    BY DEF File
  <2>2. f[1] \notin S
    BY <1>2, <2>1
  <2> QED
    BY <1>6, <2>2
<1>12. /\ Links(FolNext, Folder) /\ Links(FilNext, File)
       /\ Links(FolNext', Folder) /\ Links(FilNext', File)
  BY <1>1, HeapLinks, HeapLinksAfter
<1>13. ASSUME NEW c \in Cab, Open(c)
       PROVE  /\ c \notin S /\ cab'[c] = cab[c]
              /\ FoldersOf(c)' = FoldersOf(c) /\ FilesOf(c)' = FilesOf(c)
              /\ \A g \in FoldersOf(c) : g \in Folder /\ folder'[g] = folder[g]
              /\ \A f \in FilesOf(c) : f \in File /\ file'[f] = file[f]
  <2>1. c \notin S /\ cab'[c] = cab[c]
    BY <1>4, <1>7, <1>13
  <2>2. /\ \A g \in FoldersOf(c) : g \in Folder /\ folder'[g] = folder[g]
        /\ \A f \in FilesOf(c) : f \in File /\ file'[f] = file[f]
    BY <1>10, <1>11, <1>13, ListFacts
  <2>3. SameOn(FolNext, FolNext', Items(cab[c].folders, FolNext))
    BY <2>2 DEF SameOn, FoldersOf, FolNext
  <2>4. SameOn(FilNext, FilNext', Items(cab[c].files, FilNext))
    BY <2>2 DEF SameOn, FilesOf, FilNext
  <2>5. cab[c].folders \in Folder \cup {NULL} /\ cab[c].files \in File \cup {NULL}
    BY <1>1 DEF TypeInv, TypeOK, Cabinet
  <2>6. Items(cab[c].folders, FolNext') = Items(cab[c].folders, FolNext)
    BY <1>12, <2>3, <2>5, ListLocal
  <2>7. Items(cab[c].files, FilNext') = Items(cab[c].files, FilNext)
    BY <1>12, <2>4, <2>5, ListLocal
  <2> QED
    BY <2>1, <2>2, <2>6, <2>7 DEF FoldersOf, FilesOf
<1>14. ASSUME NEW c \in S
       PROVE  /\ FoldersOf(c)' = {<<c, n>> : n \in 1..N(c)}
              /\ \E x \in FoldersOf(c)' : folder'[x].next = NULL
  <2>1. N(c) \in Nat /\ N(c) >= 1 /\ N(c) <= MaxFolders /\ MaxFolders \in Nat /\ c \in Cab
    BY <1>2, <1>3
  <2> DEFINE Q == 1..N(c)
  <2>2. Q \in SUBSET (1..MaxFolders) /\ Q # {} /\ Q \in SUBSET Nat
    BY <2>1
  <2>3. Least(Q) = 1
    <3>1. Least(Q) \in Q /\ \A j \in Q : Least(Q) <= j
      BY <2>2, LeastIsLeast
    <3>2. 1 \in Q
      BY <2>1
    <3> QED
      BY <3>1, <3>2
  <2>4. ASSUME NEW k \in Q
        PROVE  FolNext'[<<c, k>>] = LET later == {j \in Q : j > k}
                                    IN  IF later = {} THEN NULL ELSE <<c, Least(later)>>
    <3> DEFINE later == {j \in Q : j > k}
    <3>1. <<c, k>> \in Folder
      BY <2>1 DEF Folder
    <3>2. FolNext'[<<c, k>>] = IF k < N(c) THEN <<c, k + 1>> ELSE NULL
      <4>1. folder'[<<c, k>>] = NewFolder(c, img[c], k)
        BY <1>5, <2>1, <3>1
      <4> QED
        BY <3>1, <4>1 DEF FolNext, NewFolder, N
    <3>3. CASE k < N(c)
      <4>1. later \in SUBSET Nat /\ k + 1 \in later
        BY <2>1, <3>3
      <4>2. Least(later) \in later /\ \A j \in later : Least(later) <= j
        BY <4>1, LeastIsLeast
      <4>3. Least(later) = k + 1
        BY <2>1, <4>1, <4>2
      <4> QED
        BY <3>2, <3>3, <4>1, <4>3
    <3>4. CASE ~(k < N(c))
      <4>1. later = {}
        BY <2>1, <3>4
      <4> QED
        BY <3>2, <3>4, <4>1
    <3> QED
      BY <3>3, <3>4
  <2>9. ReadInOrder(FolNext', c, Q)
    BY <2>4 DEF ReadInOrder
  <2>10. Q \in SUBSET (1..MaxFolders) /\ Q # {} /\ MaxFolders \in Nat /\ c \in Cab
    BY <2>1, <2>2
  <2> HIDE DEF Q
  <2>6. /\ Items(<<c, Least(Q)>>, FolNext') = Entries(c, Q)
        /\ \E x \in Entries(c, Q) : FolNext'[x] = NULL
    BY <1>12, <2>9, <2>10, ReadFolders
  <2>7. Items(<<c, 1>>, FolNext') = FoldersOf(c)'
    BY <1>4 DEF FoldersOf
  <2>8. \A k \in Q : <<c, k>> \in Folder
    BY <2>1, <2>2 DEF Folder
  <2> QED
    BY <2>3, <2>6, <2>7, <2>8 DEF Q, FolNext, Entries
<1>15. ASSUME NEW c \in S
       PROVE  /\ FilesOf(c)' = {<<c, k>> : k \in K(c)}
              /\ \E x \in FilesOf(c)' : file'[x].next = NULL
  <2>1. K(c) \in SUBSET (1..MaxFiles) /\ K(c) # {} /\ MaxFiles \in Nat /\ c \in Cab
    BY <1>2, <1>3
  <2>2. ASSUME NEW k \in K(c)
        PROVE  FilNext'[<<c, k>>] = LET later == {j \in K(c) : j > k}
                                    IN  IF later = {} THEN NULL ELSE <<c, Least(later)>>
    <3>1. <<c, k>> \in File
      BY <2>1 DEF File
    <3>2. file'[<<c, k>>] = NewFile(c, img[c], k)
      BY <1>6, <3>1
    <3> QED
      BY <3>1, <3>2 DEF FilNext, NewFile, K
  <2>7. ReadInOrder(FilNext', c, K(c))
    BY <2>2 DEF ReadInOrder
  <2>4. /\ Items(<<c, Least(K(c))>>, FilNext') = Entries(c, K(c))
        /\ \E x \in Entries(c, K(c)) : FilNext'[x] = NULL
    BY <1>12, <2>1, <2>7, ReadFiles
  <2>5. Items(<<c, Least(K(c))>>, FilNext') = FilesOf(c)'
    BY <1>4 DEF FilesOf
  <2>6. \A k \in K(c) : <<c, k>> \in File
    BY <2>1 DEF File
  <2> QED
    BY <2>4, <2>5, <2>6 DEF FilNext, Entries
<1>16. SetsLinked'
  <2>1. \A c \in Cab : ~Open(c)' => cab'[c] = NoCab
    BY <1>1, <1>4, <1>7 DEF SetsLinked
  <2>2. \A c \in Cab : cab'[c].nextcab = cab[c].nextcab /\ cab'[c].prevcab = cab[c].prevcab
    BY <1>2, <1>4 DEF NoCab
  <2> QED
    BY <1>1, <2>1, <2>2 DEF SetsLinked
<1>17. \A c, d \in Cab : cab'[c].next = d =>
         /\ Open(d)' /\ c # d /\ cab'[d].next = NULL
         /\ \A e \in Cab : cab'[e].next = d => e = c
  <2> SUFFICES ASSUME NEW c \in Cab, NEW d \in Cab, cab'[c].next = d
               PROVE  /\ Open(d)' /\ c # d /\ cab'[d].next = NULL
                      /\ \A e \in Cab : cab'[e].next = d => e = c
    OBVIOUS
  <2>0. d # NULL
    BY FiniteHeap
  <2>1. CASE c \in S
    <3>1. succ[c] = d /\ d \in S /\ d # c /\ succ[d] = NULL /\ \A e \in S : succ[e] = d => e = c
      BY <1>4, <2>0, <2>1 DEF ShortChains
    <3>2. \A e \in Cab : e \notin S => cab'[e].next # d
      BY <1>1, <1>2, <1>4, <3>1 DEF ChainsKept
    <3>3. \A e \in S : cab'[e].next = succ[e]
      BY <1>4
    <3>4. Open(d)'
      BY <1>7, <3>1
    <3> QED
      BY <3>1, <3>2, <3>3, <3>4
  <2>2. CASE c \notin S
    <3>1. cab[c].next = d
      BY <1>4, <2>2
    <3>2. Open(d) /\ c # d /\ cab[d].next = NULL /\ \A e \in Cab : cab[e].next = d => e = c
      BY <1>1, <3>1 DEF ChainsKept
    <3>3. d \notin S
      BY <1>7, <3>2
    <3>4. \A e \in S : cab'[e].next # d
      BY <1>4, <2>0, <3>3 DEF ShortChains
    <3>5. \A e \in Cab \ S : cab'[e] = cab[e]
      BY <1>4
    <3> QED
      BY <1>7, <3>2, <3>3, <3>4, <3>5
  <2> QED
    BY <2>1, <2>2
<1>18. ASSUME NEW c \in Cab, Open(c)', NEW x \in SetOf(c)', NEW y \in SetOf(c)', InChain(x)', InChain(y)'
       PROVE  x = y
  <2>1. CASE c \in S
    BY <1>8, <1>9, <1>18, <2>1
  <2>2. CASE c \notin S
    <3>1. Open(c) /\ x \in SetOf(c) /\ y \in SetOf(c)
      BY <1>7, <1>8, <1>18, <2>2
    <3>2. \A z \in SetOf(c) : z \in Cab /\ Open(z) /\ z \notin S
      BY <1>1, <1>7, <3>1, SetFacts
    <3>3. ASSUME NEW z \in SetOf(c), InChain(z)' PROVE InChain(z)
      <4>1. cab'[z].next = cab[z].next
        BY <1>4, <3>2
      <4>2. \A p \in Cab : cab'[p].next = z => cab[p].next = z
        <5> TAKE p \in Cab
        <5> HAVE cab'[p].next = z
        <5>1. p \in S => succ[p] = z /\ z # NULL
          BY <1>4, <3>2, FiniteHeap
        <5>2. p \notin S
          BY <3>2, <5>1 DEF ShortChains
        <5> QED
          BY <1>4, <5>2
      <4> QED
        BY <3>3, <4>1, <4>2 DEF InChain
    <3> QED
      BY <1>1, <1>18, <3>1, <3>3 DEF ChainsKept
  <2> QED
    BY <2>1, <2>2
<1>19. ChainsKept'
  BY <1>17, <1>18 DEF ChainsKept
<1>20. ListsEnd'
  <2>1. \A c \in Cab : Open(c) => /\ \E x \in FoldersOf(c)' : folder'[x].next = NULL
                                  /\ \E x \in FilesOf(c)' : file'[x].next = NULL
    BY <1>1, <1>13 DEF ListsEnd
  <2> QED
    BY <1>7, <1>14, <1>15, <2>1 DEF ListsEnd
<1>21. ASSUME NEW c \in S, NEW g \in FoldersOf(c)'
       PROVE  /\ g \in Folder /\ g[1] = c /\ ~folder[g].live /\ folder'[g].live
              /\ folder'[g].data = <<c>>
  <2>1. PICK n \in 1..N(c) : g = <<c, n>>
    BY <1>14
  <2>2. n \in 1..MaxFolders /\ c \in Cab
    BY <1>2, <1>3
  <2>3. g \in Folder /\ g[1] = c /\ g[2] = n
    BY <2>1, <2>2 DEF Folder
  <2>4. folder'[g] = NewFolder(c, img[c], n)
    BY <1>5, <2>3
  <2> QED
    BY <1>2, <2>1, <2>2, <2>3, <2>4 DEF NewFolder
<1>22. ASSUME NEW c \in S, NEW f \in FilesOf(c)'
       PROVE  /\ f \in File /\ f[1] = c /\ ~file[f].live /\ file'[f].live
              /\ file'[f].folder \in FoldersOf(c)'
  <2>1. PICK k \in K(c) : f = <<c, k>>
    BY <1>15
  <2>2. k \in 1..MaxFiles /\ c \in Cab /\ img[c] \in Image
    BY <1>2, <1>3
  <2>3. f \in File /\ f[1] = c /\ f[2] = k
    BY <2>1, <2>2 DEF File
  <2>4. file'[f] = NewFile(c, img[c], k)
    BY <1>6, <2>3
  <2>5. EntryFolder(img[c], k) \in 1..N(c)
    BY <2>2, EntryFolderListed DEF K, N
  <2> QED
    BY <1>2, <1>14, <2>1, <2>2, <2>3, <2>4, <2>5 DEF NewFile
<1>23. PartsInSet'
  <2> SUFFICES ASSUME NEW c \in Cab, Open(c)', NEW g \in FoldersOf(c)'
               PROVE  folder'[g].data # <<>> /\ \A n \in DOMAIN folder'[g].data : folder'[g].data[n] \in SetOf(c)'
    BY DEF PartsInSet
  <2>1. CASE c \in S
    <3>1. folder'[g].data = <<c>>
      BY <1>21, <2>1
    <3> QED
      BY <1>8, <1>9, <2>1, <3>1
  <2>2. CASE c \notin S
    BY <1>1, <1>7, <1>8, <1>13, <2>2 DEF PartsInSet
  <2> QED
    BY <2>1, <2>2
<1>24. FilesPointIntoSet'
  <2>1. \A c \in Cab : Open(c) => \A f \in FilesOf(c) : file'[f].folder \in FoldersOf(c)
    BY <1>1, <1>13 DEF FilesPointIntoSet
  <2> QED
    BY <1>7, <1>13, <1>22, <2>1 DEF FilesPointIntoSet
<1>25. SetSharesLists'
  <2> SUFFICES ASSUME NEW c \in Cab, NEW d \in Cab, Open(c)', Open(d)'
               PROVE  IF d \in SetOf(c)'
                        THEN cab'[c].files = cab'[d].files /\ cab'[c].folders = cab'[d].folders
                        ELSE FoldersOf(c)' \cap FoldersOf(d)' = {}
    BY DEF SetSharesLists
  <2>1. CASE c \in S /\ d \in S
    BY <1>8, <1>9, <1>21, <2>1
  <2>2. CASE c \in S /\ d \notin S
    <3>1. Open(d) /\ d \notin SetOf(c)'
      BY <1>7, <1>8, <1>9, <2>2
    <3>2. \A g \in FoldersOf(d)' : folder[g].live
      BY <1>13, <3>1, ListFacts
    <3> QED
      BY <1>21, <2>2, <3>1, <3>2
  <2>3. CASE c \notin S /\ d \in S
    <3>1. Open(c) /\ d \notin SetOf(c)'
      BY <1>1, <1>7, <1>8, <2>3, SetFacts
    <3>2. \A g \in FoldersOf(c)' : folder[g].live
      BY <1>13, <3>1, ListFacts
    <3> QED
      BY <1>21, <2>3, <3>1, <3>2
  <2>4. CASE c \notin S /\ d \notin S
    <3>1. Open(c) /\ Open(d)
      BY <1>7, <2>4
    <3>2. IF d \in SetOf(c)
            THEN cab[c].files = cab[d].files /\ cab[c].folders = cab[d].folders
            ELSE FoldersOf(c) \cap FoldersOf(d) = {}
      BY <1>1, <3>1 DEF SetSharesLists
    <3> QED
      BY <1>8, <1>13, <3>1, <3>2
  <2> QED
    BY <2>1, <2>2, <2>3, <2>4
<1>26. {g \in Folder : folder'[g].live} = UNION {FoldersOf(c)' : c \in {x \in Cab : Open(x)'}}
  <2>1. ASSUME NEW g \in Folder, folder'[g].live
        PROVE  \E c \in Cab : Open(c)' /\ g \in FoldersOf(c)'
    <3>1. CASE folder[g].live
      <4>1. PICK c \in Cab : Open(c) /\ g \in FoldersOf(c)
        BY <3>1, LiveIsListed
      <4> QED
        BY <1>7, <1>13, <4>1
    <3>2. CASE ~folder[g].live
      <4>1. g[1] \in S /\ g[2] \in 1..N(g[1])
        BY <1>5, <2>1, <3>2
      <4>2. g = <<g[1], g[2]>>
        BY DEF Folder
      <4> QED
        BY <1>2, <1>7, <1>14, <4>1, <4>2
    <3> QED
      BY <3>1, <3>2
  <2>2. ASSUME NEW c \in Cab, Open(c)', NEW g \in FoldersOf(c)'
        PROVE  g \in Folder /\ folder'[g].live
    <3>1. CASE c \in S
      BY <1>21, <3>1
    <3>2. CASE c \notin S
      <4>1. Open(c)
        BY <1>7, <2>2, <3>2
      <4> QED
        BY <1>13, <2>2, <4>1, ListFacts
    <3> QED
      BY <3>1, <3>2
  <2> QED
    BY <2>1, <2>2
<1>27. {f \in File : file'[f].live} = UNION {FilesOf(c)' : c \in {x \in Cab : Open(x)'}}
  <2>1. ASSUME NEW g \in File, file'[g].live
        PROVE  \E c \in Cab : Open(c)' /\ g \in FilesOf(c)'
    <3>1. CASE file[g].live
      <4>1. PICK c \in Cab : Open(c) /\ g \in FilesOf(c)
        BY <3>1, LiveIsListed
      <4> QED
        BY <1>7, <1>13, <4>1
    <3>2. CASE ~file[g].live
      <4>1. g[1] \in S /\ g[2] \in K(g[1])
        BY <1>6, <2>1, <3>2
      <4>2. g = <<g[1], g[2]>>
        BY DEF File
      <4> QED
        BY <1>2, <1>7, <1>15, <4>1, <4>2
    <3> QED
      BY <3>1, <3>2
  <2>2. ASSUME NEW c \in Cab, Open(c)', NEW g \in FilesOf(c)'
        PROVE  g \in File /\ file'[g].live
    <3>1. CASE c \in S
      BY <1>22, <3>1
    <3>2. CASE c \notin S
      <4>1. Open(c)
        BY <1>7, <2>2, <3>2
      <4> QED
        BY <1>13, <2>2, <4>1, ListFacts
    <3> QED
      BY <3>1, <3>2
  <2> QED
    BY <2>1, <2>2
<1>28. ListsHoldTheHeap'
  BY <1>26, <1>27 DEF ListsHoldTheHeap
<1>29. Graph'
  BY <1>16, <1>19, <1>20, <1>23, <1>24, <1>25, <1>28 DEF Graph
<1> QED
  BY <1>4, <1>5, <1>6, <1>8, <1>14, <1>15, <1>29 DEF N, K

-----------------------------------------------------------------------------
(* Joining keeps it (cabd_merge).                                           *)

\* What joining does to the sets (cabd_merge, "fix files and folders pointers").
LEMMA JoinedSets ==
  ASSUME Graph, NEW l \in Cab, NEW r \in Cab, Open(l), Open(r), ~BadArgs(l, r), Attach(l, r)
  PROVE  /\ SetOf(l) \cap SetOf(r) = {}
         /\ SetsLinked'
         /\ \A c \in Cab : /\ Open(c)' <=> Open(c)
                           /\ cab'[c].next = cab[c].next /\ cab'[c].img = cab[c].img
                           /\ cab'[c].nextcab = IF c = l THEN r ELSE cab[c].nextcab
                           /\ cab'[c].prevcab = IF c = r THEN l ELSE cab[c].prevcab
         /\ \A c \in SetOf(l) \cup SetOf(r) :
              /\ SetOf(c)' = SetOf(l) \cup SetOf(r)
              /\ cab'[c].files = cab[l].files /\ cab'[c].folders = cab[l].folders
         /\ \A c \in Cab \ (SetOf(l) \cup SetOf(r)) : cab'[c] = cab[c] /\ SetOf(c)' = SetOf(c)
<1> DEFINE left == Items(l, PrevOf)
           right == Items(r, NextOf)
<1>1. TypeInv /\ SetsLinked
  BY DEF Graph
<1>2. /\ l # r /\ cab[l].nextcab = NULL /\ cab[r].prevcab = NULL
      /\ r \notin Items(cab[l].prevcab, PrevOf) /\ l \notin Items(cab[r].nextcab, NextOf)
  BY DEF BadArgs
<1>3. BothWays(NextOf, PrevOf, Cab) /\ Links(NextOf, Cab) /\ Links(PrevOf, Cab)
  BY <1>1, SetWays, HeapLinks
<1>4. /\ NextOf[l] = NULL /\ PrevOf[r] = NULL
      /\ PrevOf[l] = cab[l].prevcab /\ NextOf[r] = cab[r].nextcab
  BY <1>2 DEF NextOf, PrevOf
<1>5. r \notin left /\ l \notin right
  <2>1. left = {l} \cup Items(PrevOf[l], PrevOf) /\ right = {r} \cup Items(NextOf[r], NextOf)
    BY <1>3, ListUnfolds
  <2> QED
    BY <1>2, <1>4, <2>1
<1>6. l \in left /\ r \in right /\ left \subseteq Cab /\ right \subseteq Cab
  BY <1>3, FiniteHeap, ListBasics
<1>7. cab' = [c \in Cab |->
        IF c \notin left \cup right THEN cab[c]
        ELSE [cab[c] EXCEPT !.nextcab = IF c = l THEN r ELSE @,
                            !.prevcab = IF c = r THEN l ELSE @,
                            !.files = cab[l].files,
                            !.folders = cab[l].folders]]
  BY DEF Attach
<1> HIDE DEF left, right
<1>8. cab \in [Cab -> Cabinet]
  BY <1>1 DEF TypeInv, TypeOK
<1>9. \A c \in Cab : cab'[c].next = cab[c].next /\ cab'[c].img = cab[c].img
  BY <1>7, <1>8 DEF Cabinet
<1>10. \A c \in Cab : /\ cab'[c].nextcab = IF c = l THEN r ELSE cab[c].nextcab
                      /\ cab'[c].prevcab = IF c = r THEN l ELSE cab[c].prevcab
  BY <1>6, <1>7, <1>8 DEF Cabinet
<1>11. \A c \in left \cup right : cab'[c].files = cab[l].files /\ cab'[c].folders = cab[l].folders
  BY <1>6, <1>7, <1>8 DEF Cabinet
<1>12. \A c \in Cab \ (left \cup right) : cab'[c] = cab[c]
  BY <1>7
<1>13. NextOf' = [NextOf EXCEPT ![l] = r] /\ PrevOf' = [PrevOf EXCEPT ![r] = l]
  BY <1>10 DEF NextOf, PrevOf
<1>14. /\ BothWays(NextOf', PrevOf', Cab)
       /\ left = Items(l, PrevOf) \cup Items(l, NextOf)
       /\ right = Items(r, PrevOf) \cup Items(r, NextOf)
       /\ left \cap right = {}
       /\ \A c \in left : Items(c, PrevOf') \cup Items(c, NextOf') = left \cup right
       /\ \A c \in right : Items(c, PrevOf') \cup Items(c, NextOf') = left \cup right
       /\ \A c \in Cab \ (left \cup right) :
              Items(c, NextOf') = Items(c, NextOf) /\ Items(c, PrevOf') = Items(c, PrevOf)
  <2>1. EndToEnd(Cab, NextOf, PrevOf, NextOf', PrevOf', l, r)
    BY <1>3, <1>4, <1>5, <1>13 DEF EndToEnd, left, right
  <2>2. /\ Joining(Cab, NextOf, PrevOf, NextOf', PrevOf', Items(l, PrevOf), Items(r, NextOf))
        /\ Items(l, PrevOf) = Items(l, PrevOf) \cup Items(l, NextOf)
        /\ Items(r, NextOf) = Items(r, PrevOf) \cup Items(r, NextOf)
        /\ Items(l, PrevOf) \cap Items(r, NextOf) = {}
    BY <2>1, JoinedSet
  <2> QED
    BY <2>2 DEF Joining, left, right
<1>15. left = SetOf(l) /\ right = SetOf(r)
  BY <1>14 DEF SetOf
<1>16. \A c \in Cab : SetOf(c)' = Items(c, PrevOf') \cup Items(c, NextOf')
  BY DEF SetOf
<1>17. \A c \in Cab : Open(c)' <=> Open(c)
  BY <1>9 DEF Open
<1>18. SetsLinked'
  <2>1. \A c, d \in Cab : cab'[c].nextcab = d <=> cab'[d].prevcab = c
    BY <1>14 DEF BothWays, NextOf, PrevOf
  <2>2. \A c \in Cab : ~Open(c) => cab'[c] = cab[c]
    <3>1. \A c \in left \cup right : Open(c)
      BY <1>1, <1>15, SetFacts
    <3> QED
      BY <1>12, <3>1
  <2> QED
    BY <1>1, <1>17, <2>1, <2>2 DEF SetsLinked
<1>19. \A c \in left \cup right : SetOf(c)' = left \cup right
  BY <1>6, <1>14, <1>16
<1>20. \A c \in Cab \ (left \cup right) : SetOf(c)' = SetOf(c)
  BY <1>14, <1>16 DEF SetOf
<1> QED
  BY <1>9, <1>10, <1>11, <1>12, <1>14, <1>15, <1>17, <1>18, <1>19, <1>20

LEMMA AtMostOne ==
  ASSUME NEW S, IsFiniteSet(S), Cardinality(S) <= 1, NEW x \in S, NEW y \in S
  PROVE  x = y
<1> SUFFICES ASSUME x # y PROVE FALSE
  OBVIOUS
<1>1. IsFiniteSet({x}) /\ Cardinality({x}) = 1
  BY FS_Singleton
<1>2. {x} \in SUBSET S /\ {x} # S
  OBVIOUS
<1>3. Cardinality({x}) <= Cardinality(S) /\ (Cardinality(S) = Cardinality({x}) => S = {x})
  BY <1>2, FS_Subset
<1>4. Cardinality(S) \in Nat
  BY FS_CardinalityType
<1> QED
  BY <1>1, <1>2, <1>3, <1>4

\* A caller that keeps to the documentation joins at most one cabinet of a chain.
LEMMA JoinedChains ==
  ASSUME Graph, ~JoinChains, NEW l \in Cab, NEW r \in Cab, MayJoin(l, r), ~BadArgs(l, r), Attach(l, r)
  PROVE  ChainsKept'
<1> USE DEF Graph
<1>1. Open(l) /\ Open(r) /\ Cardinality({x \in SetOf(l) \cup SetOf(r) : InChain(x)}) <= 1
  BY DEF MayJoin
<1>2. /\ \A c \in Cab : cab'[c].next = cab[c].next /\ (Open(c)' <=> Open(c))
      /\ \A c \in SetOf(l) \cup SetOf(r) : SetOf(c)' = SetOf(l) \cup SetOf(r)
      /\ \A c \in Cab \ (SetOf(l) \cup SetOf(r)) : SetOf(c)' = SetOf(c)
  BY <1>1, JoinedSets
<1>3. SetOf(l) \subseteq Cab /\ SetOf(r) \subseteq Cab
  BY SetFacts
<1>4. \A x \in Cab : InChain(x)' <=> InChain(x)
  BY <1>2 DEF InChain
<1>5. \A x, y \in SetOf(l) \cup SetOf(r) : InChain(x) /\ InChain(y) => x = y
  <2> DEFINE S == {x \in SetOf(l) \cup SetOf(r) : InChain(x)}
  <2>1. S \in SUBSET Cab
    BY <1>3
  <2>2. IsFiniteSet(S)
    BY <2>1, FiniteHeap, FS_Subset
  <2>3. \A x, y \in S : x = y
    <3>1. Cardinality(S) <= 1
      BY <1>1
    <3> HIDE DEF S
    <3> QED
      BY <2>2, <3>1, AtMostOne
  <2> QED
    BY <2>3
<1>6. \A c, d \in Cab : cab'[c].next = d =>
         Open(d)' /\ c # d /\ cab'[d].next = NULL /\ \A e \in Cab : cab'[e].next = d => e = c
  BY <1>2 DEF ChainsKept
<1>7. ASSUME NEW c \in Cab, Open(c)', NEW x \in SetOf(c)', NEW y \in SetOf(c)', InChain(x)', InChain(y)'
      PROVE  x = y
  <2>1. CASE c \in SetOf(l) \cup SetOf(r)
    BY <1>2, <1>3, <1>4, <1>5, <1>7, <2>1
  <2>2. CASE c \notin SetOf(l) \cup SetOf(r)
    <3>1. SetOf(c)' = SetOf(c) /\ Open(c) /\ SetOf(c) \subseteq Cab
      BY <1>2, <1>7, <2>2, SetFacts
    <3> QED
      BY <1>4, <1>7, <3>1 DEF ChainsKept
  <2> QED
    BY <2>1, <2>2
<1> QED
  BY <1>6, <1>7 DEF ChainsKept

\* What cabd_merge does to the lists: afterwards the joined cabinets share one of
\* each, without the folders goneFol and the files goneFil, and nothing else changes.
ListsJoined(l, r, goneFol, goneFil) ==
  LET joined == SetOf(l) \cup SetOf(r) IN
  /\ \A c \in joined :
       /\ FoldersOf(c)' = (FoldersOf(l) \cup FoldersOf(r)) \ goneFol
       /\ FilesOf(c)' = (FilesOf(l) \cup FilesOf(r)) \ goneFil
       /\ \E x \in FoldersOf(c)' : folder'[x].next = NULL
       /\ \E x \in FilesOf(c)' : file'[x].next = NULL
       /\ \A g \in FoldersOf(c)' :
            folder'[g].data # <<>> /\ \A n \in DOMAIN folder'[g].data : folder'[g].data[n] \in joined
  /\ \A c \in Cab \ joined : Open(c) =>
       /\ FoldersOf(c)' = FoldersOf(c) /\ FilesOf(c)' = FilesOf(c)
       /\ \A g \in FoldersOf(c) : folder'[g] = folder[g]
       /\ \A f \in FilesOf(c) : file'[f] = file[f]
  /\ goneFol \subseteq FoldersOf(r) /\ goneFil \subseteq FilesOf(r)
  /\ \A g \in Folder : folder'[g].live <=> folder[g].live /\ g \notin goneFol
  /\ \A f \in File : file'[f].live <=> file[f].live /\ f \notin goneFil
  /\ \A f \in (FilesOf(l) \cup FilesOf(r)) \ goneFil :
       file'[f].folder = file[f].folder /\ file[f].folder \notin goneFol

LEMMA JoinGraph ==
  ASSUME Graph, TypeInv', ~JoinChains, NEW l \in Cab, NEW r \in Cab,
         MayJoin(l, r), ~BadArgs(l, r), Attach(l, r),
         NEW goneFol, NEW goneFil, ListsJoined(l, r, goneFol, goneFil)
  PROVE  Graph'
<1> DEFINE joined == SetOf(l) \cup SetOf(r)
<1>1. /\ TypeInv /\ ListsEnd /\ SetsLinked /\ ChainsKept /\ PartsInSet
      /\ ListsHoldTheHeap /\ SetSharesLists /\ FilesPointIntoSet
  BY DEF Graph
<1>2. Open(l) /\ Open(r)
  BY DEF MayJoin
<1>3. /\ SetOf(l) \cap SetOf(r) = {} /\ SetsLinked'
      /\ \A c \in Cab : Open(c)' <=> Open(c)
      /\ \A c \in joined : /\ SetOf(c)' = joined
                           /\ cab'[c].files = cab[l].files /\ cab'[c].folders = cab[l].folders
      /\ \A c \in Cab \ joined : cab'[c] = cab[c] /\ SetOf(c)' = SetOf(c)
  BY <1>2, JoinedSets
<1>4. joined \subseteq Cab /\ \A c \in joined : Open(c)
  BY <1>1, <1>2, SetFacts
<1>4a. l \in joined /\ r \in joined
  BY <1>1, SetFacts
<1>5. ChainsKept'
  BY JoinedChains
<1>6. /\ \A c \in joined :
           /\ FoldersOf(c)' = (FoldersOf(l) \cup FoldersOf(r)) \ goneFol
           /\ FilesOf(c)' = (FilesOf(l) \cup FilesOf(r)) \ goneFil
           /\ \E x \in FoldersOf(c)' : folder'[x].next = NULL
           /\ \E x \in FilesOf(c)' : file'[x].next = NULL
           /\ \A g \in FoldersOf(c)' :
                folder'[g].data # <<>> /\ \A n \in DOMAIN folder'[g].data : folder'[g].data[n] \in joined
      /\ \A c \in Cab \ joined : Open(c) =>
           /\ FoldersOf(c)' = FoldersOf(c) /\ FilesOf(c)' = FilesOf(c)
           /\ \A g \in FoldersOf(c) : folder'[g] = folder[g]
           /\ \A f \in FilesOf(c) : file'[f] = file[f]
      /\ goneFol \subseteq FoldersOf(r) /\ goneFil \subseteq FilesOf(r)
      /\ \A g \in Folder : folder'[g].live <=> folder[g].live /\ g \notin goneFol
      /\ \A f \in File : file'[f].live <=> file[f].live /\ f \notin goneFil
      /\ \A f \in (FilesOf(l) \cup FilesOf(r)) \ goneFil :
           file'[f].folder = file[f].folder /\ file[f].folder \notin goneFol
  BY DEF ListsJoined
<1>7. \A c \in Cab \ joined : Open(c) =>
        /\ FoldersOf(c) \cap (FoldersOf(l) \cup FoldersOf(r)) = {}
        /\ FilesOf(c) \cap (FilesOf(l) \cup FilesOf(r)) = {}
  BY <1>2, SetsApart
<1>8. \A c \in joined : \/ FoldersOf(c) = FoldersOf(l) /\ FilesOf(c) = FilesOf(l)
                        \/ FoldersOf(c) = FoldersOf(r) /\ FilesOf(c) = FilesOf(r)
  BY <1>2, <1>4, SetsApart
<1> HIDE DEF joined
<1>9. ListsEnd'
  <2>1. \A c \in Cab \ joined : Open(c) => /\ \E x \in FoldersOf(c)' : folder'[x].next = NULL
                                           /\ \E x \in FilesOf(c)' : file'[x].next = NULL
    BY <1>1, <1>6 DEF ListsEnd
  <2> QED
    BY <1>3, <1>6, <2>1 DEF ListsEnd
<1>10. PartsInSet'
  <2>1. ASSUME NEW c \in Cab \ joined, Open(c), NEW g \in FoldersOf(c)'
        PROVE  folder'[g].data # <<>> /\ \A n \in DOMAIN folder'[g].data : folder'[g].data[n] \in SetOf(c)'
    <3>1. folder'[g] = folder[g] /\ g \in FoldersOf(c)
      BY <1>6, <2>1
    <3> QED
      BY <1>1, <1>3, <2>1, <3>1 DEF PartsInSet
  <2>2. ASSUME NEW c \in joined, NEW g \in FoldersOf(c)'
        PROVE  folder'[g].data # <<>> /\ \A n \in DOMAIN folder'[g].data : folder'[g].data[n] \in SetOf(c)'
    BY <1>3, <1>6, <2>2
  <2> QED
    BY <1>3, <2>1, <2>2 DEF PartsInSet
<1>11. FilesPointIntoSet'
  <2>1. ASSUME NEW c \in Cab \ joined, Open(c), NEW f \in FilesOf(c)'
        PROVE  file'[f].folder \in FoldersOf(c)'
    <3>1. file'[f] = file[f] /\ f \in FilesOf(c) /\ FoldersOf(c)' = FoldersOf(c)
      BY <1>6, <2>1
    <3> QED
      BY <1>1, <2>1, <3>1 DEF FilesPointIntoSet
  <2>2. ASSUME NEW c \in joined, NEW f \in FilesOf(c)'
        PROVE  file'[f].folder \in FoldersOf(c)'
    <3>1. f \in (FilesOf(l) \cup FilesOf(r)) \ goneFil
      BY <1>6, <2>2
    <3>2. file[f].folder \in FoldersOf(l) \cup FoldersOf(r)
      BY <1>1, <1>2, <3>1 DEF FilesPointIntoSet
    <3>3. file'[f].folder = file[f].folder /\ file[f].folder \notin goneFol
      BY <1>6, <3>1
    <3> QED
      BY <1>6, <3>2, <3>3
  <2> QED
    BY <1>3, <2>1, <2>2 DEF FilesPointIntoSet
<1>12. SetSharesLists'
  <2> SUFFICES ASSUME NEW c \in Cab, NEW d \in Cab, Open(c), Open(d)
               PROVE  IF d \in SetOf(c)'
                        THEN cab'[c].files = cab'[d].files /\ cab'[c].folders = cab'[d].folders
                        ELSE FoldersOf(c)' \cap FoldersOf(d)' = {}
    BY <1>3 DEF SetSharesLists
  <2>0. IF d \in SetOf(c)
          THEN cab[c].files = cab[d].files /\ cab[c].folders = cab[d].folders
          ELSE FoldersOf(c) \cap FoldersOf(d) = {}
    BY <1>1 DEF SetSharesLists
  <2>1. CASE c \in joined /\ d \in joined
    BY <1>3, <2>1
  <2>2. CASE c \in joined /\ d \notin joined
    BY <1>3, <1>6, <1>7, <2>2
  <2>3. CASE c \notin joined /\ d \in joined
    <3>1. d \notin SetOf(c)
      <4>1. d \in SetOf(c) => c \in SetOf(d)
        BY <1>1, SetFacts
      <4>2. SetOf(d) = SetOf(l) \/ SetOf(d) = SetOf(r)
        BY <1>1, <2>3, SetFacts DEF joined
      <4> QED
        BY <2>3, <4>1, <4>2 DEF joined
    <3> QED
      BY <1>3, <1>6, <1>7, <2>3, <3>1
  <2>4. CASE c \notin joined /\ d \notin joined
    BY <1>3, <1>6, <2>0, <2>4
  <2> QED
    BY <2>1, <2>2, <2>3, <2>4
<1>13. {g \in Folder : folder'[g].live} = UNION {FoldersOf(c)' : c \in {x \in Cab : Open(x)'}}
  <2>1. ASSUME NEW g \in Folder, folder'[g].live
        PROVE  \E c \in Cab : Open(c)' /\ g \in FoldersOf(c)'
    <3>1. folder[g].live /\ g \notin goneFol
      BY <1>6, <2>1
    <3>2. PICK c \in Cab : Open(c) /\ g \in FoldersOf(c)
      BY <3>1, LiveIsListed
    <3>3. CASE c \in joined
      BY <1>2, <1>3, <1>4a, <1>6, <1>8, <3>1, <3>2, <3>3
    <3>4. CASE c \notin joined
      BY <1>3, <1>6, <3>2, <3>4
    <3> QED
      BY <3>3, <3>4
  <2>2. ASSUME NEW c \in Cab, Open(c)', NEW g \in FoldersOf(c)'
        PROVE  g \in Folder /\ folder'[g].live
    <3>0. Open(c)
      BY <1>3, <2>2
    <3>1. CASE c \in joined
      <4>1. g \in FoldersOf(l) \cup FoldersOf(r) /\ g \notin goneFol
        BY <1>6, <2>2, <3>1
      <4>2. g \in Folder /\ folder[g].live
        BY <1>2, <4>1, ListFacts
      <4> QED
        BY <1>6, <4>1, <4>2
    <3>2. CASE c \notin joined
      <4>1. g \in FoldersOf(c) /\ folder'[g] = folder[g]
        BY <1>6, <2>2, <3>0, <3>2
      <4> QED
        BY <3>0, <4>1, ListFacts
    <3> QED
      BY <3>1, <3>2
  <2> QED
    BY <2>1, <2>2
<1>14. {f \in File : file'[f].live} = UNION {FilesOf(c)' : c \in {x \in Cab : Open(x)'}}
  <2>1. ASSUME NEW g \in File, file'[g].live
        PROVE  \E c \in Cab : Open(c)' /\ g \in FilesOf(c)'
    <3>1. file[g].live /\ g \notin goneFil
      BY <1>6, <2>1
    <3>2. PICK c \in Cab : Open(c) /\ g \in FilesOf(c)
      BY <3>1, LiveIsListed
    <3>3. CASE c \in joined
      BY <1>2, <1>3, <1>4a, <1>6, <1>8, <3>1, <3>2, <3>3
    <3>4. CASE c \notin joined
      BY <1>3, <1>6, <3>2, <3>4
    <3> QED
      BY <3>3, <3>4
  <2>2. ASSUME NEW c \in Cab, Open(c)', NEW g \in FilesOf(c)'
        PROVE  g \in File /\ file'[g].live
    <3>0. Open(c)
      BY <1>3, <2>2
    <3>1. CASE c \in joined
      <4>1. g \in FilesOf(l) \cup FilesOf(r) /\ g \notin goneFil
        BY <1>6, <2>2, <3>1
      <4>2. g \in File /\ file[g].live
        BY <1>2, <4>1, ListFacts
      <4> QED
        BY <1>6, <4>1, <4>2
    <3>2. CASE c \notin joined
      <4>1. g \in FilesOf(c) /\ file'[g] = file[g]
        BY <1>6, <2>2, <3>0, <3>2
      <4> QED
        BY <3>0, <4>1, ListFacts
    <3> QED
      BY <3>1, <3>2
  <2> QED
    BY <2>1, <2>2
<1>15. ListsHoldTheHeap'
  BY <1>13, <1>14 DEF ListsHoldTheHeap
<1> QED
  BY <1>3, <1>5, <1>9, <1>10, <1>11, <1>12, <1>15 DEF Graph

\* The last folder and file of an open cabinet, where cabd_merge hangs the other lists.
LEMMA LastsFound ==
  ASSUME Graph, NEW c \in Cab, Open(c)
  PROVE  /\ LeftFolder(c) \in FoldersOf(c) /\ folder[LeftFolder(c)].next = NULL
         /\ LastOf(cab[c].files, FilNext) \in FilesOf(c)
         /\ file[LastOf(cab[c].files, FilNext)].next = NULL
         /\ \A g \in FoldersOf(c) : folder[g].next = NULL => g = LeftFolder(c)
         /\ \A f \in FilesOf(c) : file[f].next = NULL => f = LastOf(cab[c].files, FilNext)
         /\ cab[c].folders \in Folder /\ cab[c].files \in File
         /\ cab[c].folders \notin Items(folder[cab[c].folders].next, FolNext)
<1>1. Links(FolNext, Folder) /\ Links(FilNext, File)
  BY HeapLinks DEF Graph
<1>2. /\ FoldersOf(c) \subseteq Folder /\ FilesOf(c) \subseteq File
      /\ cab[c].folders \in FoldersOf(c) /\ cab[c].files \in FilesOf(c)
  BY ListFacts
<1>3. PICK x \in FoldersOf(c) : folder[x].next = NULL
  BY DEF Graph, ListsEnd
<1>4. PICK y \in FilesOf(c) : file[y].next = NULL
  BY DEF Graph, ListsEnd
<1>5. \A g \in Folder : FolNext[g] = folder[g].next
  BY DEF FolNext
<1>6. \A f \in File : FilNext[f] = file[f].next
  BY DEF FilNext
<1>7. /\ \A g \in FoldersOf(c) : FolNext[g] = NULL => g = x
      /\ LeftFolder(c) = x
      /\ cab[c].folders \notin Items(FolNext[cab[c].folders], FolNext)
  <2>1. /\ cab[c].folders \in Folder \cup {NULL}
        /\ x \in Items(cab[c].folders, FolNext) /\ FolNext[x] = NULL
    BY <1>2, <1>3, <1>5 DEF FoldersOf
  <2>2. /\ \A g \in Items(cab[c].folders, FolNext) : FolNext[g] = NULL => g = x
        /\ LastOf(cab[c].folders, FolNext) = x
        /\ cab[c].folders \notin Items(FolNext[cab[c].folders], FolNext)
    BY <1>1, <2>1, ListEndsOnce
  <2> QED
    BY <2>2 DEF LeftFolder, FoldersOf
<1>8. /\ \A f \in FilesOf(c) : FilNext[f] = NULL => f = y
      /\ LastOf(cab[c].files, FilNext) = y
  <2>1. /\ cab[c].files \in File \cup {NULL}
        /\ y \in Items(cab[c].files, FilNext) /\ FilNext[y] = NULL
    BY <1>2, <1>4, <1>6 DEF FilesOf
  <2>2. /\ \A g \in Items(cab[c].files, FilNext) : FilNext[g] = NULL => g = y
        /\ LastOf(cab[c].files, FilNext) = y
    BY <1>1, <2>1, ListEndsOnce
  <2> QED
    BY <2>2 DEF FilesOf
<1> QED
  BY <1>2, <1>3, <1>4, <1>5, <1>6, <1>7, <1>8

\* Only the objects of the two sets change: every other set keeps its lists.
LEMMA OthersKeepTheirs ==
  ASSUME Graph, TypeInv', NEW l \in Cab, NEW r \in Cab, Open(l), Open(r),
         NEW c \in Cab, Open(c), c \notin SetOf(l), c \notin SetOf(r), cab'[c] = cab[c],
         \A g \in Folder \ (FoldersOf(l) \cup FoldersOf(r)) : folder'[g] = folder[g],
         \A f \in File \ (FilesOf(l) \cup FilesOf(r)) : file'[f] = file[f]
  PROVE  /\ FoldersOf(c)' = FoldersOf(c) /\ FilesOf(c)' = FilesOf(c)
         /\ \A g \in FoldersOf(c) : folder'[g] = folder[g]
         /\ \A f \in FilesOf(c) : file'[f] = file[f]
<1>1. /\ FoldersOf(l) \cap FoldersOf(c) = {} /\ FilesOf(l) \cap FilesOf(c) = {}
      /\ FoldersOf(r) \cap FoldersOf(c) = {} /\ FilesOf(r) \cap FilesOf(c) = {}
  BY SetsApart
<1>2. FoldersOf(c) \subseteq Folder /\ FilesOf(c) \subseteq File
  BY ListFacts
<1>3. /\ \A g \in FoldersOf(c) : folder'[g] = folder[g]
      /\ \A f \in FilesOf(c) : file'[f] = file[f]
  BY <1>1, <1>2
<1>4. /\ Links(FolNext, Folder) /\ Links(FilNext, File)
      /\ Links(FolNext', Folder) /\ Links(FilNext', File)
  BY HeapLinks, HeapLinksAfter DEF Graph
<1>5. /\ cab[c].folders \in Folder \cup {NULL} /\ cab[c].files \in File \cup {NULL}
  BY LastsFound
<1>6. FoldersOf(c)' = FoldersOf(c)
  <2>1. SameOn(FolNext, FolNext', Items(cab[c].folders, FolNext))
    BY <1>2, <1>3 DEF SameOn, FoldersOf, FolNext
  <2>2. Items(cab[c].folders, FolNext') = Items(cab[c].folders, FolNext)
    BY <1>4, <1>5, <2>1, ListLocal
  <2> QED
    BY <2>2 DEF FoldersOf
<1>7. FilesOf(c)' = FilesOf(c)
  <2>1. SameOn(FilNext, FilNext', Items(cab[c].files, FilNext))
    BY <1>2, <1>3 DEF SameOn, FilesOf, FilNext
  <2>2. Items(cab[c].files, FilNext') = Items(cab[c].files, FilNext)
    BY <1>4, <1>5, <2>1, ListLocal
  <2> QED
    BY <2>2 DEF FilesOf
<1> QED
  BY <1>3, <1>6, <1>7

\* Two joinable cabinets lie in different sets, with nothing in common.
LEMMA JoinableApart ==
  ASSUME Graph, NEW l \in Cab, NEW r \in Cab, Open(l), Open(r), ~BadArgs(l, r), Attach(l, r)
  PROVE  /\ FoldersOf(l) \cap FoldersOf(r) = {} /\ FilesOf(l) \cap FilesOf(r) = {}
         /\ cab'[l].folders = cab[l].folders /\ cab'[l].files = cab[l].files
         /\ \A c \in SetOf(l) \cup SetOf(r) : FoldersOf(c)' = FoldersOf(l)' /\ FilesOf(c)' = FilesOf(l)'
<1>1. /\ SetOf(l) \cap SetOf(r) = {}
      /\ \A c \in SetOf(l) \cup SetOf(r) : cab'[c].files = cab[l].files /\ cab'[c].folders = cab[l].folders
  BY JoinedSets
<1>2. l \in SetOf(l) /\ r \in SetOf(r)
  BY SetFacts DEF Graph
<1>3. r \notin SetOf(l)
  BY <1>1, <1>2
<1>4. FoldersOf(l) \cap FoldersOf(r) = {} /\ FilesOf(l) \cap FilesOf(r) = {}
  BY <1>3, SetsApart
<1> QED
  BY <1>1, <1>2, <1>4 DEF FoldersOf, FilesOf

\* Joining at a clean joint.
LEMMA MergePlainGraph ==
  ASSUME Graph, TypeInv', ~JoinChains, NEW l \in Cab, NEW r \in Cab, MergePlain(l, r)
  PROVE  Graph'
<1> DEFINE lf == LeftFolder(l)
           last == LastOf(cab[l].files, FilNext)
           joined == SetOf(l) \cup SetOf(r)
<1>1. /\ MayJoin(l, r) /\ ~BadArgs(l, r) /\ Attach(l, r) /\ Open(l) /\ Open(r)
      /\ folder' = [folder EXCEPT ![lf].next = cab[r].folders]
      /\ file' = [file EXCEPT ![last].next = cab[r].files]
  BY DEF MergePlain, MayJoin, RightFolder
<1>2. /\ lf \in FoldersOf(l) /\ folder[lf].next = NULL
      /\ last \in FilesOf(l) /\ file[last].next = NULL
      /\ \A g \in FoldersOf(l) : folder[g].next = NULL => g = lf
      /\ \A f \in FilesOf(l) : file[f].next = NULL => f = last
  BY <1>1, LastsFound
<1> HIDE DEF lf, last
<1>3. /\ FoldersOf(l) \subseteq Folder /\ FilesOf(l) \subseteq File
      /\ FoldersOf(r) \subseteq Folder /\ FilesOf(r) \subseteq File
      /\ cab[l].folders \in Folder /\ cab[l].files \in File
      /\ cab[r].folders \in Folder /\ cab[r].files \in File
  BY <1>1, ListFacts, LastsFound
<1>4. /\ FoldersOf(l) \cap FoldersOf(r) = {} /\ FilesOf(l) \cap FilesOf(r) = {}
      /\ cab'[l].folders = cab[l].folders /\ cab'[l].files = cab[l].files
      /\ \A c \in joined : FoldersOf(c)' = FoldersOf(l)' /\ FilesOf(c)' = FilesOf(l)'
  BY <1>1, JoinableApart
<1>5. /\ Links(FolNext, Folder) /\ Links(FilNext, File)
      /\ Links(FolNext', Folder) /\ Links(FilNext', File)
  BY HeapLinks, HeapLinksAfter DEF Graph
<1>6. TypeInv
  BY DEF Graph
<1>7. /\ \A g \in Folder : folder'[g] = IF g = lf THEN [folder[lf] EXCEPT !.next = cab[r].folders] ELSE folder[g]
      /\ \A f \in File : file'[f] = IF f = last THEN [file[last] EXCEPT !.next = cab[r].files] ELSE file[f]
  BY <1>1, <1>6 DEF TypeInv, TypeOK
<1>8. /\ folder'[lf].next = cab[r].folders /\ folder'[lf].data = folder[lf].data
      /\ folder'[lf].live = folder[lf].live
      /\ file'[last].next = cab[r].files /\ file'[last].folder = file[last].folder
      /\ file'[last].live = file[last].live
  BY <1>2, <1>3, <1>6, <1>7 DEF TypeInv, TypeOK, FolderObj, FileObj
<1>9. FoldersOf(l)' = FoldersOf(l) \cup FoldersOf(r)
  <2>1. HungBehind(Folder, FolNext, FolNext', cab[l].folders, lf, cab[r].folders)
    BY <1>2, <1>3, <1>4, <1>5, <1>7, <1>8 DEF HungBehind, SameOn, FolNext, FoldersOf
  <2>2. Items(cab[l].folders, FolNext') = Items(cab[l].folders, FolNext) \cup Items(cab[r].folders, FolNext)
    BY <2>1, ListAppend
  <2> QED
    BY <1>4, <2>2 DEF FoldersOf
<1>10. FilesOf(l)' = FilesOf(l) \cup FilesOf(r)
  <2>1. HungBehind(File, FilNext, FilNext', cab[l].files, last, cab[r].files)
    BY <1>2, <1>3, <1>4, <1>5, <1>7, <1>8 DEF HungBehind, SameOn, FilNext, FilesOf
  <2>2. Items(cab[l].files, FilNext') = Items(cab[l].files, FilNext) \cup Items(cab[r].files, FilNext)
    BY <2>1, ListAppend
  <2> QED
    BY <1>4, <2>2 DEF FilesOf
<1>11. /\ \E x \in FoldersOf(l)' : folder'[x].next = NULL
       /\ \E x \in FilesOf(l)' : file'[x].next = NULL
  <2>1. /\ \E x \in FoldersOf(r) : folder[x].next = NULL
        /\ \E x \in FilesOf(r) : file[x].next = NULL
    BY <1>1 DEF Graph, ListsEnd
  <2> QED
    BY <1>2, <1>3, <1>4, <1>7, <1>9, <1>10, <2>1
<1>12. \A g \in FoldersOf(l) \cup FoldersOf(r) :
         folder'[g].data # <<>> /\ \A n \in DOMAIN folder'[g].data : folder'[g].data[n] \in joined
  <2>1. \A g \in FoldersOf(l) \cup FoldersOf(r) : folder'[g].data = folder[g].data
    BY <1>2, <1>3, <1>7, <1>8
  <2>2. PartsInSet
    BY DEF Graph
  <2>3. \A g \in FoldersOf(l) : folder[g].data # <<>> /\ \A n \in DOMAIN folder[g].data : folder[g].data[n] \in SetOf(l)
    BY <1>1, <2>2 DEF PartsInSet
  <2>4. \A g \in FoldersOf(r) : folder[g].data # <<>> /\ \A n \in DOMAIN folder[g].data : folder[g].data[n] \in SetOf(r)
    BY <1>1, <2>2 DEF PartsInSet
  <2> QED
    BY <2>1, <2>3, <2>4
<1>13. /\ \A g \in Folder \ (FoldersOf(l) \cup FoldersOf(r)) : folder'[g] = folder[g]
       /\ \A f \in File \ (FilesOf(l) \cup FilesOf(r)) : file'[f] = file[f]
  BY <1>2, <1>7
<1>14. \A c \in Cab \ joined : cab'[c] = cab[c]
  BY <1>1, JoinedSets
<1>15. \A c \in Cab \ joined : Open(c) =>
         /\ FoldersOf(c)' = FoldersOf(c) /\ FilesOf(c)' = FilesOf(c)
         /\ \A g \in FoldersOf(c) : folder'[g] = folder[g]
         /\ \A f \in FilesOf(c) : file'[f] = file[f]
  BY <1>1, <1>13, <1>14, OthersKeepTheirs
<1>16. /\ \A g \in Folder : folder'[g].live <=> folder[g].live
       /\ \A f \in File : file'[f].live <=> file[f].live
       /\ \A f \in File : file'[f].folder = file[f].folder
  BY <1>7, <1>8
<1>17. ListsJoined(l, r, {}, {})
  <2>1. \A c \in joined :
          /\ FoldersOf(c)' = (FoldersOf(l) \cup FoldersOf(r)) \ {}
          /\ FilesOf(c)' = (FilesOf(l) \cup FilesOf(r)) \ {}
          /\ \E x \in FoldersOf(c)' : folder'[x].next = NULL
          /\ \E x \in FilesOf(c)' : file'[x].next = NULL
          /\ \A g \in FoldersOf(c)' :
               folder'[g].data # <<>> /\ \A n \in DOMAIN folder'[g].data : folder'[g].data[n] \in joined
    <3> HIDE DEF joined
    <3> QED
      BY <1>4, <1>9, <1>10, <1>11, <1>12
  <2> QED
    BY <1>3, <1>15, <1>16, <2>1 DEF ListsJoined
<1> QED
  BY <1>1, <1>17, JoinGraph

\* The folders after a folder merge: rcab's first is gone, the rest hang behind
\* lcab's last.
LEMMA MergeFoldersList ==
  ASSUME Graph, TypeInv', NEW l \in Cab, NEW r \in Cab, MergeFolders(l, r)
  PROVE  LET lf == LeftFolder(l)
             rf == cab[r].folders
         IN  /\ lf \in FoldersOf(l) /\ rf \in FoldersOf(r) /\ lf # rf
             /\ FoldersOf(l)' = (FoldersOf(l) \cup FoldersOf(r)) \ {rf}
             /\ \E x \in FoldersOf(l)' : folder'[x].next = NULL
             /\ \A g \in Folder \ {lf, rf} : folder'[g] = folder[g]
             /\ folder'[lf].live = folder[lf].live /\ ~folder'[rf].live
             /\ folder'[lf].data = folder[lf].data \o folder[rf].data
             /\ folder'[lf].blocks = JoinedBlocks(lf, rf)
             /\ folder'[lf].next = folder[rf].next
<1> DEFINE lf == LeftFolder(l)
           rf == cab[r].folders
<1>1. /\ MayJoin(l, r) /\ ~BadArgs(l, r) /\ Attach(l, r) /\ Open(l) /\ Open(r)
      /\ folder' = [folder EXCEPT
           ![lf] = [@ EXCEPT !.data = JoinedData(lf, rf),
                             !.blocks = JoinedBlocks(lf, rf),
                             !.merge_next = JoinedMergeNext(lf, rf),
                             !.next = folder[rf].next],
           ![rf] = NoFolder]
  BY DEF MergeFolders, MayJoin, RightFolder
<1>2. /\ lf \in FoldersOf(l) /\ folder[lf].next = NULL /\ rf \in FoldersOf(r)
      /\ rf \notin Items(folder[rf].next, FolNext)
      /\ FoldersOf(l) \subseteq Folder /\ FoldersOf(r) \subseteq Folder
      /\ cab[l].folders \in Folder /\ rf \in Folder
  BY <1>1, ListFacts, LastsFound
<1> HIDE DEF lf
<1>3. /\ FoldersOf(l) \cap FoldersOf(r) = {} /\ cab'[l].folders = cab[l].folders
  BY <1>1, JoinableApart
<1>4. lf # rf /\ lf \in Folder
  BY <1>2, <1>3
<1>5. /\ Links(FolNext, Folder) /\ Links(FolNext', Folder) /\ TypeInv
  BY HeapLinks, HeapLinksAfter DEF Graph
<1>6. folder[lf] \in FolderObj /\ folder[rf] \in FolderObj
  BY <1>2, <1>4, <1>5 DEF TypeInv, TypeOK
<1>7. /\ \A g \in Folder \ {lf, rf} : folder'[g] = folder[g]
      /\ folder'[rf] = NoFolder
      /\ folder'[lf].next = folder[rf].next
      /\ folder'[lf].live = folder[lf].live
      /\ folder'[lf].data = folder[lf].data \o folder[rf].data
      /\ folder'[lf].blocks = JoinedBlocks(lf, rf)
  <2> DEFINE new == [folder[lf] EXCEPT !.data = JoinedData(lf, rf),
                             !.blocks = JoinedBlocks(lf, rf),
                             !.merge_next = JoinedMergeNext(lf, rf),
                             !.next = folder[rf].next]
  <2>1. folder' = [folder EXCEPT ![lf] = new, ![rf] = NoFolder]
    BY <1>1
  <2>2. new.next = folder[rf].next /\ new.live = folder[lf].live
        /\ new.data = folder[lf].data \o folder[rf].data /\ new.blocks = JoinedBlocks(lf, rf)
    BY <1>6 DEF FolderObj, JoinedData
  <2> HIDE DEF new, rf
  <2>3. folder'[lf] = new /\ folder'[rf] = NoFolder /\ \A g \in Folder \ {lf, rf} : folder'[g] = folder[g]
    BY <1>2, <1>4, <1>5, <2>1 DEF TypeInv, TypeOK
  <2> QED
    BY <2>2, <2>3
<1>8. FoldersOf(r) = {rf} \cup Items(folder[rf].next, FolNext) /\ folder[rf].next \in Folder \cup {NULL}
  <2>1. Items(rf, FolNext) = {rf} \cup Items(FolNext[rf], FolNext) /\ FolNext[rf] \in Folder \cup {NULL}
    BY <1>2, <1>5, ListUnfolds
  <2> QED
    BY <1>2, <2>1 DEF FoldersOf, FolNext
<1> HIDE DEF rf
<1>9. FoldersOf(l)' = FoldersOf(l) \cup Items(folder[rf].next, FolNext)
  <2>1. HungBehind(Folder, FolNext, FolNext', cab[l].folders, lf, folder[rf].next)
    <3>1. cab[l].folders \in Folder \cup {NULL}
      BY <1>2
    <3>2. lf \in Items(cab[l].folders, FolNext) /\ FolNext[lf] = NULL
      BY <1>2, <1>4 DEF FolNext, FoldersOf
    <3>3. lf \notin Items(folder[rf].next, FolNext) /\ rf \notin FoldersOf(l)
      BY <1>2, <1>3, <1>8
    <3>4. SameOn(FolNext, FolNext', (Items(cab[l].folders, FolNext) \cup Items(folder[rf].next, FolNext)) \ {lf})
      <4>1. \A g \in (FoldersOf(l) \cup Items(folder[rf].next, FolNext)) \ {lf} :
              g \in Folder /\ g # rf
        BY <1>2, <1>8, <3>3
      <4> QED
        BY <1>7, <4>1 DEF SameOn, FolNext, FoldersOf
    <3>5. FolNext'[lf] = folder[rf].next
      BY <1>4, <1>7 DEF FolNext
    <3> QED
      BY <1>5, <1>8, <3>1, <3>2, <3>3, <3>4, <3>5 DEF HungBehind
  <2>2. Items(cab[l].folders, FolNext') = Items(cab[l].folders, FolNext) \cup Items(folder[rf].next, FolNext)
    BY <2>1, ListAppend
  <2> QED
    BY <1>3, <2>2 DEF FoldersOf
<1>10. FoldersOf(l)' = (FoldersOf(l) \cup FoldersOf(r)) \ {rf}
  BY <1>2, <1>3, <1>8, <1>9
<1>11. \E x \in FoldersOf(l)' : folder'[x].next = NULL
  <2>1. CASE folder[rf].next = NULL
    BY <1>2, <1>7, <1>9, <2>1
  <2>2. CASE folder[rf].next # NULL
    <3>1. PICK x \in FoldersOf(r) : folder[x].next = NULL
      BY <1>1 DEF Graph, ListsEnd
    <3>2. x # rf /\ x # lf /\ x \in Folder
      BY <1>2, <1>3, <2>2, <3>1
    <3> QED
      BY <1>7, <1>10, <3>1, <3>2
  <2> QED
    BY <2>1, <2>2
<1>12. ~folder'[rf].live
  BY <1>7 DEF NoFolder
<1> QED
  BY <1>2, <1>4, <1>7, <1>10, <1>11, <1>12 DEF lf, rf

\* The files after a folder merge: rcab's hang behind lcab's, and those of the
\* folder that is gone are unlinked.
LEMMA MergeFoldersFiles ==
  ASSUME Graph, TypeInv', NEW l \in Cab, NEW r \in Cab, MergeFolders(l, r)
  PROVE  LET gone == Duplicates(l, r)
             both == FilesOf(l) \cup FilesOf(r)
         IN  /\ gone \subseteq FilesOf(r)
             /\ FilesOf(l)' = both \ gone
             /\ \E x \in FilesOf(l)' : file'[x].next = NULL
             /\ \A f \in File \ both : file'[f] = file[f]
             /\ \A f \in both \ gone : /\ file'[f].live = file[f].live
                                       /\ file'[f].folder = file[f].folder
                                       /\ file'[f].key = file[f].key
                                       /\ file[f].folder # cab[r].folders
             /\ \A f \in gone : ~file'[f].live /\ file[f].folder = cab[r].folders
<1> DEFINE gone == Duplicates(l, r)
           both == FilesOf(l) \cup FilesOf(r)
           last == LastOf(cab[l].files, FilNext)
           hung == [f \in File |-> IF f = last THEN cab[r].files ELSE FilNext[f]]
           sv == [f \in File \cup {NULL} |-> Survivor(f, gone)]
<1>1. /\ MayJoin(l, r) /\ ~BadArgs(l, r) /\ Attach(l, r) /\ Open(l) /\ Open(r)
      /\ file' = [f \in File |->
           IF f \in gone THEN NoFile
           ELSE IF f \in both
             THEN [file[f] EXCEPT !.next = Survivor(IF f = last THEN cab[r].files ELSE @, gone)]
             ELSE file[f]]
  BY DEF MergeFolders, MayJoin
<1>2. /\ last \in FilesOf(l) /\ file[last].next = NULL
      /\ FilesOf(l) \subseteq File /\ FilesOf(r) \subseteq File
      /\ cab[l].files \in File /\ cab[r].files \in File
      /\ cab[l].files \in FilesOf(l) /\ cab[r].files \in FilesOf(r)
      /\ cab[r].folders \in FoldersOf(r)
  BY <1>1, ListFacts, LastsFound
<1>3. /\ FilesOf(l) \cap FilesOf(r) = {} /\ cab'[l].files = cab[l].files
      /\ FoldersOf(l) \cap FoldersOf(r) = {}
  BY <1>1, JoinableApart
<1>4. /\ Links(FilNext, File) /\ Links(FilNext', File) /\ TypeInv /\ NULL \notin File
  BY HeapLinks, HeapLinksAfter, FiniteHeap DEF Graph
<1>5. gone \subseteq FilesOf(r)
        /\ \A f \in both : f \in gone <=> file[f].folder = cab[r].folders
  <2>1. \A f \in FilesOf(l) : file[f].folder \in FoldersOf(l)
    BY <1>1 DEF Graph, FilesPointIntoSet
  <2>2. \A f \in FilesOf(l) : file[f].folder # cab[r].folders
    BY <1>2, <1>3, <2>1
  <2> QED
    BY <2>2 DEF Duplicates, RightFolder
<1>6. \A x \in File \cup {NULL} :
         /\ sv[NULL] = NULL
         /\ sv[x] \in (Items(x, FilNext) \ gone) \cup {NULL}
         /\ x \in File /\ x \notin gone => sv[x] = x
         /\ x \in File /\ x \in gone => sv[x] = sv[FilNext[x]]
  <2> HIDE DEF gone
  <2>1. \A x \in File : FilNext[x] \in File \cup {NULL}
    BY <1>4 DEF Links
  <2> QED
    BY <1>4, <2>1, SurvivorKeeps
<1>7. \A x \in both \ gone : /\ file'[x].next = sv[hung[x]] /\ file'[x].live = file[x].live
                             /\ file'[x].folder = file[x].folder /\ file'[x].key = file[x].key
                             /\ hung[x] \in File \cup {NULL}
  <2> TAKE x \in both \ gone
  <2>1. x \in File /\ file[x] \in FileObj
    BY <1>2, <1>4 DEF TypeInv, TypeOK
  <2>2. hung[x] = IF x = last THEN cab[r].files ELSE file[x].next
    BY <2>1 DEF FilNext
  <2>3. hung[x] \in File \cup {NULL}
    BY <1>2, <2>1, <2>2 DEF FileObj
  <2> HIDE DEF gone, both, last, hung
  <2>4. file'[x] = [file[x] EXCEPT !.next = Survivor(IF x = last THEN cab[r].files ELSE file[x].next, gone)]
    BY <1>1, <2>1
  <2> QED
    BY <2>1, <2>2, <2>3, <2>4 DEF FileObj
<1>8. \A f \in gone : f \in File /\ file'[f] = NoFile
  BY <1>1, <1>2, <1>5
<1>9. \A f \in File \ both : file'[f] = file[f]
  BY <1>1, <1>5
<1> HIDE DEF gone, last, sv
<1>10. Links(hung, File)
  BY <1>2, <1>4 DEF Links
<1>11. \A x \in File : hung[x] = IF x = last THEN cab[r].files ELSE FilNext[x]
  OBVIOUS
<1>12. last \notin Items(cab[r].files, FilNext) /\ last \notin gone /\ FilNext[last] = NULL
       /\ last \in Items(cab[l].files, FilNext) /\ last \in File
  BY <1>2, <1>3, <1>5 DEF FilesOf, FilNext
<1> HIDE DEF hung
<1>13. \A x \in File : Items(x, FilNext) \subseteq Items(x, hung)
  <2> TAKE x \in File
  <2>0. Items(x, FilNext) \subseteq File /\ Items(cab[r].files, FilNext) \subseteq File
        /\ x \in File \cup {NULL}
    BY <1>2, <1>4, ListBasics
  <2>1. CASE last \in Items(x, FilNext)
    <3>1. HungBehind(File, FilNext, hung, x, last, cab[r].files)
      BY <1>2, <1>4, <1>10, <1>11, <1>12, <2>0, <2>1 DEF HungBehind, SameOn
    <3>2. Items(x, hung) = Items(x, FilNext) \cup Items(cab[r].files, FilNext)
      BY <3>1, ListAppend
    <3> QED
      BY <3>2
  <2>2. CASE last \notin Items(x, FilNext)
    <3>1. SameOn(FilNext, hung, Items(x, FilNext))
      BY <1>11, <2>0, <2>2 DEF SameOn
    <3>2. Items(x, hung) = Items(x, FilNext)
      BY <1>4, <1>10, <2>0, <3>1, ListLocal
    <3> QED
      BY <3>2
  <2> QED
    BY <2>1, <2>2
<1>14. Items(cab[l].files, hung) = both
  <2>0. Items(cab[l].files, FilNext) \subseteq File /\ Items(cab[r].files, FilNext) \subseteq File
    BY <1>2, <1>4, ListBasics
  <2>1. HungBehind(File, FilNext, hung, cab[l].files, last, cab[r].files)
    BY <1>2, <1>4, <1>10, <1>11, <1>12, <2>0 DEF HungBehind, SameOn
  <2>2. Items(cab[l].files, hung) = Items(cab[l].files, FilNext) \cup Items(cab[r].files, FilNext)
    BY <2>1, ListAppend
  <2> QED
    BY <2>2 DEF FilesOf
<1>15. Unlinked(File, hung, FilNext', cab[l].files, gone, sv)
  <2>1. cab[l].files \notin gone
    BY <1>2, <1>3, <1>5
  <2>2. \A x \in File : /\ sv[x] \in (Items(x, hung) \ gone) \cup {NULL}
                        /\ x \notin gone => sv[x] = x
                        /\ x \in gone => sv[x] = sv[hung[x]]
    BY <1>6, <1>11, <1>12, <1>13
  <2>3. \A x \in Items(cab[l].files, hung) \ gone : FilNext'[x] = sv[hung[x]]
    <3>1. \A x \in both \ gone : x \in File
      BY <1>2
    <3> HIDE DEF both
    <3> QED
      BY <1>7, <1>14, <3>1 DEF FilNext
  <2>4. sv[NULL] = NULL
    BY <1>6
  <2> QED
    BY <1>2, <1>4, <1>10, <2>1, <2>2, <2>3, <2>4 DEF Unlinked
<1>16. /\ Items(cab[l].files, FilNext') = both \ gone
       /\ (\E x \in both : hung[x] = NULL) => \E x \in Items(cab[l].files, FilNext') : FilNext'[x] = NULL
  <2> HIDE DEF both
  <2>1. /\ Items(cab[l].files, FilNext') = Items(cab[l].files, hung) \ gone
        /\ (\E x \in Items(cab[l].files, hung) : hung[x] = NULL)
             => \E x \in Items(cab[l].files, FilNext') : FilNext'[x] = NULL
    BY <1>15, ListUnlink
  <2> QED
    BY <1>14, <2>1
<1>17. FilesOf(l)' = both \ gone
  BY <1>3, <1>16 DEF FilesOf
<1>18. \E x \in FilesOf(l)' : file'[x].next = NULL
  <2>1. PICK y \in FilesOf(r) : file[y].next = NULL
    BY <1>1 DEF Graph, ListsEnd
  <2>2. y \in File /\ y # last
    BY <1>2, <1>3, <2>1
  <2>3. hung[y] = NULL
    BY <1>11, <2>1, <2>2 DEF FilNext
  <2>4. PICK x \in Items(cab[l].files, FilNext') : FilNext'[x] = NULL
    BY <1>16, <2>3
  <2>5. x \in FilesOf(l)' /\ x \in File
    BY <1>2, <1>16, <1>17, <2>4
  <2> QED
    BY <2>4, <2>5 DEF FilNext
<1>19. \A f \in gone : ~file'[f].live /\ file[f].folder = cab[r].folders
  BY <1>5, <1>8 DEF NoFile
<1> QED
  BY <1>5, <1>7, <1>9, <1>17, <1>18, <1>19 DEF gone

LEMMA MergeFoldersGraph ==
  ASSUME Graph, TypeInv', ~JoinChains, NEW l \in Cab, NEW r \in Cab, MergeFolders(l, r)
  PROVE  Graph'
<1> DEFINE lf == LeftFolder(l)
           rf == cab[r].folders
           gone == Duplicates(l, r)
           joined == SetOf(l) \cup SetOf(r)
<1>1. /\ MayJoin(l, r) /\ ~BadArgs(l, r) /\ Attach(l, r) /\ Open(l) /\ Open(r)
  BY DEF MergeFolders, MayJoin
<1>2. /\ lf \in FoldersOf(l) /\ rf \in FoldersOf(r) /\ lf # rf
      /\ FoldersOf(l)' = (FoldersOf(l) \cup FoldersOf(r)) \ {rf}
      /\ \E x \in FoldersOf(l)' : folder'[x].next = NULL
      /\ \A g \in Folder \ {lf, rf} : folder'[g] = folder[g]
      /\ folder'[lf].live = folder[lf].live /\ ~folder'[rf].live
      /\ folder'[lf].data = folder[lf].data \o folder[rf].data
  BY MergeFoldersList
<1>3. /\ gone \subseteq FilesOf(r)
      /\ FilesOf(l)' = (FilesOf(l) \cup FilesOf(r)) \ gone
      /\ \E x \in FilesOf(l)' : file'[x].next = NULL
      /\ \A f \in File \ (FilesOf(l) \cup FilesOf(r)) : file'[f] = file[f]
      /\ \A f \in (FilesOf(l) \cup FilesOf(r)) \ gone :
           /\ file'[f].live = file[f].live /\ file'[f].folder = file[f].folder
           /\ file[f].folder # rf
      /\ \A f \in gone : ~file'[f].live
  BY MergeFoldersFiles
<1> HIDE DEF lf, rf, gone
<1>4. /\ FoldersOf(l) \subseteq Folder /\ FilesOf(l) \subseteq File
      /\ FoldersOf(r) \subseteq Folder /\ FilesOf(r) \subseteq File
  BY <1>1, ListFacts
<1>5. \A c \in joined : FoldersOf(c)' = FoldersOf(l)' /\ FilesOf(c)' = FilesOf(l)'
  BY <1>1, JoinableApart
<1>6. \A g \in FoldersOf(l)' :
         folder'[g].data # <<>> /\ \A n \in DOMAIN folder'[g].data : folder'[g].data[n] \in joined
  <2>1. TypeInv /\ PartsInSet
    BY DEF Graph
  <2>2. \A g \in FoldersOf(l) : folder[g].data # <<>> /\ \A n \in DOMAIN folder[g].data : folder[g].data[n] \in SetOf(l)
    BY <1>1, <2>1 DEF PartsInSet
  <2>3. \A g \in FoldersOf(r) : folder[g].data # <<>> /\ \A n \in DOMAIN folder[g].data : folder[g].data[n] \in SetOf(r)
    BY <1>1, <2>1 DEF PartsInSet
  <2>4. folder[lf].data \in Seq(Cab) /\ folder[rf].data \in Seq(Cab)
    BY <1>2, <1>4, <2>1 DEF TypeInv, TypeOK, FolderObj
  <2>5. folder'[lf].data # <<>> /\ \A n \in DOMAIN folder'[lf].data : folder'[lf].data[n] \in joined
    <3> DEFINE a == folder[lf].data
               b == folder[rf].data
    <3>1. a # <<>> /\ (\A n \in DOMAIN a : a[n] \in SetOf(l)) /\ (\A n \in DOMAIN b : b[n] \in SetOf(r))
          /\ a \in Seq(Cab) /\ b \in Seq(Cab) /\ folder'[lf].data = a \o b
      BY <1>2, <2>2, <2>3, <2>4
    <3> HIDE DEF a, b
    <3>2. a \o b # <<>> /\ DOMAIN (a \o b) = 1..Len(a) + Len(b) /\ Len(a) \in Nat /\ Len(b) \in Nat
          /\ DOMAIN a = 1..Len(a) /\ DOMAIN b = 1..Len(b)
      BY <3>1
    <3>3. ASSUME NEW n \in 1..Len(a) + Len(b) PROVE (a \o b)[n] \in joined
      <4>1. CASE n <= Len(a)
        BY <3>1, <3>2, <4>1
      <4>2. CASE n > Len(a)
        <5>1. n - Len(a) \in 1..Len(b) /\ (a \o b)[n] = b[n - Len(a)]
          BY <3>1, <3>2, <4>2
        <5> QED
          BY <3>1, <3>2, <5>1
      <4> QED
        BY <3>2, <4>1, <4>2
    <3> QED
      BY <3>1, <3>2, <3>3
  <2>6. \A g \in FoldersOf(l)' : g # lf => folder'[g].data = folder[g].data /\ g \in FoldersOf(l) \cup FoldersOf(r)
    BY <1>2, <1>4
  <2> QED
    BY <2>2, <2>3, <2>5, <2>6
<1>7. \A c \in Cab \ joined : cab'[c] = cab[c]
  BY <1>1, JoinedSets
<1>8. \A g \in Folder \ (FoldersOf(l) \cup FoldersOf(r)) : folder'[g] = folder[g]
  BY <1>2
<1>9. \A c \in Cab \ joined : Open(c) =>
         /\ FoldersOf(c)' = FoldersOf(c) /\ FilesOf(c)' = FilesOf(c)
         /\ \A g \in FoldersOf(c) : folder'[g] = folder[g]
         /\ \A f \in FilesOf(c) : file'[f] = file[f]
  BY <1>1, <1>3, <1>7, <1>8, OthersKeepTheirs
<1>10. \A g \in Folder : folder'[g].live <=> folder[g].live /\ g \notin {rf}
  BY <1>2
<1>11. \A f \in File : file'[f].live <=> file[f].live /\ f \notin gone
  <2> TAKE f \in File
  <2>1. CASE f \in gone
    BY <1>3, <2>1
  <2>2. CASE f \notin gone /\ f \in FilesOf(l) \cup FilesOf(r)
    BY <1>3, <2>2
  <2>3. CASE f \notin gone /\ f \notin FilesOf(l) \cup FilesOf(r)
    BY <1>3, <2>3
  <2> QED
    BY <2>1, <2>2, <2>3
<1>12. ListsJoined(l, r, {rf}, gone)
  <2>1. \A c \in joined :
          /\ FoldersOf(c)' = (FoldersOf(l) \cup FoldersOf(r)) \ {rf}
          /\ FilesOf(c)' = (FilesOf(l) \cup FilesOf(r)) \ gone
          /\ \E x \in FoldersOf(c)' : folder'[x].next = NULL
          /\ \E x \in FilesOf(c)' : file'[x].next = NULL
          /\ \A g \in FoldersOf(c)' :
               folder'[g].data # <<>> /\ \A n \in DOMAIN folder'[g].data : folder'[g].data[n] \in joined
    <3> HIDE DEF joined
    <3> QED
      BY <1>2, <1>3, <1>5, <1>6
  <2>2. {rf} \subseteq FoldersOf(r) /\ \A f \in (FilesOf(l) \cup FilesOf(r)) \ gone : file[f].folder \notin {rf}
    BY <1>2, <1>3
  <2> QED
    BY <1>3, <1>9, <1>10, <1>11, <2>1, <2>2 DEF ListsJoined
<1> QED
  BY <1>1, <1>12, JoinGraph

-----------------------------------------------------------------------------
(* Closing keeps it (cabd_close).                                           *)

\* cabd_close's loop over the chain of a search result, which is two cabinets at most.
NothingFreed == [cabs |-> {}, files |-> {}, folders |-> {}, err |-> FALSE]

Turn(w, n, before) == IF w[n] = NULL THEN before ELSE FreeSet(w[n], before)

Turns(w, turn) ==
  turn = [n \in DOMAIN w |-> Turn(w, n, IF n = 0 THEN NothingFreed ELSE turn[n - 1])]

LEMMA FreedTurns ==
  ASSUME Graph, NEW c \in Cab, Open(c)
  PROVE  Freed(c) = IF cab[c].next = NULL THEN FreeSet(c, NothingFreed)
                    ELSE FreeSet(cab[c].next, FreeSet(c, NothingFreed))
<1> DEFINE w == Walk(c, Chain)
           N == Cardinality(Cab)
           first == FreeSet(c, NothingFreed)
           both == IF cab[c].next = NULL THEN first ELSE FreeSet(cab[c].next, first)
<1>1. TypeInv /\ ChainsKept /\ NULL \notin Cab /\ IsFiniteSet(Cab)
  BY FiniteHeap DEF Graph
<1>2. Links(Chain, Cab)
  BY <1>1, HeapLinks
<1>3. /\ N \in Nat /\ w \in [0..N -> Cab \cup {NULL}] /\ w[0] = c
      /\ \A n \in 1..N : WalkStep(w, Chain, n)
  BY <1>2, WalkSteps
<1>4. N # 0
  BY <1>1, FS_EmptySet
<1>5. cab[c].next \in Cab \cup {NULL} /\ (cab[c].next # NULL => cab[cab[c].next].next = NULL)
  BY <1>1 DEF TypeInv, TypeOK, Cabinet, ChainsKept
<1>6. Freed(c) = (CHOOSE turn : Turns(w, turn))[N]
  BY DEF Freed, Turns, Turn, NothingFreed
<1> HIDE DEF w, N, first
<1>7. w[1] = cab[c].next
  <2>1. WalkStep(w, Chain, 1)
    BY <1>3, <1>4
  <2> QED
    BY <1>1, <1>3, <2>1 DEF WalkStep, Chain
<1>8. \A n \in 2..N : w[n] = NULL
  <2> DEFINE B == {n \in 2..N : w[n] # NULL}
  <2> SUFFICES ASSUME B # {} PROVE FALSE
    OBVIOUS
  <2>1. B \in SUBSET Nat
    BY <1>3
  <2>2. PICK k \in B : \A j \in B : k <= j
    BY <2>1, LeastNumber
  <2>3. WalkStep(w, Chain, k) /\ k \in 2..N
    BY <1>3, <2>2
  <2>4. CASE k = 2
    <3>1. w[2] = IF w[1] = NULL THEN NULL ELSE Chain[w[1]]
      BY <2>3, <2>4 DEF WalkStep
    <3> QED
      BY <1>5, <1>7, <2>2, <2>4, <3>1 DEF Chain
  <2>5. CASE k # 2
    <3>1. k - 1 \in 2..N /\ k - 1 \notin B
      BY <1>3, <2>2, <2>3, <2>5
    <3> QED
      BY <2>2, <2>3, <3>1 DEF WalkStep
  <2> QED
    BY <2>4, <2>5
<1>9. DOMAIN w = 0..N
  BY <1>3
<1>10. \E turn : Turns(w, turn)
  <2> DEFINE t == [n \in 0..N |-> IF n = 0 THEN first ELSE both]
  <2>1. \A n \in 0..N : t[n] = Turn(w, n, IF n = 0 THEN NothingFreed ELSE t[n - 1])
    <3> TAKE n \in 0..N
    <3>1. CASE n = 0
      BY <1>1, <1>3, <3>1 DEF Turn, first
    <3>2. CASE n = 1
      <4>1. t[0] = first /\ t[1] = both
        BY <1>3, <3>2
      <4> HIDE DEF t
      <4> QED
        BY <1>7, <3>2, <4>1 DEF Turn
    <3>3. CASE n \in 2..N
      <4>1. t[n - 1] = both /\ t[n] = both /\ n # 0
        BY <1>3, <3>3
      <4> HIDE DEF t
      <4> QED
        BY <1>8, <3>3, <4>1 DEF Turn
    <3> QED
      BY <1>3, <3>1, <3>2, <3>3
  <2>2. t = [n \in 0..N |-> t[n]]
    OBVIOUS
  <2> HIDE DEF t
  <2>3. Turns(w, t)
    BY <1>9, <2>1, <2>2 DEF Turns
  <2> QED
    BY <2>3
<1> DEFINE turn == CHOOSE t : Turns(w, t)
<1>11. Turns(w, turn)
  BY <1>10
<1> HIDE DEF turn
<1>12. \A n \in 0..N : turn[n] = Turn(w, n, IF n = 0 THEN NothingFreed ELSE turn[n - 1])
  BY <1>9, <1>11 DEF Turns
<1>13. turn[0] = first
  BY <1>1, <1>3, <1>12 DEF Turn, first
<1>14. turn[1] = both
  <2>1. 1 \in 0..N
    BY <1>3, <1>4
  <2>2. turn[1] = Turn(w, 1, turn[0])
    BY <1>12, <2>1
  <2> QED
    BY <1>7, <1>13, <2>2 DEF Turn
<1>15. \A n \in 1..N : turn[n] = both
  <2> DEFINE B == {n \in 1..N : turn[n] # both}
  <2> SUFFICES ASSUME B # {} PROVE FALSE
    OBVIOUS
  <2>1. B \in SUBSET Nat
    BY <1>3
  <2>2. PICK k \in B : \A j \in B : k <= j
    BY <2>1, LeastNumber
  <2>3. k \in 2..N
    BY <1>3, <1>14, <2>2
  <2>4. k - 1 \in 1..N /\ k - 1 \notin B /\ k \in 0..N /\ k # 0
    BY <1>3, <2>2, <2>3
  <2>5. turn[k] = Turn(w, k, turn[k - 1])
    BY <1>12, <2>4
  <2> QED
    BY <1>8, <2>2, <2>3, <2>4, <2>5 DEF Turn
<1>16. Freed(c) = turn[N] /\ N \in 1..N
  BY <1>3, <1>4, <1>6 DEF turn
<1> QED
  BY <1>15, <1>16 DEF first

\* Whole sets: their members are open, and no chain leads into them from outside.
WholeSets(gone) ==
  /\ gone \subseteq Cab
  /\ \A x \in gone : Open(x) /\ SetOf(x) \subseteq gone
  /\ \A e \in Cab : cab[e].next \in gone => e \in gone

\* What cabd_close releases: whole sets with all their lists hold, each thing once.
LEMMA FreedWhole ==
  ASSUME Graph, NEW c \in Cab, MayClose(c)
  PROVE  LET freed == Freed(c)
         IN  /\ WholeSets(freed.cabs) /\ ~freed.err
             /\ freed.folders = UNION {FoldersOf(x) : x \in freed.cabs}
             /\ freed.files = UNION {FilesOf(x) : x \in freed.cabs}
<1> DEFINE d == cab[c].next
<1>1. TypeInv /\ ChainsKept /\ SetsLinked /\ NULL \notin Cab
  BY FiniteHeap DEF Graph
<1>2. Open(c) /\ \A p \in Cab : cab[p].next # c
  BY DEF MayClose
<1>3. d \in Cab \cup {NULL}
  BY <1>1 DEF TypeInv, TypeOK, Cabinet
<1>4. /\ SetOf(c) \subseteq Cab /\ c \in SetOf(c) /\ \A x \in SetOf(c) : SetOf(x) = SetOf(c) /\ Open(x)
  BY <1>1, <1>2, SetFacts
<1>5. \A x \in SetOf(c) : FoldersOf(x) = FoldersOf(c) /\ FilesOf(x) = FilesOf(c)
  BY <1>2, <1>4, SetsApart
<1>6. /\ \A g \in FoldersOf(c) : folder[g].live
      /\ \A f \in FilesOf(c) : file[f].live
  BY <1>2, ListFacts
<1> DEFINE first == FreeSet(c, NothingFreed)
<1>7. first = [cabs |-> SetOf(c), files |-> FilesOf(c), folders |-> FoldersOf(c), err |-> FALSE]
  BY <1>4, <1>6 DEF FreeSet, NothingFreed, FilesOf, FoldersOf
<1> HIDE DEF first
<1>8. CASE d = NULL
  <2>1. Freed(c) = first
    BY <1>2, <1>8, FreedTurns DEF first
  <2>2. ~InChain(c) /\ \A x \in SetOf(c) : ~InChain(x)
    BY <1>2, <1>8 DEF MayClose, InChain
  <2>3. \A e \in Cab : cab[e].next \notin SetOf(c)
    BY <2>2 DEF InChain
  <2>4. WholeSets(SetOf(c))
    BY <1>4, <2>3 DEF WholeSets
  <2>5. /\ FoldersOf(c) = UNION {FoldersOf(x) : x \in SetOf(c)}
        /\ FilesOf(c) = UNION {FilesOf(x) : x \in SetOf(c)}
    BY <1>4, <1>5
  <2> QED
    BY <1>7, <2>1, <2>4, <2>5
<1>9. CASE d # NULL
  <2>0. d \in Cab /\ Open(d) /\ c # d /\ cab[d].next = NULL /\ \A e \in Cab : cab[e].next = d => e = c
    BY <1>1, <1>3, <1>9 DEF ChainsKept
  <2>1. Freed(c) = FreeSet(d, first)
    BY <1>2, <1>9, FreedTurns DEF first
  <2>2. InChain(c) /\ InChain(d)
    BY <1>9, <2>0 DEF InChain
  <2>3. /\ \A x \in SetOf(c) : InChain(x) => x = c
        /\ \A x \in SetOf(d) : InChain(x) => x = d
    <3>1. d \in SetOf(d)
      BY <1>1, <2>0, SetFacts
    <3> QED
      BY <1>1, <1>2, <1>4, <2>0, <2>2, <3>1 DEF ChainsKept
  <2>4. d \notin SetOf(c)
    BY <2>0, <2>2, <2>3
  <2>5. /\ SetOf(d) \subseteq Cab /\ d \in SetOf(d) /\ \A x \in SetOf(d) : SetOf(x) = SetOf(d) /\ Open(x)
    BY <1>1, <2>0, SetFacts
  <2>6. SetOf(c) \cap SetOf(d) = {}
    <3>1. \A x \in SetOf(c) : x \in SetOf(d) => SetOf(c) = SetOf(d)
      BY <1>4, <2>5
    <3> QED
      BY <2>4, <2>5, <3>1
  <2>7. \A x \in SetOf(d) : FoldersOf(x) = FoldersOf(d) /\ FilesOf(x) = FilesOf(d)
    BY <2>0, <2>5, SetsApart
  <2>8. /\ \A g \in FoldersOf(d) : folder[g].live
        /\ \A f \in FilesOf(d) : file[f].live
    BY <2>0, ListFacts
  <2>9. FoldersOf(c) \cap FoldersOf(d) = {} /\ FilesOf(c) \cap FilesOf(d) = {}
    BY <1>2, <2>0, <2>4, SetsApart
  <2> DEFINE gone == SetOf(c) \cup SetOf(d)
  <2>10. Freed(c) = [cabs |-> gone, files |-> FilesOf(c) \cup FilesOf(d),
                     folders |-> FoldersOf(c) \cup FoldersOf(d), err |-> FALSE]
    <3>1. FreeSet(d, first) =
            [cabs |-> first.cabs \cup SetOf(d), files |-> first.files \cup FilesOf(d),
             folders |-> first.folders \cup FoldersOf(d),
             err |-> \/ first.err
                     \/ \E x \in SetOf(d) : x \in first.cabs \/ ~Open(x)
                     \/ \E x \in FilesOf(d) : x \in first.files \/ ~file[x].live
                     \/ \E x \in FoldersOf(d) : x \in first.folders \/ ~folder[x].live]
      <4>1. d \notin first.cabs
        BY <1>7, <2>4
      <4> QED
        BY <4>1 DEF FreeSet, FilesOf, FoldersOf
    <3>2. ~(\/ first.err
            \/ \E x \in SetOf(d) : x \in first.cabs \/ ~Open(x)
            \/ \E x \in FilesOf(d) : x \in first.files \/ ~file[x].live
            \/ \E x \in FoldersOf(d) : x \in first.folders \/ ~folder[x].live)
      <4>1. first.err = FALSE /\ first.cabs = SetOf(c) /\ first.files = FilesOf(c)
            /\ first.folders = FoldersOf(c)
        BY <1>7
      <4> QED
        BY <2>5, <2>6, <2>8, <2>9, <4>1
    <3>3. first.cabs = SetOf(c) /\ first.files = FilesOf(c) /\ first.folders = FoldersOf(c)
      BY <1>7
    <3>4. (\/ first.err
           \/ \E x \in SetOf(d) : x \in first.cabs \/ ~Open(x)
           \/ \E x \in FilesOf(d) : x \in first.files \/ ~file[x].live
           \/ \E x \in FoldersOf(d) : x \in first.folders \/ ~folder[x].live) = FALSE
      BY <3>2
    <3> QED
      BY <2>1, <3>1, <3>3, <3>4
  <2>11. \A e \in Cab : cab[e].next \in gone => e \in gone
    <3> TAKE e \in Cab
    <3> HAVE cab[e].next \in gone
    <3>1. InChain(cab[e].next)
      BY <1>4, <2>5 DEF InChain
    <3>2. CASE cab[e].next \in SetOf(c)
      BY <1>2, <2>3, <3>1, <3>2
    <3>3. CASE cab[e].next \in SetOf(d)
      <4>1. e = c
        BY <2>0, <2>3, <3>1, <3>3
      <4> QED
        BY <1>4, <4>1
    <3> QED
      BY <3>2, <3>3
  <2>12. WholeSets(gone)
    BY <1>4, <2>5, <2>11 DEF WholeSets
  <2>13. /\ FoldersOf(c) \cup FoldersOf(d) = UNION {FoldersOf(x) : x \in gone}
         /\ FilesOf(c) \cup FilesOf(d) = UNION {FilesOf(x) : x \in gone}
    BY <1>4, <1>5, <2>5, <2>7
  <2> HIDE DEF gone
  <2> QED
    BY <2>10, <2>12, <2>13
<1> QED
  BY <1>8, <1>9

\* Releasing whole sets leaves the rest of the graph as it is.
LEMMA WholeSetsGone ==
  ASSUME Graph, TypeInv', NEW gone, WholeSets(gone),
         cab' = [x \in Cab |-> IF x \in gone THEN NoCab ELSE cab[x]],
         folder' = [x \in Folder |->
           IF x \in UNION {FoldersOf(c) : c \in gone} THEN NoFolder ELSE folder[x]],
         file' = [x \in File |->
           IF x \in UNION {FilesOf(c) : c \in gone} THEN NoFile ELSE file[x]]
  PROVE  /\ Graph'
         /\ \A c \in Cab : Open(c)' <=> Open(c) /\ c \notin gone
         /\ \A c \in Cab : Open(c)' => /\ cab'[c] = cab[c] /\ SetOf(c)' = SetOf(c)
                                       /\ FoldersOf(c)' = FoldersOf(c) /\ FilesOf(c)' = FilesOf(c)
                                       /\ \A g \in FoldersOf(c) : folder'[g] = folder[g]
                                       /\ \A f \in FilesOf(c) : file'[f] = file[f]
<1> DEFINE goneFol == UNION {FoldersOf(c) : c \in gone}
           goneFil == UNION {FilesOf(c) : c \in gone}
<1>1. /\ TypeInv /\ ListsEnd /\ SetsLinked /\ ChainsKept /\ PartsInSet
      /\ ListsHoldTheHeap /\ SetSharesLists /\ FilesPointIntoSet
      /\ NULL \notin Cab
  BY FiniteHeap DEF Graph
<1>2. /\ gone \subseteq Cab
      /\ \A x \in gone : Open(x) /\ SetOf(x) \subseteq gone
      /\ \A e \in Cab : cab[e].next \in gone => e \in gone
  BY DEF WholeSets
<1>3. /\ \A x \in Cab \ gone : cab'[x] = cab[x]
      /\ \A x \in gone : cab'[x] = NoCab
  BY <1>2
<1>4. /\ \A g \in Folder : folder'[g] = IF g \in goneFol THEN NoFolder ELSE folder[g]
      /\ \A f \in File : file'[f] = IF f \in goneFil THEN NoFile ELSE file[f]
  OBVIOUS
<1>5. NoCab.img = NULL /\ NoCab.next = NULL /\ NoCab.nextcab = NULL /\ NoCab.prevcab = NULL
      /\ ~NoFolder.live /\ ~NoFile.live
  BY DEF NoCab, NoFolder, NoFile
<1>6. \A c \in Cab : Open(c)' <=> Open(c) /\ c \notin gone
  BY <1>3, <1>5 DEF Open
<1>7. \A c \in Cab \ gone : SetOf(c) \cap gone = {} /\ SetOf(c) \subseteq Cab /\ c \in SetOf(c)
  <2> TAKE c \in Cab \ gone
  <2>1. SetOf(c) \subseteq Cab /\ c \in SetOf(c) /\ \A x \in SetOf(c) : SetOf(x) = SetOf(c)
    BY <1>1, SetFacts
  <2> QED
    BY <1>2, <2>1
<1>8. \A c \in Cab \ gone : Open(c) => /\ FoldersOf(c) \cap goneFol = {} /\ FilesOf(c) \cap goneFil = {}
                                       /\ FoldersOf(c) \subseteq Folder /\ FilesOf(c) \subseteq File
  <2> TAKE c \in Cab \ gone
  <2> HAVE Open(c)
  <2>1. \A x \in gone : c \notin SetOf(x)
    BY <1>2
  <2>2. \A x \in gone : FoldersOf(x) \cap FoldersOf(c) = {} /\ FilesOf(x) \cap FilesOf(c) = {}
    BY <1>2, <2>1, SetsApart
  <2>3. FoldersOf(c) \subseteq Folder /\ FilesOf(c) \subseteq File
    BY ListFacts
  <2> QED
    BY <2>2, <2>3
<1>9. \A c \in Cab \ gone : Open(c) => /\ \A g \in FoldersOf(c) : folder'[g] = folder[g]
                                       /\ \A f \in FilesOf(c) : file'[f] = file[f]
  <2> HIDE DEF goneFol, goneFil
  <2> QED
    BY <1>4, <1>8
<1>10. /\ Links(FolNext, Folder) /\ Links(FilNext, File)
       /\ Links(FolNext', Folder) /\ Links(FilNext', File)
       /\ Links(NextOf, Cab) /\ Links(PrevOf, Cab) /\ Links(NextOf', Cab) /\ Links(PrevOf', Cab)
  BY <1>1, HeapLinks, HeapLinksAfter
<1>11. \A c \in Cab \ gone : SetOf(c)' = SetOf(c)
  <2> TAKE c \in Cab \ gone
  <2>1. \A x \in SetOf(c) : x \in Cab /\ cab'[x] = cab[x]
    BY <1>3, <1>7
  <2>2. SameOn(NextOf, NextOf', Items(c, NextOf)) /\ SameOn(PrevOf, PrevOf', Items(c, PrevOf))
    BY <2>1 DEF SameOn, SetOf, NextOf, PrevOf
  <2>3. c \in Cab \cup {NULL}
    OBVIOUS
  <2>4. Items(c, NextOf') = Items(c, NextOf)
    BY <1>10, <2>2, <2>3, ListLocal
  <2>5. Items(c, PrevOf') = Items(c, PrevOf)
    BY <1>10, <2>2, <2>3, ListLocal
  <2> QED
    BY <2>4, <2>5 DEF SetOf
<1>12. \A c \in Cab \ gone : Open(c) => FoldersOf(c)' = FoldersOf(c) /\ FilesOf(c)' = FilesOf(c)
  <2> TAKE c \in Cab \ gone
  <2> HAVE Open(c)
  <2>1. cab[c].folders \in Folder \cup {NULL} /\ cab[c].files \in File \cup {NULL}
    BY LastsFound
  <2>2. \A g \in FoldersOf(c) : g \in Folder /\ folder'[g] = folder[g]
    BY <1>8, <1>9
  <2>3. \A f \in FilesOf(c) : f \in File /\ file'[f] = file[f]
    BY <1>8, <1>9
  <2>4. SameOn(FolNext, FolNext', Items(cab[c].folders, FolNext))
    BY <2>2 DEF SameOn, FoldersOf, FolNext
  <2>5. SameOn(FilNext, FilNext', Items(cab[c].files, FilNext))
    BY <2>3 DEF SameOn, FilesOf, FilNext
  <2>6. Items(cab[c].folders, FolNext') = Items(cab[c].folders, FolNext)
    BY <1>10, <2>1, <2>4, ListLocal
  <2>7. Items(cab[c].files, FilNext') = Items(cab[c].files, FilNext)
    BY <1>10, <2>1, <2>5, ListLocal
  <2> QED
    BY <1>3, <2>6, <2>7 DEF FoldersOf, FilesOf
<1> DEFINE left == {x \in Cab : Open(x) /\ x \notin gone}
<1>13. \A c \in left : /\ c \in Cab \ gone /\ Open(c)
                       /\ cab'[c] = cab[c] /\ SetOf(c)' = SetOf(c)
                       /\ FoldersOf(c)' = FoldersOf(c) /\ FilesOf(c)' = FilesOf(c)
                       /\ \A g \in FoldersOf(c) : folder'[g] = folder[g]
                       /\ \A f \in FilesOf(c) : file'[f] = file[f]
  BY <1>3, <1>9, <1>11, <1>12
<1>14. \A c \in Cab : Open(c)' <=> c \in left
  BY <1>6
<1> HIDE DEF left, goneFol, goneFil
<1>15. ListsEnd'
  <2>1. \A c \in left : /\ \E x \in FoldersOf(c) : folder[x].next = NULL
                        /\ \E x \in FilesOf(c) : file[x].next = NULL
    BY <1>1, <1>13 DEF ListsEnd
  <2>2. \A c \in left : /\ \E x \in FoldersOf(c)' : folder'[x].next = NULL
                        /\ \E x \in FilesOf(c)' : file'[x].next = NULL
    <3> TAKE c \in left
    <3>1. PICK x \in FoldersOf(c) : folder[x].next = NULL
      BY <2>1
    <3>2. PICK y \in FilesOf(c) : file[y].next = NULL
      BY <2>1
    <3>3. folder'[x] = folder[x] /\ file'[y] = file[y]
      BY <1>13
    <3>4. FoldersOf(c)' = FoldersOf(c) /\ FilesOf(c)' = FilesOf(c)
      BY <1>13
    <3> QED
      BY <3>1, <3>2, <3>3, <3>4
  <2> QED
    BY <1>14, <2>2 DEF ListsEnd
<1>16. PartsInSet'
  <2>1. \A c \in left : \A g \in FoldersOf(c) :
          folder[g].data # <<>> /\ \A n \in DOMAIN folder[g].data : folder[g].data[n] \in SetOf(c)
    BY <1>1, <1>13 DEF PartsInSet
  <2>2. \A c \in left : \A g \in FoldersOf(c)' :
          folder'[g].data # <<>> /\ \A n \in DOMAIN folder'[g].data : folder'[g].data[n] \in SetOf(c)'
    BY <1>13, <2>1
  <2> QED
    BY <1>14, <2>2 DEF PartsInSet
<1>17. FilesPointIntoSet'
  <2>1. \A c \in left : \A f \in FilesOf(c) : file[f].folder \in FoldersOf(c)
    BY <1>1, <1>13 DEF FilesPointIntoSet
  <2>2. \A c \in left : \A f \in FilesOf(c)' : file'[f].folder \in FoldersOf(c)'
    BY <1>13, <2>1
  <2> QED
    BY <1>14, <2>2 DEF FilesPointIntoSet
<1>18. SetSharesLists'
  <2>1. \A c, d \in left :
          IF d \in SetOf(c) THEN cab[c].files = cab[d].files /\ cab[c].folders = cab[d].folders
          ELSE FoldersOf(c) \cap FoldersOf(d) = {}
    BY <1>1, <1>13 DEF SetSharesLists
  <2>2. \A c, d \in left :
          IF d \in SetOf(c)' THEN cab'[c].files = cab'[d].files /\ cab'[c].folders = cab'[d].folders
          ELSE FoldersOf(c)' \cap FoldersOf(d)' = {}
    BY <1>13, <2>1
  <2> QED
    BY <1>14, <2>2 DEF SetSharesLists
<1>19. SetsLinked'
  <2>1. \A c \in Cab : ~Open(c)' => cab'[c] = NoCab
    <3> TAKE c \in Cab
    <3>1. CASE c \in gone
      BY <1>3, <3>1
    <3>2. CASE c \notin gone
      BY <1>1, <1>3, <1>6, <3>2 DEF SetsLinked
    <3> QED
      BY <3>1, <3>2
  <2>2. \A c, d \in Cab : cab'[c].nextcab = d <=> cab'[d].prevcab = c
    <3> TAKE c \in Cab, d \in Cab
    <3>0. cab[c].nextcab = d <=> cab[d].prevcab = c
      BY <1>1 DEF SetsLinked
    <3>1. CASE c \notin gone /\ d \notin gone
      BY <1>3, <3>0, <3>1
    <3>2. CASE c \in gone /\ d \in gone
      BY <1>1, <1>3, <1>5, <3>2
    <3>3. ASSUME cab[c].nextcab = d PROVE c \in gone <=> d \in gone
      <4>1. d \in SetOf(c) /\ c \in SetOf(d)
        <5>1. NextOf[c] = d /\ PrevOf[d] = c
          BY <3>0, <3>3 DEF NextOf, PrevOf
        <5>2. c \in Items(c, NextOf) /\ d \in Items(d, PrevOf)
          BY <1>10, ListUnfolds
        <5>3. d \in Items(c, NextOf) /\ c \in Items(d, PrevOf)
          BY <1>1, <1>10, <5>1, <5>2, ListBasics
        <5> QED
          BY <5>3 DEF SetOf
      <4> QED
        BY <1>2, <4>1
    <3>4. CASE c \in gone /\ d \notin gone
      BY <1>1, <1>3, <1>5, <3>0, <3>3, <3>4
    <3>5. CASE c \notin gone /\ d \in gone
      BY <1>1, <1>3, <1>5, <3>0, <3>3, <3>5
    <3> QED
      BY <3>1, <3>2, <3>4, <3>5
  <2> QED
    BY <2>1, <2>2 DEF SetsLinked
<1>20. ChainsKept'
  <2>1. \A x \in Cab : cab'[x].next \in Cab => x \notin gone
    BY <1>1, <1>3, <1>5
  <2>2. ASSUME NEW c \in Cab, NEW d \in Cab, cab'[c].next = d
        PROVE  Open(d)' /\ c # d /\ cab'[d].next = NULL /\ \A e \in Cab : cab'[e].next = d => e = c
    <3>1. c \notin gone /\ cab[c].next = d
      BY <1>3, <2>1, <2>2
    <3>2. Open(d) /\ c # d /\ cab[d].next = NULL /\ \A e \in Cab : cab[e].next = d => e = c
      BY <1>1, <3>1 DEF ChainsKept
    <3>3. d \notin gone
      BY <1>2, <3>1
    <3>4. \A e \in Cab : cab'[e].next = d => cab[e].next = d
      BY <1>3, <2>1
    <3> QED
      BY <1>3, <1>6, <3>2, <3>3, <3>4
  <2>3. \A x \in Cab : InChain(x)' => InChain(x)
    <3> TAKE x \in Cab
    <3>1. cab'[x].next # NULL => cab[x].next # NULL
      BY <1>3, <1>5
    <3>2. \A p \in Cab : cab'[p].next = x => cab[p].next = x
      BY <1>3, <2>1
    <3> QED
      BY <3>1, <3>2 DEF InChain
  <2>4. ASSUME NEW c \in Cab, Open(c)', NEW x \in SetOf(c)', NEW y \in SetOf(c)', InChain(x)', InChain(y)'
        PROVE  x = y
    <3>1. c \in left
      BY <1>14, <2>4
    <3>2. x \in SetOf(c) /\ y \in SetOf(c) /\ Open(c) /\ SetOf(c) \subseteq Cab
      BY <1>7, <1>13, <2>4, <3>1
    <3> QED
      BY <1>1, <2>3, <2>4, <3>2 DEF ChainsKept
  <2> QED
    BY <2>2, <2>4 DEF ChainsKept
<1>21. {g \in Folder : folder'[g].live} = UNION {FoldersOf(c)' : c \in {x \in Cab : Open(x)'}}
  <2>1. ASSUME NEW g \in Folder, folder'[g].live
        PROVE  \E c \in Cab : Open(c)' /\ g \in FoldersOf(c)'
    <3>1. g \notin goneFol /\ folder[g].live
      BY <1>4, <1>5, <2>1
    <3>2. PICK c \in Cab : Open(c) /\ g \in FoldersOf(c)
      BY <3>1, LiveIsListed
    <3>3. c \notin gone
      BY <3>1, <3>2 DEF goneFol
    <3> QED
      BY <1>6, <1>12, <3>2, <3>3
  <2>2. ASSUME NEW c \in Cab, Open(c)', NEW g \in FoldersOf(c)'
        PROVE  g \in Folder /\ folder'[g].live
    <3>1. c \in left
      BY <1>14, <2>2
    <3>2. g \in FoldersOf(c) /\ folder'[g] = folder[g] /\ Open(c)
      BY <1>13, <2>2, <3>1
    <3> QED
      BY <3>2, ListFacts
  <2>3. \A g : g \in UNION {FoldersOf(c)' : c \in {x \in Cab : Open(x)'}}
               <=> \E c \in Cab : Open(c)' /\ g \in FoldersOf(c)'
    OBVIOUS
  <2> QED
    BY <2>1, <2>2, <2>3
<1>22. {f \in File : file'[f].live} = UNION {FilesOf(c)' : c \in {x \in Cab : Open(x)'}}
  <2>1. ASSUME NEW g \in File, file'[g].live
        PROVE  \E c \in Cab : Open(c)' /\ g \in FilesOf(c)'
    <3>1. g \notin goneFil /\ file[g].live
      BY <1>4, <1>5, <2>1
    <3>2. PICK c \in Cab : Open(c) /\ g \in FilesOf(c)
      BY <3>1, LiveIsListed
    <3>3. c \notin gone
      BY <3>1, <3>2 DEF goneFil
    <3> QED
      BY <1>6, <1>12, <3>2, <3>3
  <2>2. ASSUME NEW c \in Cab, Open(c)', NEW g \in FilesOf(c)'
        PROVE  g \in File /\ file'[g].live
    <3>1. c \in left
      BY <1>14, <2>2
    <3>2. g \in FilesOf(c) /\ file'[g] = file[g] /\ Open(c)
      BY <1>13, <2>2, <3>1
    <3> QED
      BY <3>2, ListFacts
  <2> QED
    BY <2>1, <2>2
<1>23. ListsHoldTheHeap'
  BY <1>21, <1>22 DEF ListsHoldTheHeap
<1> QED
  BY <1>6, <1>13, <1>14, <1>15, <1>16, <1>17, <1>18, <1>19, <1>20, <1>23 DEF Graph

LEMMA CloseGraph ==
  ASSUME Graph, TypeInv', NEW c \in Cab, Close(c)
  PROVE  Graph' /\ memErr' = memErr
<1> DEFINE freed == Freed(c)
<1>1. /\ WholeSets(freed.cabs) /\ ~freed.err
      /\ freed.folders = UNION {FoldersOf(x) : x \in freed.cabs}
      /\ freed.files = UNION {FilesOf(x) : x \in freed.cabs}
  BY FreedWhole DEF Close
<1>2. /\ cab' = [x \in Cab |-> IF x \in freed.cabs THEN NoCab ELSE cab[x]]
      /\ folder' = [x \in Folder |-> IF x \in freed.folders THEN NoFolder ELSE folder[x]]
      /\ file' = [x \in File |-> IF x \in freed.files THEN NoFile ELSE file[x]]
      /\ memErr' = (memErr \/ freed.err)
  BY DEF Close
<1> HIDE DEF freed
<1>3. Graph'
  BY <1>1, <1>2, WholeSetsGone
<1>4. memErr \in BOOLEAN
  BY DEF Graph, TypeInv, TypeOK
<1> QED
  BY <1>1, <1>2, <1>3, <1>4

LEMMA StillGraph ==
  ASSUME Graph, UNCHANGED <<cab, folder, file>>, TypeInv'
  PROVE  /\ Graph'
         /\ \A c \in Cab : (Open(c)' <=> Open(c)) /\ FoldersOf(c)' = FoldersOf(c) /\ FilesOf(c)' = FilesOf(c)
<1>1. \A c \in Cab : /\ Open(c)' <=> Open(c)
                     /\ SetOf(c)' = SetOf(c) /\ FoldersOf(c)' = FoldersOf(c) /\ FilesOf(c)' = FilesOf(c)
                     /\ InChain(c)' <=> InChain(c)
  BY DEF Open, SetOf, FoldersOf, FilesOf, InChain, PrevOf, NextOf, FolNext, FilNext
<1>2. ListsEnd' /\ PartsInSet'
  BY <1>1 DEF Graph, ListsEnd, PartsInSet
<1>3. SetsLinked'
  BY <1>1 DEF Graph, SetsLinked
<1>4. ChainsKept'
  <2>1. ChainsKept
    BY DEF Graph
  <2>2. \A c \in Cab : SetOf(c) \subseteq Cab
    BY SetFacts DEF Graph
  <2> QED
    BY <1>1, <2>1, <2>2 DEF ChainsKept
<1>5. SetSharesLists' /\ FilesPointIntoSet'
  BY <1>1 DEF Graph, SetSharesLists, FilesPointIntoSet
<1>6. ListsHoldTheHeap'
  BY <1>1 DEF Graph, ListsHoldTheHeap
<1> QED
  BY <1>1, <1>2, <1>3, <1>4, <1>5, <1>6 DEF Graph

-----------------------------------------------------------------------------
(* The graph in every reachable state.                                      *)

\* What an open() or search() that succeeds has done.
Loading(S, img, succ) ==
  /\ S \in SUBSET Cab /\ img \in [S -> Image] /\ succ \in [S -> Cab \cup {NULL}]
  /\ ShortChains(S, succ)
  /\ \A c \in S : Unallocated(c) /\ Readable(img[c])
  /\ Load(img, succ)

LEMMA OpenLoads ==
  ASSUME NEW c \in Cab, NEW i \in Image, OpenCab(c, i)
  PROVE  \E S, img, succ : Loading(S, img, succ)
<1>1. [x \in {c} |-> i] \in [{c} -> Image] /\ [x \in {c} |-> NULL] \in [{c} -> Cab \cup {NULL}]
  OBVIOUS
<1>2. \A x \in {c} : Unallocated(x) /\ Readable([y \in {c} |-> i][x])
  BY DEF OpenCab
<1>3. ShortChains({c}, [x \in {c} |-> NULL])
  BY DEF ShortChains
<1>4. Load([x \in {c} |-> i], [x \in {c} |-> NULL])
  BY DEF OpenCab
<1>5. Loading({c}, [x \in {c} |-> i], [x \in {c} |-> NULL])
  BY <1>1, <1>2, <1>3, <1>4 DEF Loading
<1> QED
  BY <1>5

LEMMA SearchLoads ==
  ASSUME NEW c \in Cab, NEW d \in Cab, NEW i \in Image, NEW j \in Image, Search(c, d, i, j)
  PROVE  \E S, img, succ : Loading(S, img, succ)
<1> DEFINE img == [x \in {c, d} |-> IF x = c THEN i ELSE j]
           succ == [x \in {c, d} |-> IF x = c THEN d ELSE NULL]
<1>1. img \in [{c, d} -> Image] /\ succ \in [{c, d} -> Cab \cup {NULL}]
  OBVIOUS
<1>2. \A x \in {c, d} : Unallocated(x) /\ Readable(img[x])
  BY DEF Search
<1>3. c # d /\ succ[c] = d /\ succ[d] = NULL /\ NULL \notin Cab
  BY FiniteHeap DEF Search
<1>4. Load(img, succ)
  BY DEF Search
<1> HIDE DEF img, succ
<1>5. ShortChains({c, d}, succ)
  BY <1>3 DEF ShortChains
<1>6. Loading({c, d}, img, succ)
  BY <1>1, <1>2, <1>4, <1>5 DEF Loading
<1> QED
  BY <1>6

LEMMA GraphNext == ASSUME ~JoinChains, Graph, [Next]_vars PROVE Graph'
<1>1. TypeInv'
  BY TypeInvNext DEF Graph
<1>2. ASSUME NEW S, NEW img, NEW succ, Loading(S, img, succ) PROVE Graph'
  BY <1>1, <1>2, LoadGraph DEF Loading
<1>3. ASSUME NEW c \in Cab, NEW i \in Image, OpenCab(c, i) PROVE Graph'
  BY <1>2, <1>3, OpenLoads
<1>4. ASSUME NEW c \in Cab, NEW d \in Cab, NEW i \in Image, NEW j \in Image, Search(c, d, i, j)
      PROVE  Graph'
  BY <1>2, <1>4, SearchLoads
<1>5. ASSUME NEW c \in Cab, NEW i \in Image, NEW n \in 0..MaxFolders, NEW k \in 0..MaxFiles,
             OpenFails(c, i, n, k)
      PROVE  Graph'
  <2>0. n \in Nat /\ k \in Nat
    BY ImageType
  <2> QED
    BY <1>1, <1>5, <2>0, OpenFailsStill, StillGraph DEF Graph
<1>6. ASSUME NEW l \in Cab, NEW r \in Cab, MergeRejected(l, r) PROVE Graph'
  BY <1>1, <1>6, StillGraph DEF MergeRejected
<1>7. ASSUME NEW l \in Cab, NEW r \in Cab, MergePlain(l, r) PROVE Graph'
  BY <1>1, <1>7, MergePlainGraph
<1>8. ASSUME NEW l \in Cab, NEW r \in Cab, MergeFolders(l, r) PROVE Graph'
  BY <1>1, <1>8, MergeFoldersGraph
<1>9. ASSUME NEW f \in File, ExtractRefused(f) PROVE Graph'
  BY <1>1, <1>9, StillGraph DEF ExtractRefused
<1>10. ASSUME NEW f \in File, ExtractRestart(f) PROVE Graph'
  BY <1>1, <1>10, StillGraph DEF ExtractRestart
<1>11. ASSUME NEW f \in File, ExtractOnwards(f) PROVE Graph'
  BY <1>1, <1>11, StillGraph DEF ExtractOnwards
<1>12. ASSUME NEW c \in Cab, Close(c) PROVE Graph'
  BY <1>1, <1>12, CloseGraph
<1>13. CASE UNCHANGED vars
  BY <1>1, <1>13, StillGraph DEF vars
<1> QED
  BY <1>3, <1>4, <1>5, <1>6, <1>7, <1>8, <1>9, <1>10, <1>11, <1>12, <1>13 DEF Next

LEMMA GraphInit == Init => Graph
<1> SUFFICES ASSUME Init PROVE Graph
  OBVIOUS
<1>1. TypeInv
  BY InitTypeInv
<1>2. /\ \A c \in Cab : ~Open(c) /\ cab[c] = NoCab /\ cab[c].next = NULL
                        /\ cab[c].nextcab = NULL /\ cab[c].prevcab = NULL
      /\ \A g \in Folder : ~folder[g].live
      /\ \A f \in File : ~file[f].live
  BY DEF Init, Open, NoCab, NoFolder, NoFile
<1>3. ListsEnd /\ PartsInSet /\ SetSharesLists /\ FilesPointIntoSet /\ ListsHoldTheHeap
  BY <1>2 DEF ListsEnd, PartsInSet, SetSharesLists, FilesPointIntoSet, ListsHoldTheHeap
<1>4. SetsLinked /\ ChainsKept
  BY <1>2, FiniteHeap DEF SetsLinked, ChainsKept
<1> QED
  BY <1>1, <1>3, <1>4 DEF Graph

\* For a caller that keeps to the documentation of close(), what is allocated is
\* at all times exactly what the lists of the open cabinets hold: cabd_merge
\* loses no file and no folder, and cabd_close leaves nothing behind.
THEOREM HeapIsListed == ASSUME ~JoinChains PROVE Spec => []ListsHoldTheHeap
<1>1. Init => Graph
  BY GraphInit
<1>2. Graph /\ [Next]_vars => Graph'
  BY GraphNext
<1>3. Graph => ListsHoldTheHeap
  BY DEF Graph
<1> QED
  BY <1>1, <1>2, <1>3, PTL DEF Spec

\* For the same caller, all cabinets of a set hold the same file list and the
\* same folder list after any sequence of append() and prepend(), and cabinets
\* of different sets share no folder.
THEOREM SetsShare == ASSUME ~JoinChains PROVE Spec => []SetSharesLists
<1>1. Init => Graph
  BY GraphInit
<1>2. Graph /\ [Next]_vars => Graph'
  BY GraphNext
<1>3. Graph => SetSharesLists
  BY DEF Graph
<1> QED
  BY <1>1, <1>2, <1>3, PTL DEF Spec

\* An entry that continues a file of a neighbouring part is kept.
LEMMA JointKept ==
  ASSUME JointsWellFormed, NEW i \in Image, Readable(i), NEW k \in DOMAIN ImageFiles[i],
         ImageFiles[i][k].fidx \in {65533, 65534, 65535}
  PROVE  k \in Kept(i)
<1>1. ImageFiles[i][k].fidx >= FROM_PREV
  OBVIOUS
<1>2. ImageFiles[i][k].named
  BY <1>1 DEF JointsWellFormed
<1> QED
  BY <1>1, <1>2 DEF Kept, GoodEntry

\* A merge pointer of a folder just read points at a file of that folder.
LEMMA FirstWithKept ==
  ASSUME JointsWellFormed, NEW c \in Cab, NEW i \in Image, Readable(i),
         NEW xs, xs \subseteq {FROM_PREV, TO_NEXT, PREV_AND_NEXT},
         FirstWith(c, i, xs) # NULL
  PROVE  \E k \in Kept(i) : FirstWith(c, i, xs) = <<c, k>> /\ ImageFiles[i][k].fidx \in xs
<1> DEFINE ks == {k \in DOMAIN ImageFiles[i] : ImageFiles[i][k].fidx \in xs}
<1>1. FirstWith(c, i, xs) = <<c, Least(ks)>> /\ ks # {}
  BY DEF FirstWith
<1>2. ks \in SUBSET Nat
  BY ImageType
<1>3. Least(ks) \in ks
  BY <1>1, <1>2, LeastIsIn
<1> DEFINE k == Least(ks)
<1>4. k \in DOMAIN ImageFiles[i] /\ ImageFiles[i][k].fidx \in xs
  BY <1>3
<1> HIDE DEF k
<1>5. ImageFiles[i][k].fidx \in {65533, 65534, 65535}
  <2> DEFINE x == ImageFiles[i][k].fidx
  <2>1. x \in xs
    BY <1>4
  <2> HIDE DEF x
  <2>2. x \in {65533, 65534, 65535}
    BY <2>1
  <2> QED
    BY <2>2 DEF x
<1>6. k \in Kept(i)
  BY <1>4, <1>5, JointKept
<1>7. FirstWith(c, i, xs) = <<c, k>>
  BY <1>1 DEF k
<1> QED
  BY <1>4, <1>6, <1>7

LEMMA MergeLoad ==
  ASSUME Graph, TypeInv', JointsWellFormed, MergePointersValid,
         NEW S, NEW img, NEW succ, Loading(S, img, succ)
  PROVE  MergePointersValid'
<1>1. /\ S \subseteq Cab
      /\ \A c \in S : img[c] \in Image /\ Unallocated(c) /\ Readable(img[c])
      /\ \A g \in Folder : IF g[1] \in S /\ g[2] \in 1..Len(ImageFolders[img[g[1]]])
                             THEN folder'[g] = NewFolder(g[1], img[g[1]], g[2])
                             ELSE folder'[g] = folder[g]
      /\ \A f \in File : IF f[1] \in S /\ f[2] \in Kept(img[f[1]])
                           THEN file'[f] = NewFile(f[1], img[f[1]], f[2])
                           ELSE file'[f] = file[f]
  BY LoadGraph DEF Loading
<1>2. TypeInv
  BY DEF Graph
<1> SUFFICES ASSUME NEW g \in Folder, folder'[g].live,
                    NEW m \in {folder'[g].merge_prev, folder'[g].merge_next} \ {NULL}
             PROVE  file'[m].live /\ file'[m].folder = g
  BY DEF MergePointersValid
<1>3. CASE g[1] \in S /\ g[2] \in 1..Len(ImageFolders[img[g[1]]])
  <2> DEFINE c == g[1]
             i == img[g[1]]
             n == g[2]
  <2>0. c \in Cab /\ i \in Image /\ Readable(i) /\ g = <<c, n>> /\ c \in S
    BY <1>1, <1>3 DEF Folder
  <2>1. folder'[g] = NewFolder(c, i, n)
    BY <1>1, <1>3
  <2>2. \/ n = 1 /\ m = FirstWith(c, i, {FROM_PREV, PREV_AND_NEXT})
        \/ n = Len(ImageFolders[i]) /\ m = FirstWith(c, i, {TO_NEXT, PREV_AND_NEXT})
    BY <2>1 DEF NewFolder
  <2> HIDE DEF c, i, n
  <2>3. PICK k \in Kept(i) :
          /\ m = <<c, k>>
          /\ \/ n = 1 /\ ImageFiles[i][k].fidx \in {FROM_PREV, PREV_AND_NEXT}
             \/ n = Len(ImageFolders[i]) /\ ImageFiles[i][k].fidx \in {TO_NEXT, PREV_AND_NEXT}
    <3>1. CASE n = 1 /\ m = FirstWith(c, i, {FROM_PREV, PREV_AND_NEXT})
      <4>1. {FROM_PREV, PREV_AND_NEXT} \subseteq {FROM_PREV, TO_NEXT, PREV_AND_NEXT}
        OBVIOUS
      <4>2. FirstWith(c, i, {FROM_PREV, PREV_AND_NEXT}) # NULL
        BY <3>1
      <4>3. \E k \in Kept(i) : FirstWith(c, i, {FROM_PREV, PREV_AND_NEXT}) = <<c, k>>
                               /\ ImageFiles[i][k].fidx \in {FROM_PREV, PREV_AND_NEXT}
        BY <2>0, <4>1, <4>2, FirstWithKept
      <4> QED
        BY <3>1, <4>3
    <3>2. CASE n = Len(ImageFolders[i]) /\ m = FirstWith(c, i, {TO_NEXT, PREV_AND_NEXT})
      <4>1. {TO_NEXT, PREV_AND_NEXT} \subseteq {FROM_PREV, TO_NEXT, PREV_AND_NEXT}
        OBVIOUS
      <4>2. FirstWith(c, i, {TO_NEXT, PREV_AND_NEXT}) # NULL
        BY <3>2
      <4>3. \E k \in Kept(i) : FirstWith(c, i, {TO_NEXT, PREV_AND_NEXT}) = <<c, k>>
                               /\ ImageFiles[i][k].fidx \in {TO_NEXT, PREV_AND_NEXT}
        BY <2>0, <4>1, <4>2, FirstWithKept
      <4> QED
        BY <3>2, <4>3
    <3> QED
      BY <2>2, <3>1, <3>2
  <2>4. EntryFolder(i, k) = n
    <3>1. k \in DOMAIN ImageFiles[i]
      BY DEF Kept
    <3>2. CASE ImageFiles[i][k].fidx = PREV_AND_NEXT
      <4>1. Len(ImageFolders[i]) = 1
        BY <2>0, <3>1, <3>2 DEF JointsWellFormed
      <4> QED
        BY <2>3, <3>2, <4>1 DEF EntryFolder
    <3>3. CASE ImageFiles[i][k].fidx # PREV_AND_NEXT
      BY <2>3, <3>3 DEF EntryFolder, FROM_PREV, TO_NEXT, PREV_AND_NEXT
    <3> QED
      BY <3>2, <3>3
  <2>5. m \in File /\ m[1] = c /\ m[2] = k
    BY <2>0, <2>3, KeptType DEF File
  <2>6. file'[m] = NewFile(c, i, k)
    BY <1>1, <2>0, <2>5 DEF c, i
  <2> QED
    BY <2>0, <2>4, <2>6 DEF NewFile
<1>4. CASE ~(g[1] \in S /\ g[2] \in 1..Len(ImageFolders[img[g[1]]]))
  <2>1. folder'[g] = folder[g]
    BY <1>1, <1>4
  <2>2. m \in File
    BY <1>2, <2>1 DEF TypeInv, TypeOK, FolderObj
  <2>3. file[m].live /\ file[m].folder = g
    BY <2>1 DEF MergePointersValid
  <2>4. ~(m[1] \in S /\ m[2] \in Kept(img[m[1]]))
    <3> SUFFICES ASSUME m[1] \in S, m[2] \in Kept(img[m[1]]) PROVE FALSE
      OBVIOUS
    <3>1. m = <<m[1], m[2]>> /\ m[2] \in 1..MaxFiles
      BY <2>2 DEF File
    <3>2. ~file[<<m[1], m[2]>>].live
      BY <1>1, <3>1 DEF Unallocated
    <3> QED
      BY <2>3, <3>1, <3>2
  <2>5. file'[m] = file[m]
    BY <1>1, <2>2, <2>4
  <2> QED
    BY <2>3, <2>5
<1> QED
  BY <1>3, <1>4

\* What cabd_merge reads of the two folders and their files is allocated.
LEMMA MergeReadsLive ==
  ASSUME Graph, MergePointersValid, NEW l \in Cab, NEW r \in Cab, Open(l), Open(r)
  PROVE  ~MergeUsesFreed(LeftFolder(l), cab[r].folders)
<1> DEFINE lf == LeftFolder(l)
           rf == cab[r].folders
<1>1. lf \in Folder /\ rf \in Folder /\ folder[lf].live /\ folder[rf].live
  BY LastsFound, ListFacts
<1> HIDE DEF lf, rf
<1>2. TypeInv /\ NULL \notin File
  BY FiniteHeap DEF Graph
<1>3. \A m \in File : file[m].live => \A f \in Items(m, FilNext) : file[f].live
  <2> TAKE m \in File
  <2> HAVE file[m].live
  <2>1. PICK c \in Cab : Open(c) /\ m \in FilesOf(c)
    BY LiveIsListed
  <2>2. Links(FilNext, File) /\ cab[c].files \in File \cup {NULL}
    BY <1>2, <2>1, HeapLinks, LastsFound
  <2>3. Items(m, FilNext) \subseteq FilesOf(c)
    BY <2>1, <2>2, ListTail DEF FilesOf
  <2> QED
    BY <2>1, <2>3, ListFacts
<1>4. ComparesFiles(lf, rf) => \A f \in MergeReads(lf, rf) : file[f].live
  <2> HAVE ComparesFiles(lf, rf)
  <2>1. folder[lf].merge_next # NULL /\ folder[rf].merge_prev # NULL
    BY DEF ComparesFiles
  <2>2. /\ folder[lf].merge_next \in File /\ file[folder[lf].merge_next].live
        /\ folder[rf].merge_prev \in File /\ file[folder[rf].merge_prev].live
    BY <1>1, <1>2, <2>1 DEF MergePointersValid, TypeInv, TypeOK, FolderObj
  <2> QED
    BY <1>3, <2>2 DEF MergeReads
<1>5. ~ComparesFiles(lf, rf) => MergeReads(lf, rf) = {}
  BY DEF MergeReads
<1>6. ~MergeUsesFreed(lf, rf)
  BY <1>1, <1>4, <1>5 DEF MergeUsesFreed
<1> QED
  BY <1>6 DEF lf, rf

LEMMA MergeMerge ==
  ASSUME Graph, TypeInv', MergePointersValid, NEW l \in Cab, NEW r \in Cab, MergeFolders(l, r)
  PROVE  MergePointersValid' /\ memErr' = memErr
<1> DEFINE lf == LeftFolder(l)
           rf == cab[r].folders
           gone == Duplicates(l, r)
<1>1. /\ Open(l) /\ Open(r) /\ memErr' = (memErr \/ MergeUsesFreed(lf, rf))
  BY DEF MergeFolders, MayJoin, RightFolder
<1>2. /\ lf \in FoldersOf(l) /\ rf \in FoldersOf(r) /\ lf # rf
      /\ \A g \in Folder \ {lf, rf} : folder'[g] = folder[g]
      /\ folder'[lf].live = folder[lf].live /\ ~folder'[rf].live
  BY MergeFoldersList
<1>3. /\ gone \subseteq FilesOf(r)
      /\ \A f \in File \ (FilesOf(l) \cup FilesOf(r)) : file'[f] = file[f]
      /\ \A f \in (FilesOf(l) \cup FilesOf(r)) \ gone :
           file'[f].live = file[f].live /\ file'[f].folder = file[f].folder
      /\ \A f \in gone : file[f].folder = rf
  BY MergeFoldersFiles
<1>4. TypeInv /\ NULL \notin File
  BY FiniteHeap DEF Graph
<1>5. lf \in Folder /\ rf \in Folder /\ folder[lf].live /\ folder[rf].live
  BY <1>1, <1>2, ListFacts
<1>6. folder'[lf].merge_prev = folder[lf].merge_prev
      /\ folder'[lf].merge_next = JoinedMergeNext(lf, rf)
  <2> DEFINE new == [folder[lf] EXCEPT !.data = JoinedData(lf, rf),
                             !.blocks = JoinedBlocks(lf, rf),
                             !.merge_next = JoinedMergeNext(lf, rf),
                             !.next = folder[rf].next]
  <2>1. folder' = [folder EXCEPT ![lf] = new, ![rf] = NoFolder]
    BY DEF MergeFolders, RightFolder
  <2>2. new.merge_prev = folder[lf].merge_prev /\ new.merge_next = JoinedMergeNext(lf, rf)
    BY <1>4, <1>5 DEF TypeInv, TypeOK, FolderObj
  <2> HIDE DEF new, rf, lf
  <2>3. folder'[lf] = new
    BY <1>2, <1>4, <1>5, <2>1 DEF TypeInv, TypeOK
  <2> QED
    BY <2>2, <2>3
<1> HIDE DEF lf, rf, gone
<1>7. \A g \in Folder : folder[g].live =>
        \A m \in {folder[g].merge_prev, folder[g].merge_next} \ {NULL} :
          m \in File /\ file[m].live /\ file[m].folder = g
  BY <1>4 DEF MergePointersValid, TypeInv, TypeOK, FolderObj
<1>8. \A m \in File : file[m].live /\ file[m].folder # rf => file'[m].live /\ file'[m].folder = file[m].folder
  <2> TAKE m \in File
  <2> HAVE file[m].live /\ file[m].folder # rf
  <2>1. m \notin gone
    BY <1>3
  <2> QED
    BY <1>3, <2>1
<1>9. folder'[lf].merge_next \in {folder[lf].merge_next, NULL}
  <2>1. folder[rf].merge_next # NULL => file[folder[rf].merge_next].folder = rf
    BY <1>5, <1>7
  <2> QED
    BY <1>6, <2>1 DEF JoinedMergeNext
<1>10. MergePointersValid'
  <2> SUFFICES ASSUME NEW g \in Folder, folder'[g].live,
                      NEW m \in {folder'[g].merge_prev, folder'[g].merge_next} \ {NULL}
               PROVE  file'[m].live /\ file'[m].folder = g
    BY DEF MergePointersValid
  <2>1. g # rf
    BY <1>2
  <2>2. folder[g].live /\ m \in {folder[g].merge_prev, folder[g].merge_next} \ {NULL}
    <3>1. CASE g = lf
      BY <1>5, <1>6, <1>9, <3>1
    <3>2. CASE g # lf
      BY <1>2, <2>1, <3>2
    <3> QED
      BY <3>1, <3>2
  <2>3. m \in File /\ file[m].live /\ file[m].folder = g
    BY <1>7, <2>2
  <2> QED
    BY <1>8, <2>1, <2>3
<1>11. memErr' = memErr
  <2>1. memErr \in BOOLEAN
    BY <1>4 DEF TypeInv, TypeOK
  <2>2. ~MergeUsesFreed(lf, rf)
    BY <1>1, MergeReadsLive DEF lf, rf
  <2> QED
    BY <1>1, <2>1, <2>2
<1> QED
  BY <1>10, <1>11

LEMMA MergeRejectedKeeps ==
  ASSUME Graph, MergePointersValid, NEW l \in Cab, NEW r \in Cab, MergeRejected(l, r)
  PROVE  MergePointersValid' /\ memErr' = memErr
<1>1. Open(l) /\ Open(r) /\ UNCHANGED <<folder, file>>
  BY DEF MergeRejected, MayJoin
<1>2. memErr' \in {memErr, memErr \/ MergeUsesFreed(LeftFolder(l), cab[r].folders)}
  BY DEF MergeRejected, RightFolder
<1>3. ~MergeUsesFreed(LeftFolder(l), cab[r].folders) /\ memErr \in BOOLEAN
  BY <1>1, MergeReadsLive DEF Graph, TypeInv, TypeOK
<1>4. MergePointersValid'
  BY <1>1 DEF MergePointersValid
<1> QED
  BY <1>2, <1>3, <1>4

LEMMA MergeClose ==
  ASSUME Graph, TypeInv', MergePointersValid, NEW c \in Cab, Close(c)
  PROVE  MergePointersValid'
<1> DEFINE freed == Freed(c)
<1>1. /\ WholeSets(freed.cabs)
      /\ freed.folders = UNION {FoldersOf(x) : x \in freed.cabs}
      /\ freed.files = UNION {FilesOf(x) : x \in freed.cabs}
  BY FreedWhole DEF Close
<1>2. /\ folder' = [x \in Folder |-> IF x \in freed.folders THEN NoFolder ELSE folder[x]]
      /\ file' = [x \in File |-> IF x \in freed.files THEN NoFile ELSE file[x]]
  BY DEF Close
<1> HIDE DEF freed
<1> SUFFICES ASSUME NEW g \in Folder, folder'[g].live,
                    NEW m \in {folder'[g].merge_prev, folder'[g].merge_next} \ {NULL}
             PROVE  file'[m].live /\ file'[m].folder = g
  BY DEF MergePointersValid
<1>3. g \notin freed.folders /\ folder'[g] = folder[g]
  BY <1>2 DEF NoFolder
<1>4. m \in File /\ file[m].live /\ file[m].folder = g
  BY <1>3 DEF MergePointersValid, Graph, TypeInv, TypeOK, FolderObj
<1>5. m \notin freed.files
  <2> SUFFICES ASSUME NEW x \in freed.cabs, m \in FilesOf(x) PROVE FALSE
    BY <1>1
  <2>1. x \in Cab /\ Open(x)
    BY <1>1 DEF WholeSets
  <2>2. file[m].folder \in FoldersOf(x)
    BY <2>1 DEF Graph, FilesPointIntoSet
  <2> QED
    BY <1>1, <1>3, <1>4, <2>2
<1> QED
  BY <1>2, <1>4, <1>5

LEMMA MergeStill ==
  ASSUME MergePointersValid, UNCHANGED <<folder, file>>
  PROVE  MergePointersValid'
BY DEF MergePointersValid

LEMMA MergePlainKeeps ==
  ASSUME TypeInv, MergePointersValid, NEW l \in Cab, NEW r \in Cab, MergePlain(l, r)
  PROVE  MergePointersValid'
<1>1. \A g \in Folder : /\ folder'[g].live = folder[g].live
                        /\ folder'[g].merge_prev = folder[g].merge_prev
                        /\ folder'[g].merge_next = folder[g].merge_next
  BY DEF MergePlain, TypeInv, TypeOK, FolderObj
<1>2. \A f \in File : file'[f].live = file[f].live /\ file'[f].folder = file[f].folder
  BY DEF MergePlain, TypeInv, TypeOK, FileObj
<1>3. \A g \in Folder : {folder[g].merge_prev, folder[g].merge_next} \ {NULL} \subseteq File
  BY DEF TypeInv, TypeOK, FolderObj
<1> QED
  BY <1>1, <1>2, <1>3 DEF MergePointersValid

SafeGraph == Graph /\ MergePointersValid /\ ~memErr

LEMMA SafeNext == ASSUME ~JoinChains, JointsWellFormed, SafeGraph, [Next]_vars PROVE SafeGraph'
<1>0. Graph /\ MergePointersValid /\ ~memErr /\ Graph' /\ TypeInv /\ TypeInv'
  BY GraphNext, TypeInvNext DEF SafeGraph, Graph
<1> SUFFICES MergePointersValid' /\ memErr' = memErr
  BY <1>0 DEF SafeGraph
<1>2. ASSUME NEW S, NEW img, NEW succ, Loading(S, img, succ)
      PROVE  MergePointersValid' /\ memErr' = memErr
  BY <1>0, <1>2, MergeLoad DEF Loading, Load
<1>3. ASSUME NEW c \in Cab, NEW i \in Image, OpenCab(c, i)
      PROVE  MergePointersValid' /\ memErr' = memErr
  BY <1>2, <1>3, OpenLoads
<1>4. ASSUME NEW c \in Cab, NEW d \in Cab, NEW i \in Image, NEW j \in Image, Search(c, d, i, j)
      PROVE  MergePointersValid' /\ memErr' = memErr
  BY <1>2, <1>4, SearchLoads
<1>5. ASSUME NEW c \in Cab, NEW i \in Image, NEW n \in 0..MaxFolders, NEW k \in 0..MaxFiles,
             OpenFails(c, i, n, k)
      PROVE  MergePointersValid' /\ memErr' = memErr
  <2>0. n \in Nat /\ k \in Nat
    BY ImageType
  <2> QED
    BY <1>0, <1>5, <2>0, OpenFailsStill, MergeStill
<1>6. ASSUME NEW l \in Cab, NEW r \in Cab, MergeRejected(l, r)
      PROVE  MergePointersValid' /\ memErr' = memErr
  BY <1>0, <1>6, MergeRejectedKeeps
<1>7. ASSUME NEW l \in Cab, NEW r \in Cab, MergePlain(l, r)
      PROVE  MergePointersValid' /\ memErr' = memErr
  BY <1>0, <1>7, MergePlainKeeps DEF MergePlain
<1>8. ASSUME NEW l \in Cab, NEW r \in Cab, MergeFolders(l, r)
      PROVE  MergePointersValid' /\ memErr' = memErr
  BY <1>0, <1>8, MergeMerge
<1>9. ASSUME NEW f \in File, ExtractRefused(f) PROVE MergePointersValid' /\ memErr' = memErr
  BY <1>0, <1>9, MergeStill DEF ExtractRefused
<1>10. ASSUME NEW f \in File, ExtractRestart(f) PROVE MergePointersValid' /\ memErr' = memErr
  BY <1>0, <1>10, MergeStill DEF ExtractRestart
<1>11. ASSUME NEW f \in File, ExtractOnwards(f) PROVE MergePointersValid' /\ memErr' = memErr
  BY <1>0, <1>11, MergeStill DEF ExtractOnwards
<1>12. ASSUME NEW c \in Cab, Close(c) PROVE MergePointersValid' /\ memErr' = memErr
  BY <1>0, <1>12, MergeClose, CloseGraph
<1>13. CASE UNCHANGED vars
  BY <1>0, <1>13, MergeStill DEF vars
<1> QED
  BY <1>3, <1>4, <1>5, <1>6, <1>7, <1>8, <1>9, <1>10, <1>11, <1>12, <1>13 DEF Next

LEMMA SafeInit == Init => SafeGraph
BY GraphInit DEF Init, SafeGraph, MergePointersValid, NoFolder

LEMMA ListedIsSound == Graph => \A f \in File : Listed(f) => Sound(f)
<1> SUFFICES ASSUME Graph, NEW f \in File, NEW c \in Cab, Open(c), f \in FilesOf(c)
             PROVE  Sound(f)
  BY DEF Listed
<1>1. file[f].live
  BY ListFacts
<1>2. file[f].folder \in FoldersOf(c)
  BY DEF Graph, FilesPointIntoSet
<1>3. file[f].folder \in Folder /\ folder[file[f].folder].live /\ file[f].folder # NULL
  BY <1>2, ListFacts, FiniteHeap
<1>4. /\ folder[file[f].folder].data # <<>>
      /\ \A n \in DOMAIN folder[file[f].folder].data : folder[file[f].folder].data[n] \in SetOf(c)
  BY <1>2 DEF Graph, PartsInSet
<1>5. \A x \in SetOf(c) : Open(x)
  BY SetFacts DEF Graph
<1> QED
  BY <1>1, <1>3, <1>4, <1>5 DEF Sound

\* For the same caller, and for parts whose entries at the joints are whole, the
\* folder of a file, the cabinets of a folder's blocks and both merge pointers
\* point into the set they are reached from, through every join and close.
THEOREM PointersStayInSet == ASSUME ~JoinChains, JointsWellFormed PROVE Spec => []PointersIntoSet
<1>1. Init => SafeGraph
  BY SafeInit
<1>2. SafeGraph /\ [Next]_vars => SafeGraph'
  BY SafeNext
<1>3. SafeGraph => PointersIntoSet
  BY DEF SafeGraph, Graph, PointersIntoSet
<1> QED
  BY <1>1, <1>2, <1>3, PTL DEF Spec

\* Under the same two conditions no sequence of calls makes the library free an
\* object twice or read a freed one: cabd_close frees each list once, cabd_merge
\* compares live files, and every file that is listed can be extracted.
THEOREM FreedIsNeverUsed == ASSUME ~JoinChains, JointsWellFormed PROVE Spec => []NoMemoryError
<1>1. Init => SafeGraph
  BY SafeInit
<1>2. SafeGraph /\ [Next]_vars => SafeGraph'
  BY SafeNext
<1>3. SafeGraph => NoMemoryError
  BY ListedIsSound DEF SafeGraph, NoMemoryError
<1> QED
  BY <1>1, <1>2, <1>3, PTL DEF Spec

-----------------------------------------------------------------------------
(* What a joined folder is made of.                                         *)

\* The partial sums of s up to the first N.
Sums(s, N, sum) == sum = [n \in 0..N |-> IF n = 0 THEN 0 ELSE sum[n - 1] + s[n]]

LEMMA SumsExist ==
  ASSUME NEW s, NEW N \in Nat
  PROVE  \E sum : Sums(s, N, sum)
<1> DEFINE S == {n \in Nat : ~\E sum : Sums(s, n, sum)}
<1> SUFFICES ASSUME S # {} PROVE FALSE
  OBVIOUS
<1>1. PICK k \in S : \A j \in S : k <= j
  BY LeastNumber
<1>2. CASE k = 0
  <2> DEFINE sum == [n \in 0..0 |-> 0]
  <2>1. Sums(s, 0, sum)
    BY DEF Sums
  <2> QED
    BY <1>2, <2>1
<1>3. CASE k # 0
  <2>1. k - 1 \in Nat /\ k - 1 \notin S
    BY <1>1, <1>3
  <2>2. PICK v : Sums(s, k - 1, v)
    BY <2>1
  <2> DEFINE sum == [n \in 0..k |-> IF n = k THEN v[k - 1] + s[k] ELSE v[n]]
  <2>3. \A n \in 0..k : sum[n] = IF n = 0 THEN 0 ELSE sum[n - 1] + s[n]
    <3>1. \A n \in 0..k - 1 : v[n] = IF n = 0 THEN 0 ELSE v[n - 1] + s[n]
      BY <2>1, <2>2 DEF Sums
    <3> TAKE n \in 0..k
    <3>2. CASE n = k
      <4>1. k - 1 \in 0..k /\ k - 1 # k /\ k \in 0..k
        BY <2>1
      <4> QED
        BY <3>2, <1>3, <4>1
    <3>3. CASE n # k
      <4>1. n \in 0..k - 1 /\ (n # 0 => n - 1 \in 0..k /\ n - 1 # k)
        BY <2>1, <3>3
      <4>2. sum[n] = v[n] /\ (n # 0 => sum[n - 1] = v[n - 1])
        BY <3>3, <4>1
      <4> HIDE DEF sum
      <4> QED
        BY <3>1, <4>1, <4>2
    <3> QED
      BY <3>2, <3>3
  <2>4. Sums(s, k, sum)
    <3> HIDE DEF sum
    <3>1. sum = [n \in 0..k |-> sum[n]]
      BY DEF sum
    <3> QED
      BY <2>3, <3>1 DEF Sums
  <2> QED
    BY <2>4
<1> QED
  BY <1>2, <1>3

\* SumOf is the last of the partial sums.
Adding(s, sum) ==
  /\ sum[0] = 0
  /\ \A n \in 0..Len(s) : sum[n] \in Nat
  /\ \A n \in 1..Len(s) : sum[n] = sum[n - 1] + s[n]
  /\ SumOf(s) = sum[Len(s)]

LEMMA SumAdds ==
  ASSUME NEW s \in Seq(Nat)
  PROVE  \E sum : Adding(s, sum)
<1> DEFINE N == Len(s)
           sum == CHOOSE v : Sums(s, N, v)
<1>1. N \in Nat /\ \A n \in 1..N : s[n] \in Nat
  OBVIOUS
<1>2. Sums(s, N, sum)
  BY <1>1, SumsExist
<1>3. SumOf(s) = sum[N]
  BY DEF SumOf, Sums
<1> HIDE DEF sum
<1>4. \A n \in 0..N : sum[n] = IF n = 0 THEN 0 ELSE sum[n - 1] + s[n]
  BY <1>1, <1>2 DEF Sums
<1> HIDE DEF N
<1>5. sum[0] = 0 /\ \A n \in 1..N : sum[n] = sum[n - 1] + s[n]
  BY <1>1, <1>4
<1>6. \A n \in 0..N : sum[n] \in Nat
  <2> DEFINE B == {n \in 0..N : sum[n] \notin Nat}
  <2> SUFFICES ASSUME B # {} PROVE FALSE
    OBVIOUS
  <2>1. B \in SUBSET Nat
    BY <1>1
  <2>2. PICK k \in B : \A j \in B : k <= j
    BY <2>1, LeastNumber
  <2>3. k # 0 /\ k \in 1..N /\ k - 1 \in 0..N /\ k - 1 \notin B
    BY <1>1, <1>5, <2>2
  <2>4. sum[k - 1] \in Nat /\ s[k] \in Nat
    BY <1>1, <2>3
  <2> QED
    BY <1>5, <2>2, <2>3, <2>4
<1>7. Adding(s, sum)
  BY <1>3, <1>5, <1>6 DEF Adding, N
<1> QED
  BY <1>7

LEMMA SumOfOne ==
  ASSUME NEW x \in Nat
  PROVE  SumOf(<<x>>) = x
<1> DEFINE s == <<x>>
<1>1. s \in Seq(Nat) /\ Len(s) = 1 /\ s[1] = x
  OBVIOUS
<1> HIDE DEF s
<1>2. PICK sum : Adding(s, sum)
  BY <1>1, SumAdds
<1>3. sum[0] = 0 /\ sum[1] = sum[0] + s[1] /\ SumOf(s) = sum[1]
  <2>1. 1 \in 1..Len(s) /\ 1 - 1 = 0
    BY <1>1
  <2> QED
    BY <1>1, <1>2, <2>1 DEF Adding
<1> QED
  BY <1>1, <1>3 DEF s

\* The sum of two sequences one behind the other.
LEMMA SumOfBoth ==
  ASSUME NEW a \in Seq(Nat), NEW b \in Seq(Nat)
  PROVE  SumOf(a \o b) = SumOf(a) + SumOf(b) /\ SumOf(a) \in Nat /\ SumOf(b) \in Nat
<1> DEFINE c == a \o b
           la == Len(a)
           lb == Len(b)
<1>1. /\ c \in Seq(Nat) /\ la \in Nat /\ lb \in Nat /\ Len(c) = la + lb
      /\ \A n \in 1..la : c[n] = a[n]
      /\ \A n \in 1..lb : c[la + n] = b[n]
  OBVIOUS
<1> HIDE DEF c
<1>2. PICK u : Adding(c, u)
  BY <1>1, SumAdds
<1>3. PICK v : Adding(a, v)
  BY SumAdds
<1>4. PICK w : Adding(b, w)
  BY SumAdds
<1>5. /\ \A n \in 1..la + lb : u[n] = u[n - 1] + c[n]
      /\ \A n \in 1..la : v[n] = v[n - 1] + a[n]
      /\ \A n \in 1..lb : w[n] = w[n - 1] + b[n]
      /\ u[0] = 0 /\ v[0] = 0 /\ w[0] = 0
      /\ \A n \in 0..la : v[n] \in Nat
      /\ \A n \in 0..lb : w[n] \in Nat
      /\ SumOf(c) = u[la + lb] /\ SumOf(a) = v[la] /\ SumOf(b) = w[lb]
      /\ \A n \in 1..lb : b[n] \in Nat
  <2>1. /\ \A n \in 1..la + lb : u[n] = u[n - 1] + c[n]
        /\ u[0] = 0 /\ SumOf(c) = u[la + lb]
    <3>1. Len(c) = la + lb
      BY <1>1
    <3> HIDE DEF la, lb
    <3> QED
      BY <3>1, <1>2 DEF Adding
  <2>2. /\ \A n \in 1..la : v[n] = v[n - 1] + a[n]
        /\ v[0] = 0 /\ SumOf(a) = v[la] /\ \A n \in 0..la : v[n] \in Nat
    BY <1>3 DEF Adding
  <2>3. /\ \A n \in 1..lb : w[n] = w[n - 1] + b[n]
        /\ w[0] = 0 /\ SumOf(b) = w[lb] /\ \A n \in 0..lb : w[n] \in Nat
    BY <1>4 DEF Adding
  <2>4. \A n \in 1..lb : b[n] \in Nat
    OBVIOUS
  <2> HIDE DEF la, lb
  <2> QED
    BY <2>1, <2>2, <2>3, <2>4
<1> HIDE DEF la, lb
<1>6. \A n \in 0..la : u[n] = v[n]
  <2> DEFINE B == {n \in 0..la : u[n] # v[n]}
  <2> SUFFICES ASSUME B # {} PROVE FALSE
    OBVIOUS
  <2>1. B \in SUBSET Nat
    BY <1>1
  <2>2. PICK k \in B : \A j \in B : k <= j
    BY <2>1, LeastNumber
  <2>3. k # 0 /\ k \in 1..la /\ k \in 1..la + lb /\ k - 1 \in 0..la /\ k - 1 \notin B
    BY <1>1, <1>5, <2>2
  <2> QED
    BY <1>1, <1>5, <2>2, <2>3
<1>7. \A n \in 0..lb : u[la + n] = v[la] + w[n]
  <2> DEFINE B == {n \in 0..lb : u[la + n] # v[la] + w[n]}
  <2> SUFFICES ASSUME B # {} PROVE FALSE
    OBVIOUS
  <2>0. v[la] \in Nat /\ u[la] = v[la]
    BY <1>1, <1>5, <1>6
  <2>1. B \in SUBSET Nat
    BY <1>1
  <2>2. PICK k \in B : \A j \in B : k <= j
    BY <2>1, LeastNumber
  <2>3. k # 0
    BY <1>1, <1>5, <2>0, <2>2
  <2>4. k \in 1..lb /\ la + k \in 1..la + lb /\ k - 1 \in 0..lb /\ k - 1 \notin B /\ (la + k) - 1 = la + (k - 1)
    <3>1. k \in 0..lb /\ k \in Nat /\ \A j \in B : k <= j
      BY <1>1, <2>2
    <3> HIDE DEF B
    <3>2. k - 1 \notin B
      BY <2>3, <3>1
    <3> QED
      BY <1>1, <2>3, <3>1, <3>2
  <2>5. u[la + k] = u[la + (k - 1)] + c[la + k]
    BY <1>5, <2>4
  <2>6. u[la + (k - 1)] = v[la] + w[k - 1] /\ c[la + k] = b[k] /\ w[k] = w[k - 1] + b[k]
    BY <1>1, <1>5, <2>4
  <2>7. w[k - 1] \in Nat /\ b[k] \in Nat
    BY <1>5, <2>4
  <2>8. u[la + k] = v[la] + w[k]
    BY <2>0, <2>5, <2>6, <2>7
  <2> QED
    BY <2>2, <2>8
<1>8. la \in 0..la /\ lb \in 0..lb
  BY <1>1
<1> QED
  BY <1>5, <1>7, <1>8 DEF c

\* A set has one first cabinet.
LEMMA OneFirst ==
  ASSUME NEW D, NEW nx, NEW pv, BothWays(nx, pv, D), NEW c \in D,
         NEW d \in Items(c, pv) \cup Items(c, nx), pv[c] = NULL, pv[d] = NULL
  PROVE  d = c
<1>0. Links(nx, D) /\ Links(pv, D) /\ NULL \notin D
  BY DEF BothWays, Links
<1>1. \A x \in D : pv[x] = NULL => Items(x, pv) = {x}
  BY <1>0, ListUnfolds, ListBasics
<1>2. CASE d \in Items(c, pv)
  BY <1>1, <1>2
<1>3. CASE d \in Items(c, nx)
  <2>1. d \in D /\ c \in Items(d, pv)
    BY <1>3, WayBack
  <2> QED
    BY <1>1, <2>1
<1> QED
  BY <1>2, <1>3

\* A folder begins in the cabinet it was read from and goes on through the cabinets
\* behind it; the last folder of a list ends in the last cabinet.
OneChained(g) ==
  LET data == folder[g].data IN
  /\ data[1] = g[1] /\ g[2] <= Len(ImageFolders[cab[g[1]].img])
  /\ \A n \in 1..Len(data) - 1 : cab[data[n]].nextcab = data[n + 1]
  /\ folder[g].next = NULL => cab[data[Len(data)]].nextcab = NULL

OneCounted(g) == folder[g].blocks = SumOf(PartBlocks(g)) - (Len(folder[g].data) - 1)

PartsChained == \A g \in Folder : folder[g].live => OneChained(g) /\ OneCounted(g)

\* The folder list of a set begins with the first folder of its first cabinet.
SetsBegin ==
  \A c \in Cab : Open(c) =>
    \E f \in SetOf(c) : cab[f].prevcab = NULL /\ cab[c].folders = <<f, 1>>

Ordered == Graph /\ PartsChained /\ SetsBegin

\* The parts of a folder are open cabinets.
PartsOf(g) ==
  /\ folder[g].data \in Seq(Cab) /\ Len(folder[g].data) \in Nat \ {0}
  /\ \A n \in 1..Len(folder[g].data) : folder[g].data[n] \in Cab /\ Open(folder[g].data[n])

LEMMA LiveParts ==
  ASSUME Graph, NEW g \in Folder, folder[g].live
  PROVE  /\ PartsOf(g)
         /\ \E c \in Cab : /\ Open(c) /\ g \in FoldersOf(c)
                          /\ \A n \in 1..Len(folder[g].data) : folder[g].data[n] \in SetOf(c)
<1>1. PICK c \in Cab : Open(c) /\ g \in FoldersOf(c)
  BY LiveIsListed
<1>2. folder[g].data # <<>> /\ \A n \in DOMAIN folder[g].data : folder[g].data[n] \in SetOf(c)
  BY <1>1 DEF Graph, PartsInSet
<1>3. folder[g].data \in Seq(Cab)
  BY DEF Graph, TypeInv, TypeOK, FolderObj
<1>4. \A x \in SetOf(c) : x \in Cab /\ Open(x)
  BY <1>1, SetFacts DEF Graph
<1>5. DOMAIN folder[g].data = 1..Len(folder[g].data) /\ Len(folder[g].data) \in Nat \ {0}
  BY <1>2, <1>3
<1>6. PartsOf(g)
  BY <1>2, <1>3, <1>4, <1>5 DEF PartsOf
<1> QED
  BY <1>1, <1>2, <1>5, <1>6

\* The counts of a folder's parts are numbers.
LEMMA PartBlocksType ==
  ASSUME TypeInv, NEW g \in Folder, PartsOf(g), OneChained(g)
  PROVE  PartBlocks(g) \in Seq(Nat) /\ Len(PartBlocks(g)) = Len(folder[g].data)
<1> DEFINE m == Len(folder[g].data)
           part(n) == ImageFolders[cab[folder[g].data[n]].img][IF n = 1 THEN g[2] ELSE 1].blocks
<1>1. m \in Nat /\ g[2] \in Nat /\ g[2] >= 1
  BY DEF PartsOf, Folder
<1>2. ASSUME NEW n \in 1..m PROVE part(n) \in Nat
  <2> DEFINE i == cab[folder[g].data[n]].img
             k == IF n = 1 THEN g[2] ELSE 1
  <2>1. i \in Image
    BY DEF PartsOf, Open, TypeInv, TypeOK, Cabinet
  <2>2. Len(ImageFolders[i]) \in Nat /\ Len(ImageFolders[i]) >= 1
    BY <2>1, ImageType
  <2>3. k \in 1..Len(ImageFolders[i])
    <3>1. CASE n = 1
      <4>1. i = cab[g[1]].img
        BY <3>1 DEF OneChained
      <4>2. g[2] <= Len(ImageFolders[i])
        BY <4>1 DEF OneChained
      <4> QED
        BY <1>1, <2>2, <3>1, <4>2
    <3>2. CASE n # 1
      BY <2>2, <3>2
    <3> QED
      BY <3>1, <3>2
  <2> HIDE DEF i, k
  <2>4. ImageFolders[i][k] \in FolderEntry
    BY <2>1, <2>3, FolderEntryType
  <2>5. ImageFolders[i][k].blocks \in Nat
    BY <2>4 DEF FolderEntry
  <2> QED
    BY <2>5 DEF i, k
<1>3. PartBlocks(g) = [n \in 1..m |-> part(n)]
  BY DEF PartBlocks
<1> HIDE DEF part, m
<1>4. [n \in 1..m |-> part(n)] \in Seq(Nat) /\ Len([n \in 1..m |-> part(n)]) = m
  BY <1>1, <1>2
<1> QED
  BY <1>3, <1>4 DEF m

\* A folder whose parts stay what they are keeps its count.
LEMMA KeepsCount ==
  ASSUME NEW g \in Folder, PartsOf(g), OneCounted(g),
         folder'[g].data = folder[g].data, folder'[g].blocks = folder[g].blocks,
         \A n \in 1..Len(folder[g].data) : cab'[folder[g].data[n]].img = cab[folder[g].data[n]].img
  PROVE  OneCounted(g)'
<1>1. PartBlocks(g)' = PartBlocks(g)
  BY DEF PartBlocks
<1> QED
  BY <1>1 DEF OneCounted

\* The same of a folder whose parts do not change at all.
LEMMA KeepsParts ==
  ASSUME NEW g \in Folder, PartsOf(g), OneChained(g), OneCounted(g), folder'[g] = folder[g],
         \A n \in 1..Len(folder[g].data) : cab'[folder[g].data[n]] = cab[folder[g].data[n]]
  PROVE  OneChained(g)' /\ OneCounted(g)'
<1>1. OneCounted(g)'
  BY KeepsCount
<1>2. Len(folder[g].data) \in Nat \ {0}
  BY DEF PartsOf
<1>3. /\ 1 \in 1..Len(folder[g].data) /\ Len(folder[g].data) \in 1..Len(folder[g].data)
      /\ \A n \in 1..Len(folder[g].data) - 1 : n \in 1..Len(folder[g].data)
  BY <1>2
<1> DEFINE data == folder[g].data
           last == Len(folder[g].data)
<1>4. /\ data[1] = g[1] /\ g[2] <= Len(ImageFolders[cab[data[1]].img])
      /\ \A n \in 1..last - 1 : cab[data[n]].nextcab = data[n + 1]
      /\ folder[g].next = NULL => cab[data[last]].nextcab = NULL
  BY DEF OneChained
<1>5. \A n \in 1..last : cab'[data[n]] = cab[data[n]]
  OBVIOUS
<1>6. data' = data /\ last' = last /\ folder'[g].next = folder[g].next
  OBVIOUS
<1>7. /\ cab'[data[1]] = cab[data[1]] /\ cab'[data[last]] = cab[data[last]]
      /\ \A n \in 1..last - 1 : cab'[data[n]] = cab[data[n]]
  BY <1>3, <1>5
<1> HIDE DEF data, last
<1>8. /\ data[1] = g[1] /\ g[2] <= Len(ImageFolders[cab'[g[1]].img])
      /\ \A n \in 1..last - 1 : cab'[data[n]].nextcab = data[n + 1]
      /\ folder'[g].next = NULL => cab'[data[last]].nextcab = NULL
  BY <1>4, <1>6, <1>7
<1>9. OneChained(g)'
  BY <1>6, <1>8 DEF OneChained, data, last
<1> QED
  BY <1>1, <1>9

\* Opening (cabd_read_headers): each folder is one part.
LEMMA LoadOrder ==
  ASSUME Ordered, TypeInv', NEW S, NEW img, NEW succ, Loading(S, img, succ)
  PROVE  PartsChained' /\ SetsBegin'
<1>0. Graph /\ PartsChained /\ SetsBegin
  BY DEF Ordered
<1>1. /\ S \in SUBSET Cab /\ img \in [S -> Image] /\ Load(img, succ)
      /\ \A c \in S : Unallocated(c)
  BY DEF Loading
<1>2. /\ \A c \in Cab : SetOf(c)' = SetOf(c)
      /\ \A c \in Cab \ S : cab'[c] = cab[c]
      /\ \A c \in S : cab'[c].img = img[c]
      /\ \A g \in Folder : IF g[1] \in S /\ g[2] \in 1..Len(ImageFolders[img[g[1]]])
                             THEN folder'[g] = NewFolder(g[1], img[g[1]], g[2])
                             ELSE folder'[g] = folder[g]
  BY <1>0, LoadGraph DEF Loading
<1>3. \A c \in S : cab'[c].nextcab = NULL /\ cab'[c].prevcab = NULL /\ cab'[c].folders = <<c, 1>>
  BY <1>1 DEF Load, NoCab
<1>4. \A c \in S : ~Open(c)
  BY <1>1 DEF Unallocated
<1>5. ASSUME NEW g \in Folder, folder'[g].live
      PROVE  OneChained(g)' /\ OneCounted(g)'
  <2>1. CASE g[1] \in S /\ g[2] \in 1..Len(ImageFolders[img[g[1]]])
    <3> DEFINE c == g[1]
               i == img[g[1]]
    <3>1. c \in S /\ c \in Cab /\ i \in Image /\ g[2] \in Nat
      BY <1>1, <2>1
    <3>2. folder'[g] = NewFolder(c, i, g[2])
      BY <1>2, <2>1
    <3>3. folder'[g].data = <<c>> /\ folder'[g].blocks = ImageFolders[i][g[2]].blocks
      BY <3>2 DEF NewFolder
    <3>4. cab'[c].img = i /\ cab'[c].nextcab = NULL
      BY <1>2, <1>3, <3>1
    <3>5. g[2] <= Len(ImageFolders[i])
      BY <2>1, <3>1
    <3>6. ImageFolders[i][g[2]].blocks \in Nat
      BY <2>1, <3>1, FolderEntryType DEF FolderEntry
    <3>7. OneChained(g)'
      BY <3>3, <3>4, <3>5 DEF OneChained
    <3>8. PartBlocks(g)' = <<ImageFolders[i][g[2]].blocks>>
      BY <3>3, <3>4 DEF PartBlocks
    <3>9. SumOf(<<ImageFolders[i][g[2]].blocks>>) = ImageFolders[i][g[2]].blocks
      BY <3>6, SumOfOne
    <3>10. SumOf(PartBlocks(g))' = SumOf(PartBlocks(g)')
      BY DEF SumOf
    <3>11. OneCounted(g)'
      <4>1. Len(folder'[g].data) = 1
        BY <3>3
      <4> QED
        BY <3>3, <3>6, <3>8, <3>9, <3>10, <4>1 DEF OneCounted
    <3> QED
      BY <3>7, <3>11
  <2>2. CASE ~(g[1] \in S /\ g[2] \in 1..Len(ImageFolders[img[g[1]]]))
    <3>1. folder'[g] = folder[g]
      BY <1>2, <2>2
    <3>2. PartsOf(g) /\ OneChained(g) /\ OneCounted(g)
      BY <1>0, <1>5, <3>1, LiveParts DEF PartsChained
    <3>3. \A n \in 1..Len(folder[g].data) : cab'[folder[g].data[n]] = cab[folder[g].data[n]]
      BY <1>2, <1>4, <3>2 DEF PartsOf
    <3> QED
      BY <3>1, <3>2, <3>3, KeepsParts
  <2> QED
    BY <2>1, <2>2
<1>6. ASSUME NEW c \in Cab, Open(c)'
      PROVE  \E f \in SetOf(c)' : cab'[f].prevcab = NULL /\ cab'[c].folders = <<f, 1>>
  <2>1. c \in SetOf(c) /\ SetOf(c)' = SetOf(c)
    BY <1>0, <1>2, SetFacts DEF Graph
  <2>2. CASE c \in S
    BY <1>3, <2>1, <2>2
  <2>3. CASE c \notin S
    <3>1. cab'[c] = cab[c] /\ Open(c)
      BY <1>2, <1>6, <2>3 DEF Open
    <3>2. PICK f \in SetOf(c) : cab[f].prevcab = NULL /\ cab[c].folders = <<f, 1>>
      BY <1>0, <3>1 DEF SetsBegin
    <3>3. f \in Cab /\ Open(f)
      BY <1>0, <3>1, SetFacts DEF Graph
    <3>4. cab'[f] = cab[f]
      BY <1>2, <1>4, <3>3
    <3> QED
      BY <2>1, <3>1, <3>2, <3>4
  <2> QED
    BY <2>2, <2>3
<1>7. PartsChained'
  BY <1>5 DEF PartsChained
<1>8. SetsBegin'
  BY <1>6 DEF SetsBegin
<1> QED
  BY <1>7, <1>8

\* What cabd_merge finds: lcab's last folder ends in lcab, and rcab's first is the
\* first folder of rcab.
LEMMA JointFound ==
  ASSUME Ordered, NEW l \in Cab, NEW r \in Cab, Open(l), Open(r), ~BadArgs(l, r)
  PROVE  /\ cab[r].folders = <<r, 1>>
         /\ \A g \in Folder : folder[g].live =>
              /\ folder[g].next = NULL /\ folder[g].data[Len(folder[g].data)] = l => g = LeftFolder(l)
              /\ g = LeftFolder(l) => folder[g].data[Len(folder[g].data)] = l
<1>0. Graph /\ PartsChained /\ SetsBegin /\ TypeInv /\ SetsLinked
  BY DEF Ordered, Graph
<1>1. cab[l].nextcab = NULL /\ cab[r].prevcab = NULL
  BY DEF BadArgs
<1>2. BothWays(NextOf, PrevOf, Cab) /\ BothWays(PrevOf, NextOf, Cab)
  BY <1>0, SetWays, BothWaysMirror
<1>3. cab[r].folders = <<r, 1>>
  <2>1. PICK f \in SetOf(r) : cab[f].prevcab = NULL /\ cab[r].folders = <<f, 1>>
    BY <1>0 DEF SetsBegin
  <2>2. f \in Items(r, PrevOf) \cup Items(r, NextOf) /\ f \in Cab
    BY <1>0, <2>1, SetFacts DEF SetOf
  <2>3. PrevOf[r] = NULL /\ PrevOf[f] = NULL
    BY <1>1, <2>1, <2>2 DEF PrevOf
  <2>4. f = r
    BY <1>2, <2>2, <2>3, OneFirst
  <2> QED
    BY <2>1, <2>4
<1>4. ASSUME NEW g \in Folder, folder[g].live, folder[g].next = NULL,
             folder[g].data[Len(folder[g].data)] = l
      PROVE  g = LeftFolder(l)
  <2>1. PICK c \in Cab : /\ Open(c) /\ g \in FoldersOf(c)
                         /\ \A n \in 1..Len(folder[g].data) : folder[g].data[n] \in SetOf(c)
    BY <1>0, <1>4, LiveParts
  <2>2. Len(folder[g].data) \in 1..Len(folder[g].data)
    BY <1>0, <1>4, LiveParts DEF PartsOf
  <2>3. l \in SetOf(c)
    BY <1>4, <2>1, <2>2
  <2>4. FoldersOf(l) = FoldersOf(c)
    BY <1>0, <2>1, <2>3, SetsApart
  <2> QED
    BY <1>0, <1>4, <2>1, <2>4, LastsFound
<1>5. ASSUME NEW g \in Folder, folder[g].live, g = LeftFolder(l)
      PROVE  folder[g].data[Len(folder[g].data)] = l
  <2>1. g \in FoldersOf(l) /\ folder[g].next = NULL
    BY <1>0, <1>5, LastsFound
  <2> DEFINE e == folder[g].data[Len(folder[g].data)]
  <2>2. folder[g].data # <<>> /\ \A n \in DOMAIN folder[g].data : folder[g].data[n] \in SetOf(l)
    BY <1>0, <2>1 DEF Graph, PartsInSet
  <2>3. /\ Len(folder[g].data) \in 1..Len(folder[g].data)
        /\ DOMAIN folder[g].data = 1..Len(folder[g].data)
    BY <1>0, <1>5, LiveParts DEF PartsOf
  <2>4. e \in SetOf(l)
    BY <2>2, <2>3
  <2>5. e \in Items(l, PrevOf) \cup Items(l, NextOf) /\ e \in Cab
    BY <1>0, <2>4, SetFacts DEF SetOf
  <2>6. cab[e].nextcab = NULL
    BY <1>0, <1>5, <2>1 DEF PartsChained, OneChained
  <2> HIDE DEF e
  <2>7. NextOf[l] = NULL /\ NextOf[e] = NULL
    BY <1>1, <2>5, <2>6 DEF NextOf
  <2>8. e \in Items(l, NextOf) \cup Items(l, PrevOf)
    BY <2>5
  <2>9. e = l
    BY <1>2, <2>7, <2>8, OneFirst
  <2> QED
    BY <2>9 DEF e
<1> QED
  BY <1>3, <1>4, <1>5

\* Joining keeps where the sets begin.
LEMMA JoinBegins ==
  ASSUME Ordered, NEW l \in Cab, NEW r \in Cab, Open(l), Open(r), ~BadArgs(l, r), Attach(l, r)
  PROVE  SetsBegin'
<1>0. Graph /\ SetsBegin /\ TypeInv /\ SetsLinked
  BY DEF Ordered, Graph
<1>1. /\ SetOf(l) \cap SetOf(r) = {}
      /\ \A c \in Cab : /\ Open(c)' <=> Open(c)
                        /\ cab'[c].prevcab = IF c = r THEN l ELSE cab[c].prevcab
      /\ \A c \in SetOf(l) \cup SetOf(r) :
           SetOf(c)' = SetOf(l) \cup SetOf(r) /\ cab'[c].folders = cab[l].folders
      /\ \A c \in Cab \ (SetOf(l) \cup SetOf(r)) : cab'[c] = cab[c] /\ SetOf(c)' = SetOf(c)
  BY <1>0, JoinedSets
<1>2. r \in SetOf(r) /\ \A c \in Cab : SetOf(c) \subseteq Cab
  BY <1>0, SetFacts
<1>3. ASSUME NEW c \in Cab, Open(c)'
      PROVE  \E f \in SetOf(c)' : cab'[f].prevcab = NULL /\ cab'[c].folders = <<f, 1>>
  <2>1. CASE c \in SetOf(l) \cup SetOf(r)
    <3>1. PICK f \in SetOf(l) : cab[f].prevcab = NULL /\ cab[l].folders = <<f, 1>>
      BY <1>0 DEF SetsBegin
    <3>2. f # r /\ f \in Cab
      BY <1>1, <1>2, <3>1
    <3> QED
      BY <1>1, <2>1, <3>1, <3>2
  <2>2. CASE c \notin SetOf(l) \cup SetOf(r)
    <3>1. PICK f \in SetOf(c) : cab[f].prevcab = NULL /\ cab[c].folders = <<f, 1>>
      BY <1>0, <1>1, <1>3 DEF SetsBegin
    <3>2. f # r /\ f \in Cab
      <4>1. SetOf(f) = SetOf(c) /\ f \in Cab /\ c \in SetOf(c)
        BY <1>0, <3>1, SetFacts
      <4> QED
        BY <2>2, <4>1
    <3> QED
      BY <1>1, <2>2, <3>1, <3>2
  <2> QED
    BY <2>1, <2>2
<1> QED
  BY <1>3 DEF SetsBegin

\* A folder that is not at the joint keeps its parts when two sets are joined.
LEMMA JoinKeepsParts ==
  ASSUME Ordered, NEW l \in Cab, NEW r \in Cab, Open(l), Open(r), ~BadArgs(l, r), Attach(l, r),
         NEW g \in Folder, folder[g].live,
         folder'[g].data = folder[g].data, folder'[g].blocks = folder[g].blocks,
         folder'[g].next = NULL => folder[g].next = NULL /\ g # LeftFolder(l)
  PROVE  OneChained(g)' /\ OneCounted(g)'
<1> DEFINE data == folder[g].data
           last == Len(data)
<1>0. Graph /\ PartsChained /\ TypeInv /\ cab[l].nextcab = NULL
  BY DEF Ordered, Graph, BadArgs
<1>1. PartsOf(g) /\ OneChained(g) /\ OneCounted(g)
  BY <1>0, LiveParts DEF PartsChained
<1>2. \A c \in Cab : /\ cab'[c].img = cab[c].img
                     /\ cab'[c].nextcab = IF c = l THEN r ELSE cab[c].nextcab
  BY <1>0, JoinedSets
<1>3. OneCounted(g)'
  BY <1>1, <1>2, KeepsCount DEF PartsOf
<1>4. /\ last \in Nat \ {0} /\ \A n \in 1..last : data[n] \in Cab
      /\ data[1] = g[1] /\ g[2] <= Len(ImageFolders[cab[g[1]].img])
      /\ \A n \in 1..last - 1 : cab[data[n]].nextcab = data[n + 1]
      /\ folder[g].next = NULL => cab[data[last]].nextcab = NULL
  BY <1>1 DEF PartsOf, OneChained
<1>5. folder[g].next = NULL /\ g # LeftFolder(l) => data[last] # l
  BY <1>0, JointFound
<1>6. data' = data /\ last' = last
  OBVIOUS
<1> HIDE DEF data, last
<1>7. /\ 1 \in 1..last /\ last \in 1..last
      /\ \A n \in 1..last - 1 : n \in 1..last /\ n + 1 \in 1..last
  BY <1>4
<1>8. g[2] <= Len(ImageFolders[cab'[g[1]].img])
  BY <1>2, <1>4, <1>7
<1>9. \A n \in 1..last - 1 : cab'[data[n]].nextcab = data[n + 1]
  <2> TAKE n \in 1..last - 1
  <2>1. data[n] \in Cab /\ data[n + 1] \in Cab /\ cab[data[n]].nextcab = data[n + 1] /\ NULL \notin Cab
    BY <1>4, <1>7, FiniteHeap
  <2>2. data[n] # l
    BY <1>0, <2>1
  <2> QED
    BY <1>2, <2>1, <2>2
<1>10. folder'[g].next = NULL => cab'[data[last]].nextcab = NULL
  BY <1>2, <1>4, <1>5, <1>7
<1>11. OneChained(g)'
  BY <1>4, <1>6, <1>8, <1>9, <1>10 DEF OneChained, data, last
<1> QED
  BY <1>3, <1>11

\* Joining at a clean joint (cabd_merge): the parts stay what they are, and lcab's
\* last folder is no longer the last.
LEMMA MergePlainOrder ==
  ASSUME Ordered, NEW l \in Cab, NEW r \in Cab, MergePlain(l, r)
  PROVE  PartsChained' /\ SetsBegin'
<1> DEFINE lf == LeftFolder(l)
<1>0. Graph /\ PartsChained /\ TypeInv /\ NULL \notin Folder
  BY FiniteHeap DEF Ordered, Graph
<1>1. /\ ~BadArgs(l, r) /\ Attach(l, r) /\ Open(l) /\ Open(r)
      /\ folder' = [folder EXCEPT ![lf].next = cab[r].folders]
  BY DEF MergePlain, MayJoin, RightFolder
<1>2. cab[r].folders \in Folder
  BY <1>0, <1>1, LastsFound
<1> HIDE DEF lf
<1>3. \A g \in Folder : /\ folder'[g].data = folder[g].data /\ folder'[g].blocks = folder[g].blocks
                        /\ folder'[g].live = folder[g].live
                        /\ folder'[g].next = IF g = lf THEN cab[r].folders ELSE folder[g].next
  BY <1>0, <1>1 DEF TypeInv, TypeOK, FolderObj
<1>4. ASSUME NEW g \in Folder, folder'[g].live
      PROVE  OneChained(g)' /\ OneCounted(g)'
  <2>1. folder'[g].next = NULL => folder[g].next = NULL /\ g # lf
    BY <1>0, <1>2, <1>3
  <2> QED
    BY <1>1, <1>3, <1>4, <2>1, JoinKeepsParts DEF lf
<1>5. PartsChained'
  BY <1>4 DEF PartsChained
<1>6. SetsBegin'
  BY <1>1, JoinBegins
<1> QED
  BY <1>5, <1>6

LEMMA SeqIsFunction ==
  ASSUME NEW S, NEW d \in Seq(S)
  PROVE  d = [n \in 1..Len(d) |-> d[n]] /\ \A n \in 1..Len(d) : d[n] \in S
<1>1. d = [n \in 1..Len(d) |-> d[n]]
  OBVIOUS
<1>2. \A n \in 1..Len(d) : d[n] \in S
  OBVIOUS
<1> QED
  BY <1>1, <1>2

\* What is where in two sequences one behind the other.
LEMMA BothSeqs ==
  ASSUME NEW S, NEW a \in Seq(S), NEW b \in Seq(S), NEW d, d = a \o b
  PROVE  /\ d \in Seq(S) /\ Len(a) \in Nat /\ Len(b) \in Nat /\ Len(d) = Len(a) + Len(b)
         /\ \A n \in 1..Len(a) : d[n] = a[n] /\ a[n] \in S
         /\ \A n \in 1..Len(b) : d[Len(a) + n] = b[n] /\ b[n] \in S
         /\ \A n \in 1..Len(d) : d[n] \in S
<1>1. /\ d \in Seq(S) /\ Len(a) \in Nat /\ Len(b) \in Nat /\ Len(d) = Len(a) + Len(b)
      /\ \A n \in 1..Len(a) : d[n] = a[n] /\ a[n] \in S
      /\ \A n \in 1..Len(b) : d[Len(a) + n] = b[n] /\ b[n] \in S
  OBVIOUS
<1>2. \A n \in 1..Len(d) : d[n] \in S
  BY <1>1, SeqIsFunction
<1> QED
  BY <1>1, <1>2

\* nx leads from each part to the next.
Follows(nx, data) == \A n \in 1..Len(data) - 1 : nx[data[n]] = data[n + 1]

\* Two sequences of parts, the second beginning behind the end of the first.
LEMMA ChainsJoined ==
  ASSUME NEW a \in Seq(Cab), NEW b \in Seq(Cab), Len(a) # 0, Len(b) # 0, NEW nx,
         Follows(nx, a), Follows(nx, b), nx[a[Len(a)]] = b[1]
  PROVE  /\ Follows(nx, a \o b)
         /\ (a \o b)[1] = a[1] /\ (a \o b)[Len(a \o b)] = b[Len(b)]
<1> DEFINE d == a \o b
           la == Len(a)
           lb == Len(b)
<1>1. /\ la \in Nat \ {0} /\ lb \in Nat \ {0} /\ Len(d) = la + lb
      /\ \A n \in 1..la : d[n] = a[n]
      /\ \A n \in 1..lb : d[la + n] = b[n]
  OBVIOUS
<1>2. /\ \A n \in 1..la - 1 : nx[a[n]] = a[n + 1]
      /\ \A n \in 1..lb - 1 : nx[b[n]] = b[n + 1]
      /\ nx[a[la]] = b[1]
  BY DEF Follows
<1> HIDE DEF d, la, lb
<1>3. ASSUME NEW n \in 1..Len(d) - 1 PROVE nx[d[n]] = d[n + 1]
  <2>1. CASE n < la
    <3>1. n \in 1..la /\ n \in 1..la - 1 /\ n + 1 \in 1..la
      BY <1>1, <2>1
    <3> QED
      BY <1>1, <1>2, <3>1
  <2>2. CASE n = la
    <3>1. la \in 1..la /\ 1 \in 1..lb
      BY <1>1
    <3> QED
      BY <1>1, <1>2, <2>2, <3>1
  <2>3. CASE n > la
    <3> DEFINE m == n - la
    <3>1. m \in 1..lb - 1 /\ m \in 1..lb /\ m + 1 \in 1..lb /\ la + m = n /\ la + (m + 1) = n + 1
      BY <1>1, <2>3
    <3> HIDE DEF m
    <3>2. d[n] = b[m] /\ d[n + 1] = b[m + 1]
      BY <1>1, <3>1
    <3> QED
      BY <1>2, <3>1, <3>2
  <2> QED
    BY <1>1, <2>1, <2>2, <2>3
<1>4. d[1] = a[1] /\ d[Len(d)] = b[lb]
  <2>1. 1 \in 1..la /\ lb \in 1..lb
    BY <1>1
  <2> QED
    BY <1>1, <2>1
<1> QED
  BY <1>3, <1>4 DEF Follows, d, lb

\* The folder that is joined at the joint (cabd_merge, "append rfol's data to lfol"): its
\* parts are those of both, and the block across the joint counts once.
LEMMA JointFolder ==
  ASSUME Ordered, NEW l \in Cab, NEW r \in Cab, MergeFolders(l, r), NEW lf, lf = LeftFolder(l)
  PROVE  OneChained(lf)' /\ OneCounted(lf)'
<1> DEFINE rf == cab[r].folders
           a == folder[lf].data
           b == folder[rf].data
<1>0. Graph /\ PartsChained /\ TypeInv /\ NULL \notin Cab
  BY FiniteHeap DEF Ordered, Graph
<1>1. ~BadArgs(l, r) /\ Attach(l, r) /\ Open(l) /\ Open(r)
  BY DEF MergeFolders, MayJoin
<1>2. TypeInv'
  BY <1>0, TypeInvNext DEF Next
<1>3. /\ lf \in FoldersOf(l) /\ rf \in FoldersOf(r) /\ lf # rf
      /\ folder'[lf].data = a \o b /\ folder'[lf].blocks = folder[lf].blocks + folder[rf].blocks - 1
      /\ folder'[lf].next = folder[rf].next
  BY <1>0, <1>2, MergeFoldersList DEF JoinedBlocks
<1>4. lf \in Folder /\ rf \in Folder /\ folder[lf].live /\ folder[rf].live
  BY <1>0, <1>1, <1>3, ListFacts
<1>5. /\ PartsOf(lf) /\ OneChained(lf) /\ OneCounted(lf)
      /\ PartsOf(rf) /\ OneChained(rf) /\ OneCounted(rf)
  BY <1>0, <1>4, LiveParts DEF PartsChained
<1>6. rf = <<r, 1>> /\ a[Len(a)] = l
  BY <1>1, <1>4, JointFound
<1>7. \A c \in Cab : /\ cab'[c].img = cab[c].img
                     /\ cab'[c].nextcab = IF c = l THEN r ELSE cab[c].nextcab
  BY <1>0, <1>1, JoinedSets
<1>8. cab[l].nextcab = NULL
  BY <1>1 DEF BadArgs
<1>9. /\ a \in Seq(Cab) /\ Len(a) \in Nat \ {0} /\ b \in Seq(Cab) /\ Len(b) \in Nat \ {0}
      /\ a[1] = lf[1] /\ lf[2] <= Len(ImageFolders[cab[lf[1]].img])
      /\ \A n \in 1..Len(a) - 1 : cab[a[n]].nextcab = a[n + 1]
      /\ b[1] = rf[1]
      /\ \A n \in 1..Len(b) - 1 : cab[b[n]].nextcab = b[n + 1]
      /\ folder[rf].next = NULL => cab[b[Len(b)]].nextcab = NULL
  BY <1>5 DEF PartsOf, OneChained
<1>10. b[Len(b)] # l
  <2>1. /\ folder[rf].data # <<>> /\ \A n \in DOMAIN folder[rf].data : folder[rf].data[n] \in SetOf(r)
    BY <1>0, <1>1, <1>3 DEF Graph, PartsInSet
  <2>2. b[Len(b)] \in SetOf(r)
    BY <1>9, <2>1
  <2>3. l \in SetOf(l) /\ SetOf(l) \cap SetOf(r) = {}
    BY <1>0, <1>1, SetFacts, JoinedSets DEF Graph
  <2> QED
    BY <2>2, <2>3
<1>11. PartBlocks(lf) \in Seq(Nat) /\ Len(PartBlocks(lf)) = Len(a)
       /\ PartBlocks(rf) \in Seq(Nat) /\ Len(PartBlocks(rf)) = Len(b)
  BY <1>0, <1>4, <1>5, PartBlocksType
<1>12. PartBlocks(lf)' = PartBlocks(lf) \o PartBlocks(rf)
  <2> DEFINE pa == PartBlocks(lf)
             pb == PartBlocks(rf)
             d == a \o b
             p == pa \o pb
             la == Len(a)
             lb == Len(b)
             part(n) == ImageFolders[cab'[d[n]].img][IF n = 1 THEN lf[2] ELSE 1].blocks
  <2>1. PartBlocks(lf)' = [n \in 1..Len(d) |-> part(n)]
    BY <1>3 DEF PartBlocks
  <2>2. /\ \A n \in 1..la : pa[n] = ImageFolders[cab[a[n]].img][IF n = 1 THEN lf[2] ELSE 1].blocks
        /\ \A n \in 1..lb : pb[n] = ImageFolders[cab[b[n]].img][IF n = 1 THEN rf[2] ELSE 1].blocks
    BY DEF PartBlocks
  <2>3. rf[2] = 1
    BY <1>6
  <2>4. Len(pa) = la /\ Len(pb) = lb /\ pa \in Seq(Nat) /\ pb \in Seq(Nat) /\ a \in Seq(Cab) /\ b \in Seq(Cab)
        /\ la \in Nat \ {0} /\ lb \in Nat \ {0}
    BY <1>9, <1>11
  <2> HIDE DEF pa, pb, a, b, rf
  <2>5. /\ Len(d) = la + lb
        /\ \A n \in 1..la : d[n] = a[n] /\ a[n] \in Cab
        /\ \A n \in 1..lb : d[la + n] = b[n] /\ b[n] \in Cab
    BY <2>4, BothSeqs
  <2>6. /\ Len(p) = la + lb /\ p = [n \in 1..Len(p) |-> p[n]]
        /\ \A n \in 1..la : p[n] = pa[n]
        /\ \A n \in 1..lb : p[la + n] = pb[n]
    <3>1. /\ Len(p) = Len(pa) + Len(pb) /\ p = [n \in 1..Len(p) |-> p[n]]
          /\ \A n \in 1..Len(pa) : p[n] = pa[n]
          /\ \A n \in 1..Len(pb) : p[Len(pa) + n] = pb[n]
      <4> DEFINE N == Nat
      <4>1. pa \in Seq(N) /\ pb \in Seq(N) /\ p = pa \o pb
        BY <2>4
      <4> HIDE DEF N
      <4>2. /\ p \in Seq(N) /\ Len(p) = Len(pa) + Len(pb)
            /\ \A n \in 1..Len(pa) : p[n] = pa[n]
            /\ \A n \in 1..Len(pb) : p[Len(pa) + n] = pb[n]
        BY <4>1, BothSeqs
      <4> HIDE DEF p
      <4>3. p = [n \in 1..Len(p) |-> p[n]]
        BY <4>2, SeqIsFunction
      <4> QED
        BY <4>2, <4>3
    <3>2. Len(pa) = la /\ Len(pb) = lb
      BY <2>4
    <3> HIDE DEF p, la, lb
    <3> QED
      BY <3>1, <3>2
  <2> HIDE DEF d, p, la, lb
  <2>7. ASSUME NEW n \in 1..la + lb PROVE part(n) = p[n]
    <3>1. CASE n <= la
      <4>1. n \in 1..la
        BY <2>4, <3>1
      <4>2. d[n] = a[n] /\ a[n] \in Cab /\ p[n] = pa[n]
        BY <2>5, <2>6, <4>1
      <4>3. cab'[d[n]].img = cab[a[n]].img
        BY <1>7, <4>2
      <4> QED
        BY <2>2, <4>1, <4>2, <4>3
    <3>2. CASE n > la
      <4> DEFINE m == n - la
      <4>1. m \in 1..lb /\ n = la + m /\ n # 1
        BY <2>4, <3>2
      <4> HIDE DEF m
      <4>2. d[n] = b[m] /\ b[m] \in Cab /\ p[n] = pb[m]
        BY <2>5, <2>6, <4>1
      <4>3. pb[m] = ImageFolders[cab[b[m]].img][1].blocks
        BY <2>2, <2>3, <4>1
      <4>4. cab'[d[n]].img = cab[b[m]].img
        BY <1>7, <4>2
      <4> QED
        BY <4>1, <4>2, <4>3, <4>4
    <3> QED
      BY <2>4, <3>1, <3>2
  <2>8. [n \in 1..la + lb |-> part(n)] = [n \in 1..la + lb |-> p[n]]
    <3> HIDE DEF part
    <3> QED
      BY <2>7
  <2> QED
    BY <2>1, <2>5, <2>6, <2>8 DEF p, pa, pb
<1>13. OneCounted(lf)'
  <2> DEFINE pa == PartBlocks(lf)
             pb == PartBlocks(rf)
             x == SumOf(pa)
             y == SumOf(pb)
             la == Len(a)
             lb == Len(b)
             z == SumOf(PartBlocks(lf))'
  <2>1. SumOf(pa \o pb) = x + y /\ x \in Nat /\ y \in Nat
    BY <1>11, SumOfBoth
  <2>2. z = SumOf(PartBlocks(lf)')
    BY DEF SumOf
  <2>3. folder[lf].blocks = x - (la - 1) /\ folder[rf].blocks = y - (lb - 1)
    BY <1>5 DEF OneCounted
  <2>4. Len(folder'[lf].data) = la + lb
    BY <1>3, <1>9, BothSeqs
  <2>5. z = x + y
    BY <1>12, <2>1, <2>2
  <2>6. la \in Nat /\ lb \in Nat
    BY <1>9
  <2> HIDE DEF pa, pb, x, y, la, lb, z
  <2>7. folder'[lf].blocks = z - (Len(folder'[lf].data) - 1)
    BY <1>3, <2>1, <2>3, <2>4, <2>5, <2>6
  <2> QED
    BY <2>7 DEF OneCounted, z
<1>14. OneChained(lf)'
  <2> DEFINE nx == [c \in Cab |-> cab'[c].nextcab]
  <2>1. Follows(nx, a)
    <3> SUFFICES \A n \in 1..Len(a) - 1 : nx[a[n]] = a[n + 1]
      BY DEF Follows
    <3> TAKE n \in 1..Len(a) - 1
    <3>1. a[n] \in Cab /\ a[n + 1] \in Cab /\ cab[a[n]].nextcab = a[n + 1]
      BY <1>9
    <3> QED
      BY <1>0, <1>7, <1>8, <3>1
  <2>2. Follows(nx, b)
    <3> SUFFICES \A n \in 1..Len(b) - 1 : nx[b[n]] = b[n + 1]
      BY DEF Follows
    <3> TAKE n \in 1..Len(b) - 1
    <3>1. b[n] \in Cab /\ b[n + 1] \in Cab /\ cab[b[n]].nextcab = b[n + 1]
      BY <1>9
    <3> QED
      BY <1>0, <1>7, <1>8, <3>1
  <2>3. nx[a[Len(a)]] = b[1]
    BY <1>6, <1>7, <1>9
  <2> HIDE DEF nx, a, b
  <2>4. /\ \A n \in 1..Len(a \o b) : (a \o b)[n] \in Cab
        /\ Len(a \o b) \in Nat
    BY <1>9, BothSeqs
  <2>5. /\ Follows(nx, a \o b)
        /\ (a \o b)[1] = a[1] /\ (a \o b)[Len(a \o b)] = b[Len(b)]
    BY <1>9, <2>1, <2>2, <2>3, ChainsJoined
  <2>6. \A n \in 1..Len(a \o b) - 1 : cab'[(a \o b)[n]].nextcab = (a \o b)[n + 1]
    <3> TAKE n \in 1..Len(a \o b) - 1
    <3>1. n \in 1..Len(a \o b)
      BY <2>4
    <3>2. (a \o b)[n] \in Cab /\ nx[(a \o b)[n]] = (a \o b)[n + 1]
      BY <2>4, <2>5, <3>1 DEF Follows
    <3> QED
      BY <3>2 DEF nx
  <2>7. b[Len(b)] \in Cab /\ lf[1] \in Cab
    BY <1>4, <1>9 DEF Folder
  <2>8. folder'[lf].next = NULL => cab'[b[Len(b)]].nextcab = NULL
    BY <1>3, <1>7, <1>9, <1>10, <2>7
  <2>9. lf[2] <= Len(ImageFolders[cab'[lf[1]].img])
    BY <1>7, <1>9, <2>7
  <2> QED
    BY <1>3, <1>9, <2>5, <2>6, <2>8, <2>9 DEF OneChained
<1> QED
  BY <1>13, <1>14

LEMMA MergeFoldersOrder ==
  ASSUME Ordered, NEW l \in Cab, NEW r \in Cab, MergeFolders(l, r)
  PROVE  PartsChained' /\ SetsBegin'
<1> DEFINE lf == LeftFolder(l)
           rf == cab[r].folders
<1>0. Graph /\ PartsChained /\ TypeInv
  BY DEF Ordered, Graph
<1>1. ~BadArgs(l, r) /\ Attach(l, r) /\ Open(l) /\ Open(r)
  BY DEF MergeFolders, MayJoin
<1>2. TypeInv'
  BY <1>0, TypeInvNext DEF Next
<1>3. /\ \A g \in Folder \ {lf, rf} : folder'[g] = folder[g]
      /\ ~folder'[rf].live
  BY <1>0, <1>2, MergeFoldersList
<1>4. ASSUME NEW g \in Folder, folder'[g].live
      PROVE  OneChained(g)' /\ OneCounted(g)'
  <2>1. CASE g = lf
    BY <2>1, JointFolder
  <2>2. CASE g # lf
    <3>1. folder'[g] = folder[g]
      BY <1>3, <1>4, <2>2
    <3> QED
      BY <1>1, <1>4, <2>2, <3>1, JoinKeepsParts
  <2> QED
    BY <2>1, <2>2
<1>5. PartsChained'
  BY <1>4 DEF PartsChained
<1>6. SetsBegin'
  BY <1>1, JoinBegins
<1> QED
  BY <1>5, <1>6

\* Closing (cabd_close): whole sets go.
LEMMA CloseOrder ==
  ASSUME Ordered, TypeInv', NEW c \in Cab, Close(c)
  PROVE  PartsChained' /\ SetsBegin'
<1> DEFINE freed == Freed(c)
           gone == freed.cabs
<1>0. Graph /\ PartsChained /\ SetsBegin /\ TypeInv /\ SetsLinked
  BY DEF Ordered, Graph
<1>1. /\ WholeSets(gone)
      /\ freed.folders = UNION {FoldersOf(x) : x \in gone}
      /\ freed.files = UNION {FilesOf(x) : x \in gone}
  BY <1>0, FreedWhole DEF Close
<1>2. /\ cab' = [x \in Cab |-> IF x \in gone THEN NoCab ELSE cab[x]]
      /\ folder' = [x \in Folder |-> IF x \in freed.folders THEN NoFolder ELSE folder[x]]
      /\ file' = [x \in File |-> IF x \in freed.files THEN NoFile ELSE file[x]]
  BY DEF Close
<1> HIDE DEF freed, gone
<1>3. /\ \A x \in Cab : Open(x)' <=> Open(x) /\ x \notin gone
      /\ \A x \in Cab : Open(x)' => cab'[x] = cab[x] /\ SetOf(x)' = SetOf(x)
  <2>1. /\ cab' = [x \in Cab |-> IF x \in gone THEN NoCab ELSE cab[x]]
        /\ folder' = [x \in Folder |->
             IF x \in UNION {FoldersOf(d) : d \in gone} THEN NoFolder ELSE folder[x]]
        /\ file' = [x \in File |->
             IF x \in UNION {FilesOf(d) : d \in gone} THEN NoFile ELSE file[x]]
    BY <1>1, <1>2
  <2> QED
    BY <1>0, <1>1, <2>1, WholeSetsGone
<1>4. ASSUME NEW d \in Cab, Open(d), d \notin gone, NEW x \in SetOf(d)
      PROVE  x \in Cab /\ cab'[x] = cab[x]
  <2>1. x \in Cab /\ Open(x) /\ d \in SetOf(x)
    BY <1>0, <1>4, SetFacts
  <2>2. x \notin gone
    BY <1>1, <1>4, <2>1 DEF WholeSets
  <2> QED
    BY <1>2, <2>1, <2>2
<1>5. ASSUME NEW g \in Folder, folder'[g].live
      PROVE  OneChained(g)' /\ OneCounted(g)'
  <2>1. g \notin freed.folders /\ folder'[g] = folder[g]
    BY <1>2, <1>5 DEF NoFolder
  <2>2. PICK d \in Cab : /\ Open(d) /\ g \in FoldersOf(d)
                         /\ \A n \in 1..Len(folder[g].data) : folder[g].data[n] \in SetOf(d)
    BY <1>0, <1>5, <2>1, LiveParts
  <2>3. d \notin gone
    BY <1>1, <2>1, <2>2
  <2>4. PartsOf(g) /\ OneChained(g) /\ OneCounted(g)
    BY <1>0, <1>5, <2>1, LiveParts DEF PartsChained
  <2>5. \A n \in 1..Len(folder[g].data) : cab'[folder[g].data[n]] = cab[folder[g].data[n]]
    BY <1>4, <2>2, <2>3
  <2> QED
    BY <2>1, <2>4, <2>5, KeepsParts
<1>6. ASSUME NEW d \in Cab, Open(d)'
      PROVE  \E f \in SetOf(d)' : cab'[f].prevcab = NULL /\ cab'[d].folders = <<f, 1>>
  <2>1. Open(d) /\ d \notin gone /\ cab'[d] = cab[d] /\ SetOf(d)' = SetOf(d)
    BY <1>3, <1>6
  <2>2. PICK f \in SetOf(d) : cab[f].prevcab = NULL /\ cab[d].folders = <<f, 1>>
    BY <1>0, <2>1 DEF SetsBegin
  <2>3. cab'[f] = cab[f]
    BY <1>4, <2>1, <2>2
  <2> QED
    BY <2>1, <2>2, <2>3
<1>7. PartsChained' /\ SetsBegin'
  BY <1>5, <1>6 DEF PartsChained, SetsBegin
<1> QED
  BY <1>7

LEMMA StillOrder ==
  ASSUME Ordered, UNCHANGED <<cab, folder, file>>
  PROVE  PartsChained' /\ SetsBegin'
<1>0. PartsChained /\ SetsBegin
  BY DEF Ordered
<1>1. \A g \in Folder : (OneChained(g)' <=> OneChained(g)) /\ (OneCounted(g)' <=> OneCounted(g))
  <2> TAKE g \in Folder
  <2>1. PartBlocks(g)' = PartBlocks(g)
    BY DEF PartBlocks
  <2> QED
    BY <2>1 DEF OneChained, OneCounted
<1>2. \A c \in Cab : (Open(c)' <=> Open(c)) /\ SetOf(c)' = SetOf(c)
  BY DEF Open, SetOf, PrevOf, NextOf
<1>3. PartsChained'
  BY <1>0, <1>1 DEF PartsChained
<1>4. SetsBegin'
  BY <1>0, <1>2 DEF SetsBegin
<1> QED
  BY <1>3, <1>4

LEMMA OrderedNext == ASSUME ~JoinChains, Ordered, [Next]_vars PROVE Ordered'
<1>0. Graph /\ Graph' /\ TypeInv'
  BY GraphNext DEF Ordered, Graph
<1> SUFFICES PartsChained' /\ SetsBegin'
  BY <1>0 DEF Ordered
<1>2. ASSUME NEW S, NEW img, NEW succ, Loading(S, img, succ) PROVE PartsChained' /\ SetsBegin'
  BY <1>0, <1>2, LoadOrder
<1>3. ASSUME NEW c \in Cab, NEW i \in Image, OpenCab(c, i) PROVE PartsChained' /\ SetsBegin'
  BY <1>2, <1>3, OpenLoads
<1>4. ASSUME NEW c \in Cab, NEW d \in Cab, NEW i \in Image, NEW j \in Image, Search(c, d, i, j)
      PROVE  PartsChained' /\ SetsBegin'
  BY <1>2, <1>4, SearchLoads
<1>5. ASSUME NEW c \in Cab, NEW i \in Image, NEW n \in 0..MaxFolders, NEW k \in 0..MaxFiles,
             OpenFails(c, i, n, k)
      PROVE  PartsChained' /\ SetsBegin'
  <2>0. n \in Nat /\ k \in Nat
    BY ImageType
  <2> QED
    BY <1>0, <1>5, <2>0, OpenFailsStill, StillOrder DEF Graph
<1>6. ASSUME NEW l \in Cab, NEW r \in Cab, MergeRejected(l, r) PROVE PartsChained' /\ SetsBegin'
  BY <1>6, StillOrder DEF MergeRejected
<1>7. ASSUME NEW l \in Cab, NEW r \in Cab, MergePlain(l, r) PROVE PartsChained' /\ SetsBegin'
  BY <1>7, MergePlainOrder
<1>8. ASSUME NEW l \in Cab, NEW r \in Cab, MergeFolders(l, r) PROVE PartsChained' /\ SetsBegin'
  BY <1>8, MergeFoldersOrder
<1>9. ASSUME NEW f \in File, ExtractRefused(f) PROVE PartsChained' /\ SetsBegin'
  BY <1>9, StillOrder DEF ExtractRefused
<1>10. ASSUME NEW f \in File, ExtractRestart(f) PROVE PartsChained' /\ SetsBegin'
  BY <1>10, StillOrder DEF ExtractRestart
<1>11. ASSUME NEW f \in File, ExtractOnwards(f) PROVE PartsChained' /\ SetsBegin'
  BY <1>11, StillOrder DEF ExtractOnwards
<1>12. ASSUME NEW c \in Cab, Close(c) PROVE PartsChained' /\ SetsBegin'
  BY <1>0, <1>12, CloseOrder
<1>13. CASE UNCHANGED vars
  BY <1>13, StillOrder DEF vars
<1> QED
  BY <1>3, <1>4, <1>5, <1>6, <1>7, <1>8, <1>9, <1>10, <1>11, <1>12, <1>13 DEF Next

LEMMA NoTwoAlike ==
  ASSUME NEW S, NEW T, NEW h \in [S -> T], \A i, j \in S : h[i] = h[j] => i = j
  PROVE  h \in Injection(S, T)
BY DEF Injection, IsInjective

\* A set in order: the walk from its first cabinet comes by each cabinet once and
\* then ends.
WalkInOrder(D, nx, f, K) ==
  LET w == Walk(f, nx) IN
  /\ K \in 1..Cardinality(D) /\ Cardinality(D) \in Nat
  /\ w[0] = f /\ w[K] = NULL
  /\ \A n \in 0..K - 1 : w[n] \in D /\ nx[w[n]] = w[n + 1]
  /\ \A x \in Items(f, nx) : \E n \in 0..K - 1 : w[n] = x
  /\ Cardinality(Items(f, nx)) = K

LEMMA SetInOrder ==
  ASSUME NEW D, NEW nx, NEW pv, BothWays(nx, pv, D), NEW f \in D, pv[f] = NULL
  PROVE  \E K : WalkInOrder(D, nx, f, K)
<1> DEFINE N == Cardinality(D)
           w == Walk(f, nx)
<1>0. /\ Links(nx, D) /\ Links(pv, D) /\ NULL \notin D /\ IsFiniteSet(D)
      /\ DOMAIN nx = D /\ nx \in [D -> D \cup {NULL}]
      /\ \A c, d \in D : nx[c] = d <=> pv[d] = c
  BY DEF BothWays, Links
<1>1. /\ N \in Nat /\ w \in [0..N -> D \cup {NULL}] /\ w[0] = f
      /\ \A n \in 1..N : WalkStep(w, nx, n)
  BY <1>0, WalkSteps
<1>2. \A m \in 0..N : \A k \in m..N : w[m] = NULL => w[k] = NULL
  BY <1>0, WalkEnds
<1>3. Items(f, nx) = {x \in D : \E n \in 0..N : w[n] = x}
  BY <1>0, <1>1 DEF Items
<1> HIDE DEF w, N
<1>4. \A n \in 1..N : w[n] # NULL => /\ w[n - 1] \in D /\ w[n] \in D
                                     /\ w[n] = nx[w[n - 1]] /\ pv[w[n]] = w[n - 1]
  <2> TAKE n \in 1..N
  <2> HAVE w[n] # NULL
  <2>1. n - 1 \in 0..N /\ n \in 0..N
    BY <1>1
  <2>2. w[n - 1] \in D /\ w[n] \in D /\ w[n] = nx[w[n - 1]]
    BY <1>1, <2>1 DEF WalkStep
  <2> QED
    BY <1>0, <2>2
<1>5. \A i, j \in 0..N : w[i] # NULL /\ w[i] = w[j] => i = j
  <2> DEFINE B == {i \in 0..N : \E j \in 0..N : i < j /\ w[i] = w[j] /\ w[i] # NULL}
  <2>1. ASSUME B # {} PROVE FALSE
    <3>1. B \in SUBSET Nat
      BY <1>1
    <3>2. PICK i \in B : \A k \in B : i <= k
      BY <2>1, <3>1, LeastNumber
    <3>3. PICK j \in 0..N : i < j /\ w[i] = w[j] /\ w[i] # NULL
      BY <3>2
    <3>4. i \in 0..N /\ j \in 1..N /\ i \in Nat /\ j \in Nat
      BY <1>1, <3>2, <3>3
    <3>5. w[j - 1] \in D /\ pv[w[i]] = w[j - 1]
      BY <1>4, <3>3, <3>4
    <3>6. i # 0
      BY <1>0, <1>1, <3>5
    <3>7. i \in 1..N /\ i - 1 \in 0..N /\ j - 1 \in 0..N /\ i - 1 < j - 1 /\ i - 1 < i
      BY <1>1, <3>3, <3>4, <3>6
    <3>8. pv[w[i]] = w[i - 1]
      BY <1>4, <3>3, <3>7
    <3>9. i - 1 \in B
      BY <1>0, <3>5, <3>7, <3>8
    <3> HIDE DEF B
    <3> QED
      BY <3>2, <3>4, <3>7, <3>9
  <2>2. ASSUME NEW i \in 0..N, NEW j \in 0..N, w[i] # NULL, w[i] = w[j] PROVE i = j
    <3>1. ~(i < j)
      BY <2>1, <2>2
    <3>2. ~(j < i)
      BY <2>1, <2>2
    <3> QED
      BY <1>1, <3>1, <3>2
  <2> QED
    BY <2>2
<1>6. \E n \in 0..N : w[n] = NULL
  <2> SUFFICES ASSUME \A n \in 0..N : w[n] # NULL PROVE FALSE
    OBVIOUS
  <2>1. w \in Injection(0..N, D)
    <3>1. w \in [0..N -> D]
      BY <1>1
    <3>2. \A i, j \in 0..N : w[i] = w[j] => i = j
      BY <1>5
    <3> QED
      BY <3>1, <3>2, NoTwoAlike
  <2>2. Cardinality(0..N) <= Cardinality(D)
    BY <1>0, <2>1, FS_Injection
  <2>3. Cardinality(0..N) = N + 1
    <3>1. 0 \in Int /\ N \in Int /\ ~(0 > N) /\ N - 0 + 1 = N + 1
      BY <1>1
    <3> QED
      BY <3>1, FS_Interval
  <2> QED
    BY <1>1, <2>2, <2>3 DEF N
<1> DEFINE E == {n \in 0..N : w[n] = NULL}
<1>7. PICK K \in E : \A n \in E : K <= n
  <2>1. E # {} /\ E \in SUBSET Nat
    BY <1>1, <1>6
  <2> HIDE DEF E
  <2> QED
    BY <2>1, LeastNumber
<1>8. K \in 1..N /\ K \in 0..N /\ K \in Nat /\ w[K] = NULL
  BY <1>0, <1>1, <1>7
<1>9. \A n \in 0..K - 1 : n \in 0..N /\ n + 1 \in 1..N /\ w[n] # NULL /\ w[n] \in D
  <2> TAKE n \in 0..K - 1
  <2>1. n \in 0..N /\ n + 1 \in 1..N /\ ~(K <= n)
    BY <1>1, <1>8
  <2>2. w[n] # NULL
    BY <1>7, <2>1
  <2> QED
    BY <1>1, <2>1, <2>2
<1> HIDE DEF E
<1>10. \A n \in 0..K - 1 : nx[w[n]] = w[n + 1]
  <2> TAKE n \in 0..K - 1
  <2>1. n + 1 \in 1..N /\ w[n] # NULL /\ (n + 1) - 1 = n
    BY <1>8, <1>9
  <2>2. WalkStep(w, nx, n + 1)
    BY <1>1, <2>1
  <2> QED
    BY <2>1, <2>2 DEF WalkStep
<1>11. \A x \in Items(f, nx) : \E n \in 0..K - 1 : w[n] = x
  <2> TAKE x \in Items(f, nx)
  <2>1. PICK n \in 0..N : w[n] = x /\ x \in D
    BY <1>3
  <2>2. n < K
    <3> SUFFICES ASSUME ~(n < K) PROVE FALSE
      OBVIOUS
    <3>1. n \in K..N
      BY <1>1, <1>8
    <3> QED
      BY <1>0, <1>2, <1>8, <2>1, <3>1
  <2>3. n \in 0..K - 1
    BY <1>1, <1>8, <2>2
  <2> QED
    BY <2>1, <2>3
<1>12. Cardinality(Items(f, nx)) = K
  <2> DEFINE S == 0..K - 1
             g == [n \in S |-> w[n]]
  <2>1. g \in Surjection(S, Items(f, nx))
    <3>1. \A n \in S : w[n] \in Items(f, nx)
      BY <1>3, <1>9
    <3> QED
      BY <1>11, <3>1 DEF Surjection
  <2>2. g \in Injection(S, Items(f, nx))
    <3>1. g \in [S -> Items(f, nx)]
      BY <2>1 DEF Surjection
    <3>2. \A i, j \in S : g[i] = g[j] => i = j
      <4> SUFFICES ASSUME NEW i \in S, NEW j \in S, g[i] = g[j] PROVE i = j
        OBVIOUS
      <4>1. i \in 0..N /\ j \in 0..N /\ w[i] # NULL /\ w[i] = w[j]
        BY <1>9
      <4> QED
        BY <1>5, <4>1
    <3> HIDE DEF g, S
    <3> QED
      BY <3>1, <3>2, NoTwoAlike
  <2>3. IsFiniteSet(S) /\ Cardinality(S) = K
    <3>1. 0 \in Int /\ K - 1 \in Int /\ ~(0 > K - 1) /\ (K - 1) - 0 + 1 = K
      BY <1>8
    <3> QED
      BY <3>1, FS_Interval
  <2> HIDE DEF S, g
  <2>4. Cardinality(Items(f, nx)) = Cardinality(S)
    BY <2>1, <2>2, <2>3, FS_Surjection
  <2> QED
    BY <2>3, <2>4
<1>13. WalkInOrder(D, nx, f, K)
  BY <1>1, <1>8, <1>9, <1>10, <1>11, <1>12 DEF WalkInOrder, w, N
<1> QED
  BY <1>13

\* A chain of cabinets lies in the walk as it is.
LEMMA ChainInWalk ==
  ASSUME NEW D, NEW nx, NEW f, NEW K, WalkInOrder(D, nx, f, K), NULL \notin D,
         NEW data \in Seq(D), Len(data) # 0, data[1] \in Items(f, nx),
         \A n \in 1..Len(data) - 1 : nx[data[n]] = data[n + 1]
  PROVE  \E m \in 0..K : /\ m + Len(data) <= K
                         /\ \A n \in 1..Len(data) : Walk(f, nx)[m + n - 1] = data[n]
<1> DEFINE w == Walk(f, nx)
           L == Len(data)
<1>1. /\ K \in Nat \ {0} /\ w[K] = NULL
      /\ \A n \in 0..K - 1 : nx[w[n]] = w[n + 1]
      /\ \A x \in Items(f, nx) : \E n \in 0..K - 1 : w[n] = x
  <2>1. /\ K \in 1..Cardinality(D) /\ Cardinality(D) \in Nat /\ w[K] = NULL
        /\ \A n \in 0..K - 1 : w[n] \in D /\ nx[w[n]] = w[n + 1]
        /\ \A x \in Items(f, nx) : \E n \in 0..K - 1 : w[n] = x
    BY DEF WalkInOrder
  <2>2. K \in Nat \ {0}
    BY <2>1
  <2> HIDE DEF w
  <2> QED
    BY <2>1, <2>2
<1>2. L \in Nat \ {0} /\ \A n \in 1..L : data[n] \in D
  OBVIOUS
<1>3. \A n \in 1..L - 1 : nx[data[n]] = data[n + 1]
  OBVIOUS
<1>4. PICK m \in 0..K - 1 : w[m] = data[1]
  BY <1>1
<1> HIDE DEF w, L
<1>5. \A n \in 1..L : m + n <= K /\ w[m + n - 1] = data[n]
  <2> DEFINE B == {n \in 1..L : ~(m + n <= K /\ w[m + n - 1] = data[n])}
  <2> SUFFICES ASSUME B # {} PROVE FALSE
    OBVIOUS
  <2>1. B \in SUBSET Nat
    BY <1>2
  <2>2. PICK k \in B : \A j \in B : k <= j
    BY <2>1, LeastNumber
  <2>3. m + 1 <= K /\ m + 1 - 1 = m /\ m \in Nat
    BY <1>1
  <2>4. k # 1 /\ k \in 1..L
    BY <1>2, <1>4, <2>2, <2>3
  <2>5. k - 1 \in 1..L - 1 /\ k - 1 \in 1..L /\ k \in Nat
    BY <1>2, <2>4
  <2>6. k - 1 \notin B
    <3>1. ~(k <= k - 1)
      BY <2>5
    <3> HIDE DEF B
    <3> QED
      BY <2>2, <3>1
  <2>7. m + (k - 1) <= K /\ w[m + (k - 1) - 1] = data[k - 1]
    BY <2>5, <2>6
  <2>8. m + (k - 1) - 1 = m + k - 2 /\ m + k - 2 \in 0..K - 1 /\ (m + k - 2) + 1 = m + k - 1
        /\ m + (k - 1) = m + k - 1
    BY <1>1, <2>3, <2>4, <2>5, <2>7
  <2>9. nx[w[m + k - 2]] = w[m + k - 1]
    BY <1>1, <2>8
  <2>10. nx[data[k - 1]] = data[k]
    <3>1. (k - 1) + 1 = k
      BY <2>5
    <3> QED
      BY <1>3, <2>5, <3>1
  <2>11. w[m + k - 1] = data[k]
    BY <2>7, <2>8, <2>9, <2>10
  <2>12. data[k] # NULL
    BY <1>2, <2>4
  <2>13. m + k - 1 # K
    BY <1>1, <2>11, <2>12
  <2>14. m + k <= K
    BY <1>1, <2>3, <2>5, <2>7, <2>13
  <2> QED
    BY <2>2, <2>11, <2>14
<1>6. m \in 0..K /\ m + L <= K
  BY <1>1, <1>2, <1>5
<1> QED
  BY <1>5, <1>6 DEF w, L

LEMMA SegmentsFollow == Ordered => SegmentsInSetOrder
<1> SUFFICES ASSUME Ordered, NEW c \in Cab, Open(c), NEW g \in FoldersOf(c)
             PROVE  \E m \in 0..Cardinality(SetOf(c)) :
                      /\ m + Len(folder[g].data) <= Cardinality(SetOf(c))
                      /\ folder[g].data = [n \in 1..Len(folder[g].data) |-> SetSeq(c)[m + n]]
  BY DEF SegmentsInSetOrder
<1> DEFINE data == folder[g].data
<1>0. Graph /\ PartsChained /\ SetsBegin /\ TypeInv /\ SetsLinked /\ NULL \notin Cab
  BY FiniteHeap DEF Ordered, Graph
<1>1. PICK f \in SetOf(c) : cab[f].prevcab = NULL
  BY <1>0 DEF SetsBegin
<1>2. /\ SetOf(f) = SetOf(c) /\ f \in Cab /\ c \in SetOf(f) /\ SetOf(c) \subseteq Cab
      /\ BothWays(NextOf, PrevOf, Cab) /\ PrevOf[f] = NULL
  <2>1. SetOf(f) = SetOf(c) /\ f \in Cab /\ c \in SetOf(c) /\ SetOf(c) \subseteq Cab
    BY <1>0, <1>1, SetFacts
  <2>2. BothWays(NextOf, PrevOf, Cab)
    BY <1>0, SetWays
  <2>3. PrevOf[f] = NULL
    BY <1>1, <2>1 DEF PrevOf
  <2> QED
    BY <2>1, <2>2, <2>3
<1>3. Links(NextOf, Cab) /\ Links(PrevOf, Cab)
  BY <1>2 DEF BothWays
<1>4. SetOf(c) = Items(f, NextOf)
  <2>1. Items(f, PrevOf) = {f} \cup Items(NULL, PrevOf) /\ Items(NULL, PrevOf) = {}
    BY <1>2, <1>3, ListUnfolds, ListBasics
  <2>2. f \in Items(f, NextOf)
    BY <1>0, <1>2, <1>3, ListBasics
  <2> QED
    BY <1>2, <2>1, <2>2 DEF SetOf
<1>5. FirstOf(c) = f
  <2>1. f \in Items(c, PrevOf)
    <3>1. c \in Items(f, NextOf)
      BY <1>2, <1>4
    <3> QED
      BY <1>2, <3>1, WayBack
  <2>2. \A x \in Items(c, PrevOf) : cab[x].prevcab = NULL => x = f
    <3> SUFFICES ASSUME NEW x \in Items(c, PrevOf), cab[x].prevcab = NULL PROVE x = f
      OBVIOUS
    <3>1. x \in SetOf(f) /\ x \in Cab
      BY <1>2 DEF SetOf
    <3>2. x \in Items(f, PrevOf) \cup Items(f, NextOf) /\ PrevOf[x] = NULL
      BY <3>1 DEF SetOf, PrevOf
    <3> QED
      BY <1>2, <3>2, OneFirst
  <2> QED
    BY <1>1, <2>1, <2>2 DEF FirstOf
<1>6. PICK K : WalkInOrder(Cab, NextOf, f, K)
  BY <1>2, SetInOrder
<1>7. g \in Folder /\ folder[g].live
  BY <1>0, ListFacts
<1>8. PartsOf(g) /\ OneChained(g)
  BY <1>0, <1>7, LiveParts DEF PartsChained
<1>9. /\ data \in Seq(Cab) /\ Len(data) \in Nat \ {0}
      /\ \A n \in 1..Len(data) : data[n] \in Cab
      /\ \A n \in 1..Len(data) - 1 : cab[data[n]].nextcab = data[n + 1]
  BY <1>8 DEF PartsOf, OneChained
<1>10. data[1] \in Items(f, NextOf)
  <2>1. data # <<>> /\ \A n \in DOMAIN data : data[n] \in SetOf(c)
    BY <1>0 DEF Graph, PartsInSet
  <2>2. 1 \in DOMAIN data
    BY <1>9
  <2> QED
    BY <1>4, <2>1, <2>2
<1> HIDE DEF data
<1>11. \A n \in 1..Len(data) - 1 : NextOf[data[n]] = data[n + 1]
  <2> TAKE n \in 1..Len(data) - 1
  <2>1. n \in 1..Len(data)
    BY <1>9
  <2> QED
    BY <1>9, <2>1 DEF NextOf
<1>12. PICK m \in 0..K : /\ m + Len(data) <= K
                         /\ \A n \in 1..Len(data) : Walk(f, NextOf)[m + n - 1] = data[n]
  BY <1>0, <1>6, <1>9, <1>10, <1>11, ChainInWalk
<1>13. Cardinality(SetOf(c)) = K /\ K \in Nat
  BY <1>4, <1>6 DEF WalkInOrder
<1>14. SetSeq(c) = [n \in 1..K |-> Walk(f, NextOf)[n - 1]]
  BY <1>5, <1>13 DEF SetSeq
<1>15. \A n \in 1..Len(data) : SetSeq(c)[m + n] = data[n]
  <2> TAKE n \in 1..Len(data)
  <2>1. m + n \in 1..K
    BY <1>9, <1>12, <1>13
  <2> QED
    BY <1>12, <1>14, <2>1
<1>16. data = [n \in 1..Len(data) |-> data[n]]
  BY <1>9, SeqIsFunction
<1>17. data = [n \in 1..Len(data) |-> SetSeq(c)[m + n]]
  BY <1>15, <1>16
<1> QED
  BY <1>12, <1>13, <1>17 DEF data

LEMMA OrderedInit == Init => Ordered
<1> SUFFICES ASSUME Init PROVE Ordered
  OBVIOUS
<1>1. Graph
  BY GraphInit
<1>2. (\A c \in Cab : ~Open(c)) /\ \A g \in Folder : ~folder[g].live
  BY DEF Init, Open, NoCab, NoFolder
<1> QED
  BY <1>1, <1>2 DEF Ordered, PartsChained, SetsBegin

\* For a caller that keeps to the documentation of close(): the parts of every folder
\* are consecutive cabinets of its set, in set order, whatever the order of the
\* append() and prepend() calls that made the set, and its block count is what the
\* headers of these parts say, less one for each joint inside it.
THEOREM FoldersStayInOrder == ASSUME ~JoinChains PROVE Spec => []FoldersAddUp
<1>1. Init => Ordered
  BY OrderedInit
<1>2. Ordered /\ [Next]_vars => Ordered'
  BY OrderedNext
<1>3. Ordered => FoldersAddUp
  <2> SUFFICES ASSUME Ordered PROVE FoldersAddUp
    OBVIOUS
  <2>1. SegmentsInSetOrder
    BY SegmentsFollow
  <2>2. BlockCount
    BY DEF Ordered, PartsChained, OneCounted, BlockCount
  <2> QED
    BY <2>1, <2>2 DEF FoldersAddUp
<1> QED
  BY <1>1, <1>2, <1>3, PTL DEF Spec

HIDE DEF FROM_PREV, TO_NEXT, PREV_AND_NEXT

-----------------------------------------------------------------------------
(* Lists as sequences.                                                      *)

\* s is the list that next makes of the objects of D from h on.
Lists(s, h, next, D) ==
  /\ s \in Seq(D) /\ Len(s) # 0 /\ s[1] = h
  /\ \A n \in 1..Len(s) - 1 : next[s[n]] = s[n + 1]
  /\ next[s[Len(s)]] = NULL

\* A walk along a list that ends comes by each object once.
LEMMA ListInOrder ==
  ASSUME NEW D, NEW next, NEW h \in D, Links(next, D),
         \E x \in Items(h, next) : next[x] = NULL
  PROVE  \E K : /\ WalkInOrder(D, next, h, K)
                /\ \A n \in K..Cardinality(D) : Walk(h, next)[n] = NULL
                /\ \A i, j \in 0..K - 1 : Walk(h, next)[i] = Walk(h, next)[j] => i = j
<1> DEFINE N == Cardinality(D)
           w == Walk(h, next)
<1>0. NULL \notin D /\ IsFiniteSet(D) /\ DOMAIN next = D
  BY DEF Links
<1>1. /\ N \in Nat /\ w \in [0..N -> D \cup {NULL}] /\ w[0] = h
      /\ \A n \in 1..N : WalkStep(w, next, n)
  BY WalkSteps
<1>2. \A m \in 0..N : \A k \in m..N : w[m] = NULL => w[k] = NULL
  BY WalkEnds
<1>3. Items(h, next) = {x \in D : \E n \in 0..N : w[n] = x}
  BY <1>0, <1>1 DEF Items
<1> HIDE DEF w, N
<1>4. ASSUME NEW i \in 0..N, NEW j \in 0..N, i < j, w[i] \in D, w[i] = w[j] PROVE FALSE
  <2> DEFINE B == {k \in i + 1..N : w[k] \notin Items(w[i + 1], next) \cup {NULL}}
  <2>1. i \in Nat /\ j \in Nat /\ i + 1 \in 1..N /\ i + 1 - 1 = i /\ w[i + 1] = next[w[i]]
    <3>1. i + 1 \in 1..N /\ i + 1 - 1 = i /\ i \in Nat /\ j \in Nat
      BY <1>1, <1>4
    <3> QED
      BY <1>0, <1>1, <1>4, <3>1 DEF WalkStep
  <2>2. w[i + 1] \in D \cup {NULL}
    BY <1>1, <2>1
  <2>3. B = {}
    <3> SUFFICES ASSUME B # {} PROVE FALSE
      OBVIOUS
    <3>1. B \in SUBSET Nat
      BY <1>1, <2>1
    <3>2. PICK k \in B : \A m \in B : k <= m
      <4> HIDE DEF B
      <4> QED
        BY <3>1, LeastNumber
    <3>3. k # i + 1
      BY <2>2, ListBasics
    <3>4. k - 1 \in i + 1..N /\ k \in 1..N /\ ~(k <= k - 1) /\ k - 1 \in 0..N
      BY <1>1, <2>1, <3>2, <3>3
    <3>5. w[k - 1] \in Items(w[i + 1], next) \cup {NULL}
      BY <3>2, <3>4
    <3>6. w[k] \in Items(w[i + 1], next) \cup {NULL}
      BY <1>1, <2>2, <3>4, <3>5, ListBasics DEF WalkStep
    <3> QED
      BY <3>2, <3>6
  <2>4. w[i] \in Items(w[i + 1], next)
    <3>1. j \in i + 1..N
      BY <1>1, <1>4, <2>1
    <3> QED
      BY <1>0, <1>4, <2>3, <3>1
  <2>5. w[i] \in Items(h, next)
    BY <1>3, <1>4
  <2>6. PICK x \in Items(h, next) : next[x] = NULL
    OBVIOUS
  <2>7. x \in Items(w[i], next)
    BY <2>5, <2>6, ListEndsOnce
  <2> QED
    BY <1>4, <2>1, <2>4, <2>6, <2>7, ListEndsOnce
<1>5. \A i, j \in 0..N : w[i] # NULL /\ w[i] = w[j] => i = j
  <2> TAKE i, j \in 0..N
  <2> HAVE w[i] # NULL /\ w[i] = w[j]
  <2>1. i \in Nat /\ j \in Nat /\ w[i] \in D /\ w[j] \in D
    BY <1>1
  <2>2. ~(i < j) /\ ~(j < i)
    BY <1>4, <2>1
  <2> QED
    BY <2>1, <2>2
<1>6. \E n \in 0..N : w[n] = NULL
  <2> SUFFICES ASSUME \A n \in 0..N : w[n] # NULL PROVE FALSE
    OBVIOUS
  <2>1. w \in Injection(0..N, D)
    <3>1. w \in [0..N -> D]
      BY <1>1
    <3>2. \A i, j \in 0..N : w[i] = w[j] => i = j
      BY <1>5
    <3> QED
      BY <3>1, <3>2, NoTwoAlike
  <2>2. Cardinality(0..N) <= Cardinality(D)
    BY <1>0, <2>1, FS_Injection
  <2>3. Cardinality(0..N) = N + 1
    <3>1. 0 \in Int /\ N \in Int /\ ~(0 > N) /\ N - 0 + 1 = N + 1
      BY <1>1
    <3> QED
      BY <3>1, FS_Interval
  <2> QED
    BY <1>1, <2>2, <2>3 DEF N
<1> DEFINE E == {n \in 0..N : w[n] = NULL}
<1>7. PICK K \in E : \A n \in E : K <= n
  <2>1. E # {} /\ E \in SUBSET Nat
    BY <1>1, <1>6
  <2> HIDE DEF E
  <2> QED
    BY <2>1, LeastNumber
<1>8. K \in 1..N /\ K \in 0..N /\ K \in Nat /\ w[K] = NULL
  BY <1>0, <1>1, <1>7
<1>9. \A n \in 0..K - 1 : n \in 0..N /\ n + 1 \in 1..N /\ w[n] # NULL /\ w[n] \in D
  <2> TAKE n \in 0..K - 1
  <2>1. n \in 0..N /\ n + 1 \in 1..N /\ ~(K <= n)
    BY <1>1, <1>8
  <2>2. w[n] # NULL
    BY <1>7, <2>1
  <2> QED
    BY <1>1, <2>1, <2>2
<1> HIDE DEF E
<1>10. \A n \in 0..K - 1 : next[w[n]] = w[n + 1]
  <2> TAKE n \in 0..K - 1
  <2>1. n + 1 \in 1..N /\ w[n] # NULL /\ (n + 1) - 1 = n
    BY <1>8, <1>9
  <2>2. WalkStep(w, next, n + 1)
    BY <1>1, <2>1
  <2> QED
    BY <2>1, <2>2 DEF WalkStep
<1>11. \A x \in Items(h, next) : \E n \in 0..K - 1 : w[n] = x
  <2> TAKE x \in Items(h, next)
  <2>1. PICK n \in 0..N : w[n] = x /\ x \in D
    BY <1>3
  <2>2. n < K
    <3> SUFFICES ASSUME ~(n < K) PROVE FALSE
      OBVIOUS
    <3>1. n \in K..N
      BY <1>1, <1>8
    <3> QED
      BY <1>0, <1>2, <1>8, <2>1, <3>1
  <2>3. n \in 0..K - 1
    BY <1>1, <1>8, <2>2
  <2> QED
    BY <2>1, <2>3
<1>12. Cardinality(Items(h, next)) = K
  <2> DEFINE S == 0..K - 1
             g == [n \in S |-> w[n]]
  <2>1. g \in Surjection(S, Items(h, next))
    <3>1. \A n \in S : w[n] \in Items(h, next)
      BY <1>3, <1>9
    <3> QED
      BY <1>11, <3>1 DEF Surjection
  <2>2. g \in Injection(S, Items(h, next))
    <3>1. g \in [S -> Items(h, next)]
      BY <2>1 DEF Surjection
    <3>2. \A i, j \in S : g[i] = g[j] => i = j
      <4> SUFFICES ASSUME NEW i \in S, NEW j \in S, g[i] = g[j] PROVE i = j
        OBVIOUS
      <4>1. i \in 0..N /\ j \in 0..N /\ w[i] # NULL /\ w[i] = w[j]
        BY <1>9
      <4> QED
        BY <1>5, <4>1
    <3> HIDE DEF g, S
    <3> QED
      BY <3>1, <3>2, NoTwoAlike
  <2>3. IsFiniteSet(S) /\ Cardinality(S) = K
    <3>1. 0 \in Int /\ K - 1 \in Int /\ ~(0 > K - 1) /\ (K - 1) - 0 + 1 = K
      BY <1>8
    <3> QED
      BY <3>1, FS_Interval
  <2> HIDE DEF S, g
  <2>4. Cardinality(Items(h, next)) = Cardinality(S)
    BY <2>1, <2>2, <2>3, FS_Surjection
  <2> QED
    BY <2>3, <2>4
<1>13. WalkInOrder(D, next, h, K)
  BY <1>1, <1>8, <1>9, <1>10, <1>11, <1>12 DEF WalkInOrder, w, N
<1>14. /\ \A n \in K..N : w[n] = NULL
       /\ \A i, j \in 0..K - 1 : w[i] = w[j] => i = j
  BY <1>2, <1>5, <1>8, <1>9
<1> QED
  BY <1>13, <1>14 DEF w, N

\* What a caller meets is the list, each object of it once.
LEMMA MetLists ==
  ASSUME NEW D, NEW next, NEW h \in D, Links(next, D),
         \E x \in Items(h, next) : next[x] = NULL
  PROVE  /\ Lists(Met(h, next), h, next, D)
         /\ Items(h, next) = {Met(h, next)[n] : n \in 1..Len(Met(h, next))}
         /\ \A i, j \in 1..Len(Met(h, next)) : Met(h, next)[i] = Met(h, next)[j] => i = j
         /\ Len(Met(h, next)) = Cardinality(Items(h, next))
<1> DEFINE N == Cardinality(D)
           w == Walk(h, next)
<1>1. PICK K : /\ WalkInOrder(D, next, h, K)
               /\ \A n \in K..N : w[n] = NULL
               /\ \A i, j \in 0..K - 1 : w[i] = w[j] => i = j
  BY ListInOrder
<1>2. /\ K \in 1..N /\ N \in Nat /\ w[0] = h /\ w[K] = NULL /\ NULL \notin D
      /\ \A n \in 0..K - 1 : w[n] \in D /\ next[w[n]] = w[n + 1]
      /\ \A x \in Items(h, next) : \E n \in 0..K - 1 : w[n] = x
      /\ Cardinality(Items(h, next)) = K
  BY <1>1 DEF WalkInOrder, Links
<1>3. DOMAIN w = 0..N
  BY WalkSteps
<1>4. \A n \in 0..K - 1 : w[n] \in Items(h, next)
  <2> TAKE n \in 0..K - 1
  <2>1. n \in DOMAIN w /\ DOMAIN next = D
    BY <1>2, <1>3 DEF Links
  <2> QED
    BY <1>2, <2>1 DEF Items
<1>5. Met(h, next) = [n \in 1..Cardinality({k \in DOMAIN w : w[k] # NULL}) |-> w[n - 1]]
  BY DEF Met
<1> HIDE DEF w, N
<1>6. {k \in DOMAIN w : w[k] # NULL} = 0..K - 1
  <2>1. ASSUME NEW k \in 0..N PROVE w[k] # NULL <=> k \in 0..K - 1
    <3>1. CASE k \in 0..K - 1
      BY <1>2, <3>1
    <3>2. CASE k \notin 0..K - 1
      <4>1. k \in K..N
        BY <1>2, <3>2
      <4> QED
        BY <1>1, <3>2, <4>1
    <3> QED
      BY <3>1, <3>2
  <2>2. 0..K - 1 \subseteq 0..N
    BY <1>2
  <2> QED
    BY <1>3, <2>1, <2>2
<1>7. Cardinality(0..K - 1) = K
  <2>1. 0 \in Int /\ K - 1 \in Int /\ ~(0 > K - 1) /\ (K - 1) - 0 + 1 = K
    BY <1>2
  <2> QED
    BY <2>1, FS_Interval
<1> DEFINE m == Met(h, next)
<1>8. m = [n \in 1..K |-> w[n - 1]]
  BY <1>5, <1>6, <1>7
<1> HIDE DEF m
<1>9. /\ K \in Nat /\ \A n \in 1..K : n - 1 \in 0..K - 1 /\ m[n] = w[n - 1] /\ m[n] \in D
      /\ \A n \in 0..K - 1 : n + 1 \in 1..K /\ (n + 1) - 1 = n
  BY <1>2, <1>8
<1>10. m \in Seq(D) /\ Len(m) = K
  <2>1. m \in [1..K -> D]
    BY <1>8, <1>9
  <2> QED
    BY <1>8, <1>9, <2>1
<1>11. m[1] = h /\ next[m[K]] = NULL
  <2>1. 1 \in 1..K /\ K \in 1..K /\ 1 - 1 = 0 /\ K - 1 \in 0..K - 1 /\ (K - 1) + 1 = K
    BY <1>2
  <2> QED
    BY <1>2, <1>8, <2>1
<1>12. \A n \in 1..K - 1 : next[m[n]] = m[n + 1]
  <2> TAKE n \in 1..K - 1
  <2>1. n \in 1..K /\ n + 1 \in 1..K /\ (n + 1) - 1 = n /\ n - 1 \in 0..K - 1 /\ (n - 1) + 1 = n
    BY <1>2
  <2> QED
    BY <1>2, <1>8, <2>1
<1>13. Lists(m, h, next, D)
  BY <1>2, <1>10, <1>11, <1>12 DEF Lists
<1>14. Items(h, next) = {m[n] : n \in 1..K}
  <2>1. \A n \in 1..K : m[n] \in Items(h, next)
    BY <1>4, <1>9
  <2>2. \A x \in Items(h, next) : \E n \in 1..K : m[n] = x
    <3> TAKE x \in Items(h, next)
    <3>1. PICK n \in 0..K - 1 : w[n] = x
      BY <1>2
    <3> QED
      BY <1>9, <3>1
  <2> QED
    BY <2>1, <2>2
<1>15. \A i, j \in 1..K : m[i] = m[j] => i = j
  <2> TAKE i, j \in 1..K
  <2> HAVE m[i] = m[j]
  <2>1. i - 1 \in 0..K - 1 /\ j - 1 \in 0..K - 1 /\ w[i - 1] = w[j - 1]
    BY <1>9
  <2>2. i - 1 = j - 1
    BY <1>1, <2>1
  <2> QED
    BY <1>2, <2>2
<1> QED
  BY <1>2, <1>10, <1>13, <1>14, <1>15 DEF m

\* There is only one list from h on.
LEMMA OneList ==
  ASSUME NEW D, NEW next, NEW h \in D, Links(next, D), NEW s, Lists(s, h, next, D)
  PROVE  /\ Met(h, next) = s
         /\ \E x \in Items(h, next) : next[x] = NULL
<1> DEFINE L == Len(s)
<1>1. /\ s \in Seq(D) /\ L # 0 /\ L \in Nat /\ s[1] = h /\ next[s[L]] = NULL /\ NULL \notin D
      /\ \A n \in 1..L - 1 : next[s[n]] = s[n + 1]
      /\ \A n \in 1..L : s[n] \in D
      /\ s = [n \in 1..L |-> s[n]]
  <2>1. s \in Seq(D)
    BY DEF Lists
  <2> QED
    BY <2>1, SeqIsFunction DEF Lists, Links
<1> HIDE DEF L
<1>2. \A n \in 1..L : s[n] \in Items(h, next)
  <2> DEFINE B == {n \in 1..L : s[n] \notin Items(h, next)}
  <2> SUFFICES ASSUME B # {} PROVE FALSE
    OBVIOUS
  <2>1. B \in SUBSET Nat
    BY <1>1
  <2>2. PICK k \in B : \A m \in B : k <= m
    <3> HIDE DEF B
    <3> QED
      BY <2>1, LeastNumber
  <2>3. k # 1
    BY <1>1, <2>2, ListBasics
  <2>4. k - 1 \in 1..L - 1 /\ k - 1 \in 1..L /\ (k - 1) + 1 = k /\ ~(k <= k - 1) /\ k \in 1..L
    BY <1>1, <2>2, <2>3
  <2>5. s[k - 1] \in Items(h, next) /\ next[s[k - 1]] = s[k] /\ s[k] \in D
    BY <1>1, <2>2, <2>4
  <2> QED
    BY <1>1, <2>2, <2>5, ListBasics
<1>3. \E x \in Items(h, next) : next[x] = NULL
  <2>1. L \in 1..L
    BY <1>1
  <2> QED
    BY <1>1, <1>2, <2>1
<1> DEFINE m == Met(h, next)
           K == Len(m)
<1>4. Lists(m, h, next, D)
  BY <1>3, MetLists
<1>5. /\ m \in Seq(D) /\ K # 0 /\ K \in Nat /\ m[1] = h /\ next[m[K]] = NULL
      /\ \A n \in 1..K - 1 : next[m[n]] = m[n + 1]
      /\ \A n \in 1..K : m[n] \in D
      /\ m = [n \in 1..K |-> m[n]]
  <2>1. m \in Seq(D)
    BY <1>4 DEF Lists
  <2> QED
    BY <1>4, <2>1, SeqIsFunction DEF Lists
<1> HIDE DEF m, K
<1>6. \A n \in 1..K : n \in 1..L => m[n] = s[n]
  <2> DEFINE B == {n \in 1..K : n \in 1..L /\ m[n] # s[n]}
  <2> SUFFICES ASSUME B # {} PROVE FALSE
    OBVIOUS
  <2>1. B \in SUBSET Nat
    BY <1>5
  <2>2. PICK k \in B : \A j \in B : k <= j
    <3> HIDE DEF B
    <3> QED
      BY <2>1, LeastNumber
  <2>3. k # 1
    BY <1>1, <1>5, <2>2
  <2>4. /\ k - 1 \in 1..L - 1 /\ k - 1 \in 1..L /\ (k - 1) + 1 = k /\ ~(k <= k - 1)
        /\ k - 1 \in 1..K - 1 /\ k - 1 \in 1..K
    BY <1>1, <1>5, <2>2, <2>3
  <2>5. m[k - 1] = s[k - 1]
    BY <2>2, <2>4
  <2> QED
    BY <1>1, <1>5, <2>2, <2>4, <2>5
<1>7. K = L
  <2>1. CASE K < L
    <3>1. K \in 1..K /\ K \in 1..L /\ K \in 1..L - 1 /\ K + 1 \in 1..L
      BY <1>1, <1>5, <2>1
    <3> QED
      BY <1>1, <1>5, <1>6, <3>1
  <2>2. CASE L < K
    <3>1. L \in 1..K /\ L \in 1..L /\ L \in 1..K - 1 /\ L + 1 \in 1..K
      BY <1>1, <1>5, <2>2
    <3>2. m[L] = s[L] /\ next[m[L]] = m[L + 1] /\ m[L + 1] \in D
      BY <1>5, <1>6, <3>1
    <3> QED
      BY <1>1, <3>2
  <2> QED
    BY <1>1, <1>5, <2>1, <2>2
<1>8. m = s
  BY <1>1, <1>5, <1>6, <1>7
<1> QED
  BY <1>3, <1>8 DEF m

\* A list is what its own next fields make it.
LEMMA ListsSame ==
  ASSUME NEW D, NEW next, NEW new, NEW h, NEW s, Lists(s, h, next, D),
         \A n \in 1..Len(s) : new[s[n]] = next[s[n]]
  PROVE  Lists(s, h, new, D)
<1> DEFINE L == Len(s)
<1>1. s \in Seq(D) /\ L # 0 /\ L \in Nat
  BY DEF Lists
<1>2. L \in 1..L /\ 1..L - 1 \subseteq 1..L
  <2> HIDE DEF L
  <2> QED
    BY <1>1
<1> QED
  BY <1>1, <1>2 DEF Lists

\* Hanging a list, or none, behind another.
LEMMA ListsHung ==
  ASSUME NEW D, NEW next, NEW new, NEW h, NEW a, Lists(a, h, next, D), NEW b \in Seq(D),
         \A n \in 1..Len(a) - 1 : new[a[n]] = next[a[n]],
         IF b = <<>> THEN new[a[Len(a)]] = NULL
                     ELSE Lists(b, new[a[Len(a)]], new, D)
  PROVE  Lists(a \o b, h, new, D)
<1> DEFINE s == a \o b
           A == Len(a)
           B == Len(b)
<1>1. /\ a \in Seq(D) /\ A # 0 /\ a[1] = h /\ \A n \in 1..A - 1 : new[a[n]] = a[n + 1]
      /\ A \in Nat /\ B \in Nat
  BY DEF Lists
<1>2. /\ s \in Seq(D) /\ Len(s) = A + B
      /\ \A n \in 1..A : s[n] = a[n]
      /\ \A n \in 1..B : s[A + n] = b[n]
  BY <1>1, BothSeqs
<1>3. CASE b = <<>>
  <2>1. B = 0 /\ Len(s) = A /\ new[a[A]] = NULL
    BY <1>1, <1>2, <1>3
  <2> HIDE DEF s, A, B
  <2>2. 1 \in 1..A /\ A \in 1..A /\ \A n \in 1..A - 1 : n \in 1..A /\ n + 1 \in 1..A
    BY <1>1
  <2>3. s[1] = h /\ new[s[Len(s)]] = NULL /\ \A n \in 1..Len(s) - 1 : new[s[n]] = s[n + 1]
    BY <1>1, <1>2, <2>1, <2>2
  <2> QED
    BY <1>1, <1>2, <2>1, <2>3 DEF Lists, s, A
<1>4. CASE b # <<>>
  <2>1. /\ B # 0 /\ b[1] = new[a[A]] /\ new[b[B]] = NULL
        /\ \A n \in 1..B - 1 : new[b[n]] = b[n + 1]
    BY <1>4 DEF Lists
  <2> HIDE DEF s, A, B
  <2>2. s[1] = h
    <3>1. 1 \in 1..A
      BY <1>1
    <3> QED
      BY <1>1, <1>2, <3>1
  <2>3. new[s[Len(s)]] = NULL
    <3>1. B \in 1..B
      BY <1>1, <2>1
    <3> QED
      BY <1>2, <2>1, <3>1
  <2>4. ASSUME NEW n \in 1..(A + B) - 1 PROVE new[s[n]] = s[n + 1]
    <3>1. CASE n < A
      <4>1. n \in 1..A - 1 /\ n \in 1..A /\ n + 1 \in 1..A
        BY <1>1, <3>1
      <4> QED
        BY <1>1, <1>2, <4>1
    <3>2. CASE n = A
      <4>1. A \in 1..A /\ 1 \in 1..B
        BY <1>1, <2>1
      <4> QED
        BY <1>1, <1>2, <2>1, <3>2, <4>1
    <3>3. CASE n > A
      <4> DEFINE k == n - A
      <4>1. k \in 1..B - 1 /\ k \in 1..B /\ k + 1 \in 1..B /\ A + k = n /\ A + (k + 1) = n + 1
        BY <1>1, <3>3
      <4> HIDE DEF k
      <4>2. s[n] = b[k] /\ s[n + 1] = b[k + 1]
        BY <1>2, <4>1
      <4> QED
        BY <2>1, <4>1, <4>2
    <3> QED
      BY <1>1, <3>1, <3>2, <3>3
  <2>5. A + B # 0
    BY <1>1
  <2> QED
    BY <1>2, <2>2, <2>3, <2>4, <2>5 DEF Lists, s
<1> QED
  BY <1>3, <1>4

\* What is left of a sequence from some place on.
LEMMA RestOf ==
  ASSUME NEW D, NEW s \in Seq(D), NEW t \in 0..Len(s)
  PROVE  LET b == SubSeq(s, t + 1, Len(s)) IN
         /\ b \in Seq(D) /\ Len(b) = Len(s) - t
         /\ \A n \in 1..Len(s) - t : b[n] = s[t + n] /\ t + n \in 1..Len(s)
         /\ b = <<>> <=> t = Len(s)
<1> DEFINE b == SubSeq(s, t + 1, Len(s))
           L == Len(s)
<1>1. L \in Nat /\ t \in Nat /\ t <= L /\ t + 1 \in Int /\ L \in Int
      /\ \A n \in t + 1..L : s[n] \in D
  <2>1. L \in Nat /\ t \in 0..L /\ \A n \in 1..L : s[n] \in D
    OBVIOUS
  <2> HIDE DEF L
  <2> QED
    BY <2>1
<1>2. /\ b \in Seq(D)
      /\ Len(b) = IF t + 1 <= L THEN L - (t + 1) + 1 ELSE 0
      /\ \A n \in 1..L - (t + 1) + 1 : b[n] = s[(t + 1) + n - 1]
  <2> HIDE DEF L
  <2>1. LET q == SubSeq(s, t + 1, L) IN
        /\ q \in Seq(D)
        /\ Len(q) = IF t + 1 <= L THEN L - (t + 1) + 1 ELSE 0
        /\ \A n \in 1..L - (t + 1) + 1 : q[n] = s[(t + 1) + n - 1]
    BY <1>1, SubSeqProperties
  <2> QED
    BY <2>1 DEF L
<1> HIDE DEF b, L
<1>3. Len(b) = L - t /\ L - (t + 1) + 1 = L - t
  BY <1>1, <1>2
<1>4. \A n \in 1..L - t : b[n] = s[t + n] /\ t + n \in 1..L
  <2> TAKE n \in 1..L - t
  <2>1. (t + 1) + n - 1 = t + n /\ t + n \in 1..L
    BY <1>1
  <2> QED
    BY <1>2, <1>3, <2>1
<1>5. b = <<>> <=> t = L
  <2>1. b = <<>> <=> Len(b) = 0
    BY <1>2
  <2> QED
    BY <1>1, <1>3, <2>1
<1> QED
  BY <1>2, <1>3, <1>4, <1>5 DEF b, L

\* The end of a list is a list.
LEMMA ListsRest ==
  ASSUME NEW D, NEW next, NEW h, NEW s, Lists(s, h, next, D), NEW t \in 0..Len(s) - 1
  PROVE  Lists(SubSeq(s, t + 1, Len(s)), s[t + 1], next, D)
<1> DEFINE b == SubSeq(s, t + 1, Len(s))
           L == Len(s)
<1>1. /\ s \in Seq(D) /\ L # 0 /\ L \in Nat /\ next[s[L]] = NULL
      /\ \A n \in 1..L - 1 : next[s[n]] = s[n + 1]
  BY DEF Lists
<1>2. t \in 0..L
  BY <1>1
<1>3. /\ b \in Seq(D) /\ Len(b) = L - t /\ \A n \in 1..L - t : b[n] = s[t + n]
  BY <1>1, <1>2, RestOf
<1> HIDE DEF b, L
<1>4. /\ 1 \in 1..L - t /\ L - t \in 1..L - t /\ t + (L - t) = L
      /\ \A n \in 1..(L - t) - 1 : /\ n \in 1..L - t /\ n + 1 \in 1..L - t
                                   /\ t + (n + 1) = (t + n) + 1 /\ t + n \in 1..L - 1
  BY <1>1 DEF L
<1>5. b[1] = s[t + 1] /\ next[b[L - t]] = NULL /\ \A n \in 1..(L - t) - 1 : next[b[n]] = b[n + 1]
  BY <1>1, <1>3, <1>4
<1>6. L - t # 0
  BY <1>4
<1> QED
  BY <1>3, <1>5, <1>6 DEF Lists, b, L

-----------------------------------------------------------------------------
(* The entries of an image in order.                                        *)

Rank(K, k) == Cardinality({j \in K : j < k})

\* The rank of an entry says where it comes among the others.
LEMMA RankStep ==
  ASSUME NEW K \in SUBSET Nat, IsFiniteSet(K), NEW k \in K
  PROVE  /\ Rank(K, k) \in Nat /\ Cardinality(K) \in Nat /\ Rank(K, k) + 1 <= Cardinality(K)
         /\ Rank(K, Least(K)) = 0
         /\ LET later == {j \in K : j > k} IN
            IF later = {} THEN Cardinality(K) = Rank(K, k) + 1
                          ELSE Least(later) \in K /\ Rank(K, Least(later)) = Rank(K, k) + 1
<1> DEFINE S == {j \in K : j < k}
           later == {j \in K : j > k}
<1>1. IsFiniteSet(S) /\ k \notin S /\ Cardinality(S) \in Nat /\ Cardinality(K) \in Nat
  <2>1. S \subseteq K /\ k \notin S
    OBVIOUS
  <2> HIDE DEF S
  <2> QED
    BY <2>1, FS_Subset, FS_CardinalityType
<1>2. IsFiniteSet(S \cup {k}) /\ Cardinality(S \cup {k}) = Cardinality(S) + 1
  <2> HIDE DEF S
  <2> QED
    BY <1>1, FS_AddElement
<1>3. Cardinality(S) + 1 <= Cardinality(K)
  <2>1. S \cup {k} \subseteq K
    OBVIOUS
  <2> HIDE DEF S
  <2> QED
    BY <1>2, <2>1, FS_Subset
<1>4. Rank(K, Least(K)) = 0
  <2>1. Least(K) \in K /\ \A j \in K : Least(K) <= j
    BY LeastIsLeast
  <2>2. \A j \in K : j \in Nat /\ Least(K) \in Nat
    BY <2>1
  <2>3. \A j \in K : ~(j < Least(K))
    BY <2>1, <2>2
  <2>4. {j \in K : j < Least(K)} = {}
    BY <2>3
  <2> QED
    BY <2>4, FS_EmptySet DEF Rank
<1>5. CASE later = {}
  <2>1. S \cup {k} = K
    <3>1. \A j \in K : j \in Nat /\ k \in Nat /\ ~(j > k)
      BY <1>5
    <3>2. \A j \in K : j < k \/ j = k
      BY <3>1
    <3> QED
      BY <3>2
  <2> QED
    BY <1>1, <1>2, <1>3, <1>4, <1>5, <2>1 DEF Rank
<1>6. CASE later # {}
  <2>1. Least(later) \in later /\ \A j \in later : Least(later) <= j
    <3>1. later \in SUBSET Nat
      OBVIOUS
    <3> HIDE DEF later
    <3> QED
      BY <1>6, <3>1, LeastIsLeast
  <2> DEFINE q == Least(later)
  <2>2. q \in K /\ q > k /\ \A j \in K : j > k => q <= j
    BY <2>1
  <2> HIDE DEF q
  <2>3. {j \in K : j < q} = S \cup {k}
    <3>1. \A j \in K : j \in Nat /\ k \in Nat /\ q \in Nat
      BY <2>2
    <3>2. \A j \in K : j < q <=> j < k \/ j = k
      BY <2>2, <3>1
    <3> QED
      BY <3>2
  <2>4. q \in K /\ Rank(K, q) = Rank(K, k) + 1
    BY <1>2, <2>2, <2>3 DEF Rank
  <2> QED
    BY <1>1, <1>3, <1>4, <1>6, <2>4 DEF Rank, q
<1> QED
  BY <1>5, <1>6

LEMMA RankOnce ==
  ASSUME NEW K \in SUBSET Nat, IsFiniteSet(K), NEW k \in K, NEW m \in K, Rank(K, k) = Rank(K, m)
  PROVE  k = m
<1>1. ASSUME NEW x \in K, NEW y \in K, x < y PROVE Rank(K, x) # Rank(K, y)
  <2> DEFINE S == {j \in K : j < x}
             T == {j \in K : j < y}
  <2>1. S \cup {x} \subseteq T /\ x \notin S /\ S \subseteq K /\ T \subseteq K
    <3>1. \A j \in K : j \in Nat /\ x \in Nat /\ y \in Nat
      OBVIOUS
    <3>2. ~(x < x) /\ \A j \in K : j < x => j < y
      BY <1>1, <3>1
    <3> QED
      BY <1>1, <3>1, <3>2
  <2>2. IsFiniteSet(S) /\ IsFiniteSet(T) /\ Cardinality(S) \in Nat /\ Cardinality(T) \in Nat
    <3> HIDE DEF S, T
    <3> QED
      BY <2>1, FS_Subset, FS_CardinalityType
  <2>3. Cardinality(S) + 1 <= Cardinality(T)
    <3> HIDE DEF S, T
    <3>1. Cardinality(S \cup {x}) = Cardinality(S) + 1
      BY <2>1, <2>2, FS_AddElement
    <3>2. Cardinality(S \cup {x}) <= Cardinality(T)
      BY <2>1, <2>2, FS_Subset
    <3> QED
      BY <3>1, <3>2
  <2>4. Rank(K, x) = Cardinality(S) /\ Rank(K, y) = Cardinality(T)
    BY DEF Rank
  <2> HIDE DEF S, T
  <2> QED
    BY <2>2, <2>3, <2>4
<1>2. ~(k < m) /\ ~(m < k)
  BY <1>1
<1> QED
  BY <1>2

\* NthKept goes through the entries that are kept, in order.
LEMMA KeptInOrder ==
  ASSUME NEW i \in Image
  PROVE  /\ Kept(i) \in SUBSET Nat /\ IsFiniteSet(Kept(i)) /\ Cardinality(Kept(i)) \in Nat
         /\ \A k \in Kept(i) : /\ Rank(Kept(i), k) + 1 \in 1..Cardinality(Kept(i))
                               /\ NthKept(i, Rank(Kept(i), k) + 1) = k
<1> DEFINE K == Kept(i)
<1>1. K \in SUBSET Nat /\ IsFiniteSet(K)
  <2>1. K \in SUBSET (1..MaxFiles) /\ K \in SUBSET Nat /\ MaxFiles \in Nat
    BY KeptType, ImageType
  <2>2. IsFiniteSet(1..MaxFiles)
    <3>1. 1 \in Int /\ MaxFiles \in Int
      BY <2>1
    <3> QED
      BY <3>1, FS_Interval
  <2> HIDE DEF K
  <2> QED
    BY <2>1, <2>2, FS_Subset
<1>2. ASSUME NEW k \in K
      PROVE  Rank(K, k) + 1 \in 1..Cardinality(K) /\ NthKept(i, Rank(K, k) + 1) = k
  <2> DEFINE n == Rank(K, k) + 1
  <2>1. Rank(K, k) \in Nat /\ Cardinality(K) \in Nat /\ n <= Cardinality(K)
    BY <1>1, RankStep
  <2>2. n \in 1..Cardinality(K) /\ n - 1 = Rank(K, k)
    BY <2>1
  <2>3. NthKept(i, n) = CHOOSE j \in K : Rank(K, j) = n - 1
    BY DEF NthKept, Rank
  <2> HIDE DEF K, n
  <2>4. \A j \in K : Rank(K, j) = n - 1 => j = k
    BY <1>1, <2>2, RankOnce
  <2>5. NthKept(i, n) = k
    BY <2>2, <2>3, <2>4
  <2> QED
    BY <2>2, <2>5 DEF n
<1>3. Cardinality(K) \in Nat
  BY <1>1, FS_CardinalityType
<1> QED
  BY <1>1, <1>2, <1>3

\* A list built by cabd_read_headers is the entries of the image in order.
LEMMA ReadSequence ==
  ASSUME NEW next, Links(next, File), NEW c \in Cab, NEW i \in Image, Kept(i) # {},
         ReadInOrder(next, c, Kept(i))
  PROVE  Lists([n \in 1..Cardinality(Kept(i)) |-> <<c, NthKept(i, n)>>], <<c, Least(Kept(i))>>, next, File)
<1> DEFINE K == Kept(i)
           h == <<c, Least(K)>>
           m == Met(h, next)
           L == Len(m)
<1>1. K \in SUBSET (1..MaxFiles) /\ MaxFiles \in Nat
  BY KeptType, ImageType
<1>2. Items(h, next) = Entries(c, K) /\ \E x \in Entries(c, K) : next[x] = NULL
  BY <1>1, ReadFiles
<1>3. /\ K \in SUBSET Nat /\ IsFiniteSet(K) /\ Cardinality(K) \in Nat
      /\ \A k \in K : Rank(K, k) + 1 \in 1..Cardinality(K) /\ NthKept(i, Rank(K, k) + 1) = k
  BY KeptInOrder
<1>4. Least(K) \in K /\ h \in File
  BY <1>1, <1>3, LeastIsLeast DEF File
<1>5. /\ Lists(m, h, next, File)
      /\ Items(h, next) = {m[n] : n \in 1..L}
  <2>1. \E x \in Items(h, next) : next[x] = NULL
    BY <1>2
  <2> HIDE DEF h
  <2> QED
    BY <1>4, <2>1, MetLists
<1>6. /\ m \in Seq(File) /\ L # 0 /\ L \in Nat /\ m[1] = h /\ next[m[L]] = NULL
      /\ \A n \in 1..L - 1 : next[m[n]] = m[n + 1]
      /\ m = [n \in 1..L |-> m[n]]
  <2>1. m \in Seq(File)
    BY <1>5 DEF Lists
  <2>2. m = [n \in 1..L |-> m[n]] /\ L \in Nat
    <3> HIDE DEF m
    <3> QED
      BY <2>1, SeqIsFunction
  <2> QED
    BY <1>5, <2>1, <2>2 DEF Lists
<1>7. \A n \in 1..L : m[n] \in Entries(c, K)
  BY <1>2, <1>5
<1> HIDE DEF m, L
<1>8. ASSUME NEW k \in K
      PROVE  LET later == {j \in K : j > k} IN
             IF later = {} THEN next[<<c, k>>] = NULL /\ Cardinality(K) = Rank(K, k) + 1
             ELSE /\ next[<<c, k>>] = <<c, Least(later)>> /\ Least(later) \in K
                  /\ Rank(K, Least(later)) = Rank(K, k) + 1
  <2>1. next[<<c, k>>] = LET later == {j \in K : j > k}
                         IN  IF later = {} THEN NULL ELSE <<c, Least(later)>>
    BY DEF ReadInOrder
  <2> HIDE DEF K
  <2> QED
    BY <1>3, <2>1, RankStep
<1> DEFINE Right(n) == \E k \in K : m[n] = <<c, k>> /\ Rank(K, k) = n - 1
<1>9. NULL \notin File
  BY FiniteHeap
<1>10. \A n \in 1..L : Right(n)
  <2> DEFINE B == {n \in 1..L : ~Right(n)}
  <2> SUFFICES ASSUME B # {} PROVE FALSE
    OBVIOUS
  <2>1. B \in SUBSET Nat
    BY <1>6
  <2>2. PICK b \in B : \A j \in B : b <= j
    <3> HIDE DEF B
    <3> QED
      BY <2>1, LeastNumber
  <2>3. Right(1)
    <3>1. Rank(K, Least(K)) = 0 /\ Least(K) \in K
      <4> HIDE DEF K
      <4> QED
        BY <1>3, <1>4, RankStep
    <3> QED
      BY <1>6, <3>1
  <2> HIDE DEF Right
  <2>4. b # 1
    BY <2>2, <2>3
  <2>5. b - 1 \in 1..L - 1 /\ b - 1 \in 1..L /\ (b - 1) + 1 = b /\ ~(b <= b - 1) /\ b \in 1..L
    BY <1>6, <2>2, <2>4
  <2>6. Right(b - 1)
    BY <2>2, <2>5
  <2>7. PICK k \in K : m[b - 1] = <<c, k>> /\ Rank(K, k) = (b - 1) - 1
    BY <2>6 DEF Right
  <2>8. next[<<c, k>>] = m[b] /\ m[b] # NULL
    <3>1. m[b] \in File
      BY <1>6, <2>5
    <3> QED
      BY <1>6, <1>9, <2>5, <2>7, <3>1
  <2> DEFINE q == Least({j \in K : j > k})
  <2>9. m[b] = <<c, q>> /\ q \in K /\ Rank(K, q) = Rank(K, k) + 1
    BY <1>8, <2>8
  <2>10. Rank(K, q) = b - 1
    BY <1>6, <2>5, <2>7, <2>9
  <2>11. Right(b)
    BY <2>9, <2>10 DEF Right
  <2> QED
    BY <2>2, <2>11
<1>11. L = Cardinality(K)
  <2>1. L \in 1..L
    BY <1>6
  <2>2. PICK k \in K : m[L] = <<c, k>> /\ Rank(K, k) = L - 1
    BY <1>10, <2>1
  <2>3. {j \in K : j > k} = {}
    <3>1. ASSUME {j \in K : j > k} # {} PROVE FALSE
      <4>1. Least({j \in K : j > k}) \in 1..MaxFiles /\ next[m[L]] = <<c, Least({j \in K : j > k})>>
        BY <1>1, <1>8, <2>2, <3>1
      <4>2. <<c, Least({j \in K : j > k})>> \in File
        BY <4>1 DEF File
      <4> QED
        BY <1>6, <1>9, <4>1, <4>2
    <3> QED
      BY <3>1
  <2>4. Cardinality(K) = Rank(K, k) + 1
    BY <1>8, <2>3
  <2> QED
    BY <1>6, <2>2, <2>4
<1>12. \A n \in 1..L : m[n] = <<c, NthKept(i, n)>>
  <2> TAKE n \in 1..L
  <2>1. PICK k \in K : m[n] = <<c, k>> /\ Rank(K, k) = n - 1
    BY <1>10
  <2>2. Rank(K, k) + 1 = n
    BY <1>6, <2>1
  <2> QED
    BY <1>3, <2>1, <2>2
<1>13. m = [n \in 1..Cardinality(K) |-> <<c, NthKept(i, n)>>]
  BY <1>6, <1>11, <1>12
<1> QED
  BY <1>5, <1>13

-----------------------------------------------------------------------------
(* What the lists say of the images that they were read from.               *)

\* An allocated file is the one that was read at its place.
FilesOwned ==
  \A f \in File : file[f].live =>
    LET i == cab[f[1]].img IN
    /\ Open(f[1]) /\ f[2] \in Kept(i)
    /\ file[f].key = ImageFiles[i][f[2]].key
    /\ file[f].folder = <<f[1], EntryFolder(i, f[2])>>

Ends == {FROM_PREV, PREV_AND_NEXT}
Begins == {TO_NEXT, PREV_AND_NEXT}

\* The merge pointers at the joints of a set say what its parts' headers say.
JointsSaid ==
  \A g \in Folder : folder[g].live =>
    /\ g[2] = 1 => folder[g].merge_prev = FirstWith(g[1], cab[g[1]].img, Ends)
    /\ folder[g].next = NULL =>
         LET l == folder[g].data[Len(folder[g].data)]
         IN  folder[g].merge_next = NULL <=> FirstWith(l, cab[l].img, Begins) = NULL

\* The file list of a set begins with the files of its first part, in their order.
OwnFirst ==
  \A c \in Cab : IsFirst(c) =>
    LET met == Met(cab[c].files, FilNext)
        i == cab[c].img
    IN  /\ Cardinality(Kept(i)) <= Len(met)
        /\ \A n \in 1..Cardinality(Kept(i)) : met[n] = <<c, NthKept(i, n)>>

CabsReadable == \A c \in Cab : Open(c) => Readable(cab[c].img)

Said == FilesOwned /\ JointsSaid /\ OwnFirst /\ CabsReadable

\* What a step starts from.
Seen == Ordered /\ MergePointersValid /\ Said

LEMMA FileListMet ==
  ASSUME Graph, NEW c \in Cab, Open(c)
  PROVE  LET met == Met(cab[c].files, FilNext) IN
         /\ Links(FilNext, File) /\ cab[c].files \in File
         /\ Lists(met, cab[c].files, FilNext, File)
         /\ FilesOf(c) = {met[n] : n \in 1..Len(met)}
         /\ \A i, j \in 1..Len(met) : met[i] = met[j] => i = j
         /\ met \in Seq(File) /\ Len(met) \in Nat /\ DOMAIN met = 1..Len(met)
         /\ met[Len(met)] = LastOf(cab[c].files, FilNext)
         /\ KeySeq(c) = [n \in 1..Len(met) |-> file[met[n]].key]
<1> DEFINE met == Met(cab[c].files, FilNext)
<1>1. TypeInv /\ ListsEnd /\ NULL \notin File
  BY FiniteHeap DEF Graph
<1>2. Links(FilNext, File)
  BY <1>1, HeapLinks
<1>3. cab[c].files \in File
  BY LastsFound
<1>4. \E x \in FilesOf(c) : file[x].next = NULL
  BY <1>1 DEF ListsEnd
<1>5. FilesOf(c) \subseteq File /\ FilesOf(c) = Items(cab[c].files, FilNext)
  BY ListFacts DEF FilesOf
<1>6. \E x \in Items(cab[c].files, FilNext) : FilNext[x] = NULL
  BY <1>4, <1>5 DEF FilNext
<1>7. /\ Lists(met, cab[c].files, FilNext, File)
      /\ FilesOf(c) = {met[n] : n \in 1..Len(met)}
      /\ \A i, j \in 1..Len(met) : met[i] = met[j] => i = j
  BY <1>2, <1>3, <1>5, <1>6, MetLists
<1>8. met \in Seq(File) /\ Len(met) \in Nat /\ DOMAIN met = 1..Len(met)
  <2>1. met \in Seq(File)
    BY <1>7 DEF Lists
  <2> HIDE DEF met
  <2> QED
    BY <2>1
<1>9. KeySeq(c) = [n \in 1..Len(met) |-> file[met[n]].key]
  BY <1>8 DEF KeySeq
<1>10. met[Len(met)] = LastOf(cab[c].files, FilNext)
  <2> HIDE DEF met
  <2>1. Len(met) \in 1..Len(met) /\ FilNext[met[Len(met)]] = NULL
    BY <1>7, <1>8 DEF Lists
  <2>2. met[Len(met)] \in FilesOf(c)
    BY <1>7, <2>1
  <2>3. file[met[Len(met)]].next = NULL
    BY <1>5, <2>1, <2>2 DEF FilNext
  <2> QED
    BY <2>2, <2>3, LastsFound
<1> QED
  BY <1>2, <1>3, <1>7, <1>8, <1>9, <1>10

\* The sets as sequences.
LEMMA SetMet ==
  ASSUME Graph, NEW c \in Cab, IsFirst(c)
  PROVE  LET s == SetFrom(c) IN
         /\ Links(NextOf, Cab)
         /\ Lists(s, c, NextOf, Cab)
         /\ SetOf(c) = {s[n] : n \in 1..Len(s)}
         /\ SetOf(c) = Items(c, NextOf)
         /\ s \in Seq(Cab) /\ Len(s) \in Nat \ {0} /\ s[1] = c
<1>1. TypeInv /\ SetsLinked /\ NULL \notin Cab
  BY FiniteHeap DEF Graph
<1>2. BothWays(NextOf, PrevOf, Cab) /\ Links(NextOf, Cab) /\ Links(PrevOf, Cab)
  BY <1>1, SetWays, HeapLinks
<1>3. PrevOf[c] = NULL
  BY DEF IsFirst, PrevOf
<1>4. SetOf(c) = Items(c, NextOf)
  <2>1. Items(c, PrevOf) = {c} \cup Items(NULL, PrevOf)
    BY <1>2, <1>3, ListUnfolds
  <2>2. Items(NULL, PrevOf) = {}
    BY <1>2, ListBasics
  <2>3. c \in Items(c, NextOf)
    BY <1>1, <1>2, ListBasics
  <2> QED
    BY <2>1, <2>2, <2>3 DEF SetOf
<1>5. \E x \in Items(c, NextOf) : NextOf[x] = NULL
  <2>1. PICK K : WalkInOrder(Cab, NextOf, c, K)
    BY <1>2, <1>3, SetInOrder
  <2> DEFINE w == Walk(c, NextOf)
  <2>2. /\ K \in 1..Cardinality(Cab) /\ Cardinality(Cab) \in Nat /\ w[K] = NULL
        /\ \A n \in 0..K - 1 : w[n] \in Cab /\ NextOf[w[n]] = w[n + 1]
    BY <2>1 DEF WalkInOrder
  <2>3. DOMAIN w = 0..Cardinality(Cab) /\ DOMAIN NextOf = Cab
    BY <1>2, WalkSteps DEF Links
  <2> HIDE DEF w
  <2>4. K - 1 \in 0..K - 1 /\ K - 1 \in 0..Cardinality(Cab) /\ (K - 1) + 1 = K
    BY <2>2
  <2>5. w[K - 1] \in Items(c, NextOf)
    BY <2>2, <2>3, <2>4 DEF Items, w
  <2> QED
    BY <2>2, <2>4, <2>5
<1>6. /\ Lists(SetFrom(c), c, NextOf, Cab)
      /\ Items(c, NextOf) = {SetFrom(c)[n] : n \in 1..Len(SetFrom(c))}
  BY <1>2, <1>5, MetLists DEF SetFrom
<1>7. SetFrom(c) \in Seq(Cab) /\ Len(SetFrom(c)) \in Nat \ {0} /\ SetFrom(c)[1] = c
  <2>1. SetFrom(c) \in Seq(Cab) /\ Len(SetFrom(c)) # 0 /\ SetFrom(c)[1] = c
    BY <1>6 DEF Lists
  <2> QED
    BY <2>1
<1> QED
  BY <1>2, <1>4, <1>6, <1>7

\* A set whose files nobody touches lists the same ones.
LEMMA SameFiles ==
  ASSUME Graph, TypeInv', NEW c \in Cab, Open(c), cab'[c].files = cab[c].files,
         \A f \in FilesOf(c) : file'[f] = file[f]
  PROVE  /\ Met(cab[c].files, FilNext)' = Met(cab[c].files, FilNext)
         /\ KeySeq(c)' = KeySeq(c)
<1> DEFINE met == Met(cab[c].files, FilNext)
<1>1. /\ cab[c].files \in File
      /\ Lists(met, cab[c].files, FilNext, File)
      /\ FilesOf(c) = {met[n] : n \in 1..Len(met)}
      /\ met \in Seq(File) /\ Len(met) \in Nat /\ DOMAIN met = 1..Len(met)
      /\ KeySeq(c) = [n \in 1..Len(met) |-> file[met[n]].key]
  BY FileListMet
<1> HIDE DEF met
<1>2. \A n \in 1..Len(met) : met[n] \in File /\ file'[met[n]] = file[met[n]]
  BY <1>1
<1>3. \A n \in 1..Len(met) : FilNext'[met[n]] = FilNext[met[n]]
  BY <1>2 DEF FilNext
<1>4. Lists(met, cab[c].files, FilNext', File)
  BY <1>1, <1>3, ListsSame
<1>5. Links(FilNext', File)
  BY HeapLinksAfter
<1>6. Met(cab[c].files, FilNext') = met
  BY <1>1, <1>4, <1>5, OneList
<1>7. Met(cab'[c].files, FilNext') = met
  BY <1>6
<1>8. KeySeq(c)' = [n \in 1..Len(met) |-> file'[met[n]].key]
  BY <1>1, <1>7 DEF KeySeq
<1> QED
  BY <1>1, <1>2, <1>7, <1>8 DEF met

LEMMA SameSet ==
  ASSUME Graph, TypeInv', NEW c \in Cab, IsFirst(c),
         \A x \in SetOf(c) : cab'[x].nextcab = cab[x].nextcab
  PROVE  SetFrom(c)' = SetFrom(c)
<1> DEFINE s == SetFrom(c)
<1>1. /\ Lists(s, c, NextOf, Cab) /\ s \in Seq(Cab) /\ Len(s) \in Nat
      /\ SetOf(c) = {s[n] : n \in 1..Len(s)}
  BY SetMet
<1> HIDE DEF s
<1>2. \A n \in 1..Len(s) : s[n] \in Cab /\ cab'[s[n]].nextcab = cab[s[n]].nextcab
  BY <1>1
<1>3. \A n \in 1..Len(s) : NextOf'[s[n]] = NextOf[s[n]]
  BY <1>2 DEF NextOf
<1>4. Lists(s, c, NextOf', Cab)
  BY <1>1, <1>3, ListsSame
<1>5. Links(NextOf', Cab)
  BY HeapLinksAfter
<1>6. Met(c, NextOf') = s
  BY <1>4, <1>5, OneList
<1> QED
  BY <1>6 DEF SetFrom, s

\* Where a file is listed, there is the cabinet that it was read with.
LEMMA FilesOfParts ==
  ASSUME Graph, PartsChained, FilesOwned, NEW c \in Cab, Open(c), NEW f \in FilesOf(c)
  PROVE  f \in File /\ f[1] \in SetOf(c) /\ f[1] \in Cab
<1>1. f \in File /\ file[f].live
  BY ListFacts
<1>2. file[f].folder \in FoldersOf(c)
  BY DEF Graph, FilesPointIntoSet
<1> DEFINE g == file[f].folder
<1>3. g \in Folder /\ folder[g].live
  BY <1>2, ListFacts
<1>4. g[1] = f[1]
  BY <1>1 DEF FilesOwned
<1>5. folder[g].data[1] = g[1]
  BY <1>3 DEF PartsChained, OneChained
<1>6. folder[g].data # <<>> /\ \A n \in DOMAIN folder[g].data : folder[g].data[n] \in SetOf(c)
  BY <1>2 DEF Graph, PartsInSet
<1>7. 1 \in DOMAIN folder[g].data
  <2>1. folder[g].data \in Seq(Cab)
    BY <1>3, LiveParts DEF PartsOf
  <2> HIDE DEF g
  <2> QED
    BY <1>6, <2>1
<1>8. f[1] \in Cab
  BY <1>1 DEF File
<1> QED
  BY <1>1, <1>4, <1>5, <1>6, <1>7, <1>8

\* Opening: the new cabinets' lists are their images', the others stay.
LEMMA SeenLoad ==
  ASSUME Seen, TypeInv', NEW S, NEW img, NEW succ, Loading(S, img, succ)
  PROVE  /\ Said'
         /\ \A c \in Cab : /\ c \notin S => cab'[c] = cab[c]
                           /\ c \in S => cab'[c].img = img[c] /\ ~Open(c) /\ IsFirst(c)'
         /\ \A c \in S : /\ SetFrom(c)' = <<c>>
                         /\ KeySeq(c)' = ImageKeys(img[c])
         /\ \A c \in Cab \ S : /\ Open(c) => KeySeq(c)' = KeySeq(c)
                               /\ IsFirst(c) => SetFrom(c)' = SetFrom(c)
<1>1. /\ S \in SUBSET Cab /\ img \in [S -> Image] /\ succ \in [S -> Cab \cup {NULL}]
      /\ ShortChains(S, succ) /\ \A c \in S : Unallocated(c) /\ Readable(img[c])
      /\ Load(img, succ) /\ DOMAIN img = S
  BY DEF Loading
<1>2. /\ Graph /\ TypeInv /\ PartsChained /\ FilesOwned /\ JointsSaid /\ OwnFirst /\ CabsReadable
      /\ NULL \notin Cab /\ NULL \notin Image /\ NULL \notin File /\ SetsLinked
  BY FiniteHeap DEF Seen, Ordered, Graph, Said
<1>3. /\ Graph'
      /\ \A c \in Cab \ S : cab'[c] = cab[c]
      /\ \A c \in S : cab'[c].img = img[c]
      /\ \A g \in Folder : IF g[1] \in S /\ g[2] \in 1..Len(ImageFolders[img[g[1]]])
                             THEN folder'[g] = NewFolder(g[1], img[g[1]], g[2])
                             ELSE folder'[g] = folder[g]
      /\ \A f \in File : IF f[1] \in S /\ f[2] \in Kept(img[f[1]])
                           THEN file'[f] = NewFile(f[1], img[f[1]], f[2])
                           ELSE file'[f] = file[f]
  BY <1>1, <1>2, LoadGraph
<1>18. \A c \in S : FilesOf(c)' = {<<c, k>> : k \in Kept(img[c])}
  <2>1. \A c \in S : /\ FoldersOf(c)' = {<<c, n>> : n \in 1..Len(ImageFolders[img[c]])}
                    /\ FilesOf(c)' = {<<c, k>> : k \in Kept(img[c])}
    BY <1>1, <1>2, LoadGraph
  <2> QED
    BY <2>1
<1>4. \A c \in S : /\ c \in Cab /\ img[c] \in Image /\ ~Open(c) /\ Kept(img[c]) # {}
                   /\ \A k \in 1..MaxFiles : ~file[<<c, k>>].live
                   /\ \A n \in 1..MaxFolders : ~folder[<<c, n>>].live
  BY <1>1 DEF Unallocated, Readable
<1>5. \A c \in S : cab'[c] = [NoCab EXCEPT !.img = img[c], !.next = succ[c],
                                          !.files = <<c, Least(Kept(img[c]))>>,
                                          !.folders = <<c, 1>>]
  BY <1>1 DEF Load
<1>6. \A c \in S : /\ cab'[c].prevcab = NULL /\ cab'[c].nextcab = NULL
                   /\ cab'[c].files = <<c, Least(Kept(img[c]))>>
  BY <1>5 DEF NoCab
<1>7. \A f \in File : file[f].live => file'[f] = file[f] /\ f[1] \notin S
  <2> TAKE f \in File
  <2> HAVE file[f].live
  <2>1. f[1] \in Cab /\ f[2] \in 1..MaxFiles /\ f = <<f[1], f[2]>>
    BY DEF File
  <2>2. f[1] \notin S
    BY <1>4, <2>1
  <2> QED
    BY <1>3, <2>2
<1>8. \A g \in Folder : folder[g].live => folder'[g] = folder[g] /\ g[1] \notin S
  <2> TAKE g \in Folder
  <2> HAVE folder[g].live
  <2>1. g[1] \in Cab /\ g[2] \in 1..MaxFolders /\ g = <<g[1], g[2]>>
    BY DEF Folder
  <2>2. g[1] \notin S
    BY <1>4, <2>1
  <2> QED
    BY <1>3, <2>2
<1>9. \A c \in Cab : Open(c) => c \notin S /\ cab'[c] = cab[c]
  BY <1>3, <1>4
<1>10. Links(FilNext', File) /\ Links(NextOf', Cab)
  BY HeapLinksAfter
<1>11. ASSUME NEW c \in S
       PROVE  /\ SetFrom(c)' = <<c>> /\ KeySeq(c)' = ImageKeys(img[c])
              /\ Met(cab[c].files, FilNext)'
                   = [n \in 1..Cardinality(Kept(img[c])) |-> <<c, NthKept(img[c], n)>>]
  <2>1. NextOf'[c] = NULL /\ c \in Cab /\ img[c] \in Image
    BY <1>4, <1>6 DEF NextOf
  <2>2. Lists(<<c>>, c, NextOf', Cab)
    <3>1. <<c>> \in Seq(Cab) /\ Len(<<c>>) = 1 /\ <<c>>[1] = c
      BY <2>1
    <3> QED
      BY <2>1, <3>1 DEF Lists
  <2>3. SetFrom(c)' = <<c>>
    BY <1>10, <2>1, <2>2, OneList DEF SetFrom
  <2> DEFINE i == img[c]
             s == [n \in 1..Cardinality(Kept(i)) |-> <<c, NthKept(i, n)>>]
  <2>4. Kept(i) \in SUBSET (1..MaxFiles)
    BY <2>1, KeptType
  <2>5. \A k \in Kept(i) : <<c, k>> \in File /\ file'[<<c, k>>] = NewFile(c, i, k)
    <3> TAKE k \in Kept(i)
    <3>1. <<c, k>> \in File
      BY <2>1, <2>4 DEF File
    <3>2. <<c, k>>[1] = c /\ <<c, k>>[2] = k
      OBVIOUS
    <3> QED
      BY <1>3, <3>1, <3>2
  <2>6. ReadInOrder(FilNext', c, Kept(i))
    <3>1. \A k \in Kept(i) : FilNext'[<<c, k>>] = NewFile(c, i, k).next
      BY <2>5 DEF FilNext
    <3> QED
      BY <3>1 DEF ReadInOrder, NewFile
  <2>7. Lists(s, <<c, Least(Kept(i))>>, FilNext', File)
    <3>1. Kept(i) # {} /\ i \in Image
      BY <1>4
    <3> QED
      BY <1>10, <2>1, <2>6, <3>1, ReadSequence
  <2>8. <<c, Least(Kept(i))>> \in File
    <3>1. Kept(i) \in SUBSET Nat /\ Kept(i) # {}
      BY <1>4, KeptType
    <3>2. Least(Kept(i)) \in Kept(i)
      BY <3>1, LeastIsLeast
    <3> QED
      BY <2>5, <3>2
  <2>9. Met(cab'[c].files, FilNext') = s
    <3> HIDE DEF s, i
    <3> QED
      BY <1>6, <1>10, <2>7, <2>8, OneList DEF i
  <2>10. KeySeq(c)' = [n \in DOMAIN s |-> file'[s[n]].key]
    BY <2>9 DEF KeySeq
  <2>11. \A n \in 1..Cardinality(Kept(i)) : s[n] = <<c, NthKept(i, n)>> /\ NthKept(i, n) \in Kept(i)
    <3> TAKE n \in 1..Cardinality(Kept(i))
    <3>1. s[n] \in File /\ s[n] = <<c, NthKept(i, n)>>
      <4>1. s \in Seq(File) /\ Len(s) = Cardinality(Kept(i))
        <5>1. s \in Seq(File)
          BY <2>7 DEF Lists
        <5>2. Cardinality(Kept(i)) \in Nat
          BY <2>1, KeptInOrder
        <5> QED
          BY <5>1, <5>2
      <4>2. \A q \in 1..Len(s) : s[q] \in File
        <5> HIDE DEF s
        <5> QED
          BY <4>1
      <4> QED
        BY <4>1, <4>2
    <3>2. s[n] \in FilesOf(c)'
      <4>1. Items(cab'[c].files, FilNext') = {s[q] : q \in 1..Len(s)}
        <5>1. \E x \in Items(<<c, Least(Kept(i))>>, FilNext') : FilNext'[x] = NULL
          <6> HIDE DEF s
          <6> QED
            BY <1>10, <2>7, <2>8, OneList
        <5> DEFINE h == <<c, Least(Kept(i))>>
        <5>2. cab'[c].files = h
          BY <1>6
        <5>3. h \in File /\ \E x \in Items(h, FilNext') : FilNext'[x] = NULL
          BY <2>8, <5>1
        <5> HIDE DEF s, h, i
        <5>4. Items(h, FilNext') = {Met(h, FilNext')[q] : q \in 1..Len(Met(h, FilNext'))}
          BY <1>10, <5>3, MetLists
        <5> QED
          BY <2>9, <5>2, <5>4
      <4>2. Len(s) = Cardinality(Kept(i))
        <5>1. Cardinality(Kept(i)) \in Nat
          BY <2>1, KeptInOrder
        <5> QED
          BY <5>1
      <4> QED
        BY <4>1, <4>2 DEF FilesOf
    <3>3. FilesOf(c)' = {<<c, k>> : k \in Kept(i)}
      BY <1>18
    <3> QED
      BY <3>1, <3>2, <3>3
  <2>12. KeySeq(c)' = ImageKeys(i)
    <3>1. \A n \in 1..Cardinality(Kept(i)) : file'[s[n]].key = ImageFiles[i][NthKept(i, n)].key
      <4> TAKE n \in 1..Cardinality(Kept(i))
      <4>1. s[n] = <<c, NthKept(i, n)>> /\ NthKept(i, n) \in Kept(i)
        BY <2>11
      <4>2. file'[s[n]] = NewFile(c, i, NthKept(i, n))
        <5> HIDE DEF s
        <5> QED
          BY <2>5, <4>1
      <4> QED
        BY <4>2 DEF NewFile
    <3>2. DOMAIN s = 1..Cardinality(Kept(i))
      OBVIOUS
    <3> HIDE DEF s
    <3> QED
      BY <2>10, <3>1, <3>2 DEF ImageKeys
  <2> QED
    BY <2>3, <2>9, <2>12
<1>12. \A c \in Cab \ S : /\ Open(c) => KeySeq(c)' = KeySeq(c)
                          /\ Open(c) => Met(cab[c].files, FilNext)' = Met(cab[c].files, FilNext)
                          /\ IsFirst(c) => SetFrom(c)' = SetFrom(c)
  <2> TAKE c \in Cab \ S
  <2>1. ASSUME Open(c)
        PROVE  KeySeq(c)' = KeySeq(c) /\ Met(cab[c].files, FilNext)' = Met(cab[c].files, FilNext)
    <3>1. \A f \in FilesOf(c) : file'[f] = file[f]
      BY <1>2, <1>7, <2>1, ListFacts
    <3>2. cab'[c].files = cab[c].files
      BY <1>3
    <3> QED
      BY <1>2, <2>1, <3>1, <3>2, SameFiles
  <2>2. ASSUME IsFirst(c) PROVE SetFrom(c)' = SetFrom(c)
    <3>1. \A x \in SetOf(c) : x \in Cab /\ Open(x)
      BY <1>2, <2>2, SetFacts DEF IsFirst
    <3>2. \A x \in SetOf(c) : cab'[x].nextcab = cab[x].nextcab
      BY <1>9, <3>1
    <3> QED
      BY <1>2, <2>2, <3>2, SameSet
  <2> QED
    BY <2>1, <2>2
<1>13. FilesOwned'
  <2> SUFFICES ASSUME NEW f \in File, file'[f].live
               PROVE  /\ Open(f[1])' /\ f[2] \in Kept(cab'[f[1]].img)
                      /\ file'[f].key = ImageFiles[cab'[f[1]].img][f[2]].key
                      /\ file'[f].folder = <<f[1], EntryFolder(cab'[f[1]].img, f[2])>>
    BY DEF FilesOwned
  <2>1. CASE f[1] \in S /\ f[2] \in Kept(img[f[1]])
    <3>1. file'[f] = NewFile(f[1], img[f[1]], f[2]) /\ cab'[f[1]].img = img[f[1]] /\ img[f[1]] \in Image
      BY <1>3, <1>4, <2>1
    <3> QED
      BY <1>2, <2>1, <3>1 DEF NewFile, Open
  <2>2. CASE ~(f[1] \in S /\ f[2] \in Kept(img[f[1]]))
    <3>1. file'[f] = file[f] /\ file[f].live
      BY <1>3, <2>2
    <3>2. /\ Open(f[1]) /\ f[2] \in Kept(cab[f[1]].img)
          /\ file[f].key = ImageFiles[cab[f[1]].img][f[2]].key
          /\ file[f].folder = <<f[1], EntryFolder(cab[f[1]].img, f[2])>>
      BY <1>2, <3>1 DEF FilesOwned
    <3>3. f[1] \in Cab /\ cab'[f[1]] = cab[f[1]]
      BY <1>9, <3>2 DEF File
    <3> QED
      BY <3>1, <3>2, <3>3 DEF Open
  <2> QED
    BY <2>1, <2>2
<1>14. JointsSaid'
  <2> SUFFICES ASSUME NEW g \in Folder, folder'[g].live
               PROVE  /\ g[2] = 1 => folder'[g].merge_prev = FirstWith(g[1], cab'[g[1]].img, Ends)
                      /\ folder'[g].next = NULL =>
                           LET l == folder'[g].data[Len(folder'[g].data)]
                           IN  folder'[g].merge_next = NULL <=> FirstWith(l, cab'[l].img, Begins) = NULL
    BY DEF JointsSaid
  <2>1. CASE g[1] \in S /\ g[2] \in 1..Len(ImageFolders[img[g[1]]])
    <3> DEFINE c == g[1]
               i == img[g[1]]
    <3>1. folder'[g] = NewFolder(c, i, g[2]) /\ cab'[c].img = i
      BY <1>3, <2>1
    <3>2. folder'[g].data = <<c>> /\ Len(<<c>>) = 1 /\ <<c>>[1] = c
      BY <3>1 DEF NewFolder
    <3>3. folder'[g].next = NULL => g[2] = Len(ImageFolders[i])
      <4>1. g[2] \in Nat /\ g[2] <= Len(ImageFolders[i]) /\ Len(ImageFolders[i]) \in Nat
        BY <1>4, <2>1, ImageType
      <4>2. g[2] < Len(ImageFolders[i]) => folder'[g].next = <<c, g[2] + 1>>
        BY <3>1 DEF NewFolder
      <4>3. g[2] < Len(ImageFolders[i]) => <<c, g[2] + 1>> \in Folder
        <5>1. c \in Cab /\ Len(ImageFolders[i]) \in 1..MaxFolders /\ MaxFolders \in Nat
          BY <1>4, <2>1, ImageType
        <5>2. g[2] < Len(ImageFolders[i]) => g[2] + 1 \in 1..MaxFolders
          BY <4>1, <5>1
        <5> QED
          BY <5>1, <5>2 DEF Folder
      <4>4. NULL \notin Folder
        BY FiniteHeap
      <4> QED
        BY <4>1, <4>2, <4>3, <4>4
    <3>4. g[2] = 1 => folder'[g].merge_prev = FirstWith(c, i, Ends)
      BY <3>1 DEF NewFolder, Ends
    <3>5. g[2] = Len(ImageFolders[i]) => folder'[g].merge_next = FirstWith(c, i, Begins)
      BY <3>1 DEF NewFolder, Begins
    <3> QED
      BY <3>1, <3>2, <3>3, <3>4, <3>5
  <2>2. CASE ~(g[1] \in S /\ g[2] \in 1..Len(ImageFolders[img[g[1]]]))
    <3>1. folder'[g] = folder[g] /\ folder[g].live
      BY <1>3, <2>2
    <3> DEFINE l == folder[g].data[Len(folder[g].data)]
    <3>2. /\ g[2] = 1 => folder[g].merge_prev = FirstWith(g[1], cab[g[1]].img, Ends)
          /\ folder[g].next = NULL => (folder[g].merge_next = NULL <=> FirstWith(l, cab[l].img, Begins) = NULL)
      BY <1>2, <3>1 DEF JointsSaid
    <3>3. /\ folder[g].data \in Seq(Cab) /\ Len(folder[g].data) \in Nat \ {0}
          /\ \A n \in 1..Len(folder[g].data) : folder[g].data[n] \in Cab /\ Open(folder[g].data[n])
          /\ folder[g].data[1] = g[1]
      BY <1>2, <3>1, LiveParts DEF PartsOf, PartsChained, OneChained
    <3>4. /\ g[1] \in Cab /\ Open(g[1]) /\ l \in Cab /\ Open(l)
      <4>1. 1 \in 1..Len(folder[g].data) /\ Len(folder[g].data) \in 1..Len(folder[g].data)
        BY <3>3
      <4> QED
        BY <3>3, <4>1
    <3>5. cab'[g[1]] = cab[g[1]] /\ cab'[l] = cab[l]
      BY <1>9, <3>4
    <3> QED
      BY <3>1, <3>2, <3>5
  <2> QED
    BY <2>1, <2>2
<1>15. OwnFirst'
  <2> SUFFICES ASSUME NEW c \in Cab, IsFirst(c)'
               PROVE  LET met == Met(cab'[c].files, FilNext')
                          i == cab'[c].img
                      IN  /\ Cardinality(Kept(i)) <= Len(met)
                          /\ \A n \in 1..Cardinality(Kept(i)) : met[n] = <<c, NthKept(i, n)>>
    BY DEF OwnFirst
  <2>1. CASE c \in S
    <3> DEFINE i == img[c]
               s == [n \in 1..Cardinality(Kept(i)) |-> <<c, NthKept(i, n)>>]
    <3>1. Met(cab'[c].files, FilNext') = s /\ cab'[c].img = i /\ i \in Image
      BY <1>3, <1>4, <1>11, <2>1
    <3>2. Cardinality(Kept(i)) \in Nat
      BY <3>1, KeptInOrder
    <3>3. Len(s) = Cardinality(Kept(i)) /\ \A n \in 1..Cardinality(Kept(i)) : s[n] = <<c, NthKept(i, n)>>
      BY <3>2
    <3> HIDE DEF s, i
    <3> QED
      BY <3>1, <3>2, <3>3
  <2>2. CASE c \notin S
    <3>1. cab'[c] = cab[c] /\ IsFirst(c)
      BY <1>3, <2>2 DEF IsFirst, Open
    <3>2. Met(cab'[c].files, FilNext') = Met(cab[c].files, FilNext)
      BY <1>12, <2>2, <3>1 DEF IsFirst
    <3> QED
      BY <1>2, <3>1, <3>2 DEF OwnFirst
  <2> QED
    BY <2>1, <2>2
<1>16. CabsReadable'
  <2> SUFFICES ASSUME NEW c \in Cab, Open(c)' PROVE Readable(cab'[c].img)
    BY DEF CabsReadable
  <2>1. CASE c \in S
    BY <1>1, <1>3, <2>1
  <2>2. CASE c \notin S
    BY <1>2, <1>3, <2>2 DEF CabsReadable, Open
  <2> QED
    BY <2>1, <2>2
<1>17. \A c \in S : IsFirst(c)'
  BY <1>2, <1>3, <1>4, <1>6 DEF IsFirst, Open
<1> QED
  BY <1>3, <1>4, <1>11, <1>12, <1>13, <1>14, <1>15, <1>16, <1>17 DEF Said

\* Closing: whole sets go, the others stay.
LEMMA SeenClose ==
  ASSUME Seen, TypeInv', Graph', NEW c \in Cab, Close(c)
  PROVE  /\ Said'
         /\ \E gone : /\ WholeSets(gone)
                      /\ \A x \in gone : cab'[x] = NoCab
                      /\ \A x \in Cab \ gone :
                           /\ cab'[x] = cab[x]
                           /\ Open(x) => KeySeq(x)' = KeySeq(x)
                           /\ IsFirst(x) => SetFrom(x)' = SetFrom(x)
<1> DEFINE freed == Freed(c)
           gone == freed.cabs
<1>0. /\ Graph /\ TypeInv /\ PartsChained /\ FilesOwned /\ JointsSaid /\ OwnFirst /\ CabsReadable
      /\ SetsLinked
  BY DEF Seen, Ordered, Graph, Said
<1>1. /\ WholeSets(gone)
      /\ freed.folders = UNION {FoldersOf(x) : x \in gone}
      /\ freed.files = UNION {FilesOf(x) : x \in gone}
  BY <1>0, FreedWhole DEF Close
<1>2. /\ cab' = [x \in Cab |-> IF x \in gone THEN NoCab ELSE cab[x]]
      /\ folder' = [x \in Folder |-> IF x \in freed.folders THEN NoFolder ELSE folder[x]]
      /\ file' = [x \in File |-> IF x \in freed.files THEN NoFile ELSE file[x]]
  BY DEF Close
<1> HIDE DEF freed, gone
<1>3. /\ \A x \in Cab : Open(x)' <=> Open(x) /\ x \notin gone
      /\ \A x \in Cab : Open(x)' => /\ cab'[x] = cab[x] /\ SetOf(x)' = SetOf(x)
                                    /\ FoldersOf(x)' = FoldersOf(x) /\ FilesOf(x)' = FilesOf(x)
                                    /\ \A g \in FoldersOf(x) : folder'[g] = folder[g]
                                    /\ \A f \in FilesOf(x) : file'[f] = file[f]
  <2>1. /\ cab' = [x \in Cab |-> IF x \in gone THEN NoCab ELSE cab[x]]
        /\ folder' = [x \in Folder |->
             IF x \in UNION {FoldersOf(d) : d \in gone} THEN NoFolder ELSE folder[x]]
        /\ file' = [x \in File |->
             IF x \in UNION {FilesOf(d) : d \in gone} THEN NoFile ELSE file[x]]
    BY <1>1, <1>2
  <2> QED
    BY <1>0, <1>1, <2>1, WholeSetsGone
<1>4. \A x \in Cab \ gone : cab'[x] = cab[x]
  BY <1>2
<1>5. \A x \in gone : x \in Cab /\ cab'[x] = NoCab
  BY <1>1, <1>2 DEF WholeSets
<1>6. ASSUME NEW x \in Cab, Open(x), x \notin gone, NEW y \in SetOf(x)
      PROVE  y \in Cab /\ y \notin gone /\ cab'[y] = cab[y] /\ Open(y)
  <2>1. y \in Cab /\ Open(y) /\ x \in SetOf(y)
    BY <1>0, <1>6, SetFacts
  <2>2. y \notin gone
    BY <1>1, <1>6, <2>1 DEF WholeSets
  <2> QED
    BY <1>2, <2>1, <2>2
<1>7. ASSUME NEW x \in Cab \ gone, Open(x)
      PROVE  KeySeq(x)' = KeySeq(x) /\ Met(cab[x].files, FilNext)' = Met(cab[x].files, FilNext)
  <2>1. cab'[x].files = cab[x].files /\ \A f \in FilesOf(x) : file'[f] = file[f]
    BY <1>3, <1>4, <1>7
  <2> QED
    BY <1>0, <1>7, <2>1, SameFiles
<1>8. ASSUME NEW x \in Cab \ gone, IsFirst(x) PROVE SetFrom(x)' = SetFrom(x)
  <2>1. \A y \in SetOf(x) : cab'[y].nextcab = cab[y].nextcab
    BY <1>6, <1>8 DEF IsFirst
  <2> QED
    BY <1>0, <1>8, <2>1, SameSet
<1>9. FilesOwned'
  <2> SUFFICES ASSUME NEW f \in File, file'[f].live
               PROVE  /\ Open(f[1])' /\ f[2] \in Kept(cab'[f[1]].img)
                      /\ file'[f].key = ImageFiles[cab'[f[1]].img][f[2]].key
                      /\ file'[f].folder = <<f[1], EntryFolder(cab'[f[1]].img, f[2])>>
    BY DEF FilesOwned
  <2>1. f \notin freed.files /\ file'[f] = file[f] /\ file[f].live
    BY <1>2 DEF NoFile
  <2>2. PICK x \in Cab : Open(x) /\ f \in FilesOf(x)
    BY <1>0, <2>1, LiveIsListed
  <2>3. x \notin gone
    BY <1>1, <2>1, <2>2
  <2>4. f[1] \in SetOf(x)
    BY <1>0, <2>2, FilesOfParts
  <2>5. cab'[f[1]] = cab[f[1]]
    BY <1>6, <2>2, <2>3, <2>4
  <2> QED
    BY <1>0, <2>1, <2>5 DEF FilesOwned, Open
<1>10. JointsSaid'
  <2> SUFFICES ASSUME NEW g \in Folder, folder'[g].live
               PROVE  /\ g[2] = 1 => folder'[g].merge_prev = FirstWith(g[1], cab'[g[1]].img, Ends)
                      /\ folder'[g].next = NULL =>
                           LET l == folder'[g].data[Len(folder'[g].data)]
                           IN  folder'[g].merge_next = NULL <=> FirstWith(l, cab'[l].img, Begins) = NULL
    BY DEF JointsSaid
  <2>1. g \notin freed.folders /\ folder'[g] = folder[g] /\ folder[g].live
    BY <1>2 DEF NoFolder
  <2>2. PICK d \in Cab : /\ Open(d) /\ g \in FoldersOf(d)
                         /\ \A n \in 1..Len(folder[g].data) : folder[g].data[n] \in SetOf(d)
    BY <1>0, <2>1, LiveParts
  <2>3. d \notin gone
    BY <1>1, <2>1, <2>2
  <2>4. Len(folder[g].data) \in Nat \ {0} /\ folder[g].data[1] = g[1]
    BY <1>0, <2>1, LiveParts DEF PartsOf, PartsChained, OneChained
  <2> DEFINE l == folder[g].data[Len(folder[g].data)]
  <2>5. g[1] \in SetOf(d) /\ l \in SetOf(d)
    <3>1. 1 \in 1..Len(folder[g].data) /\ Len(folder[g].data) \in 1..Len(folder[g].data)
      BY <2>4
    <3> QED
      BY <2>2, <2>4, <3>1
  <2>6. cab'[g[1]] = cab[g[1]] /\ cab'[l] = cab[l]
    BY <1>6, <2>2, <2>3, <2>5
  <2> QED
    BY <1>0, <2>1, <2>6 DEF JointsSaid
<1>11. OwnFirst'
  <2> SUFFICES ASSUME NEW x \in Cab, IsFirst(x)'
               PROVE  LET met == Met(cab'[x].files, FilNext')
                          i == cab'[x].img
                      IN  /\ Cardinality(Kept(i)) <= Len(met)
                          /\ \A n \in 1..Cardinality(Kept(i)) : met[n] = <<x, NthKept(i, n)>>
    BY DEF OwnFirst
  <2>1. Open(x) /\ x \notin gone /\ cab'[x] = cab[x] /\ IsFirst(x)
    BY <1>3 DEF IsFirst
  <2>2. Met(cab'[x].files, FilNext') = Met(cab[x].files, FilNext)
    BY <1>7, <2>1
  <2> QED
    BY <1>0, <2>1, <2>2 DEF OwnFirst
<1>12. CabsReadable'
  BY <1>0, <1>3 DEF CabsReadable
<1>13. Said'
  BY <1>9, <1>10, <1>11, <1>12 DEF Said
<1>14. /\ WholeSets(gone)
       /\ \A x \in gone : cab'[x] = NoCab
       /\ \A x \in Cab \ gone :
            /\ cab'[x] = cab[x]
            /\ Open(x) => KeySeq(x)' = KeySeq(x)
            /\ IsFirst(x) => SetFrom(x)' = SetFrom(x)
  BY <1>1, <1>4, <1>5, <1>7, <1>8
<1> QED
  BY <1>13, <1>14

\* A step that touches no cabinet, folder or file
LEMMA SeenStill ==
  ASSUME Said, UNCHANGED <<cab, folder, file>>
  PROVE  /\ Said'
         /\ UNCHANGED <<SetsSeen, PartSeen, ListingSeen>>
<1>1. FilesOwned' /\ JointsSaid' /\ OwnFirst' /\ CabsReadable'
  <2>1. FilesOwned'
    BY DEF Said, FilesOwned, Open
  <2>2. JointsSaid'
    BY DEF Said, JointsSaid
  <2>3. OwnFirst'
    BY DEF Said, OwnFirst, IsFirst, Open, FilNext
  <2>4. CabsReadable'
    BY DEF Said, CabsReadable, Open
  <2> QED
    BY <2>1, <2>2, <2>3, <2>4
<1>2. /\ \A c \in Cab : (Open(c)' <=> Open(c)) /\ (IsFirst(c)' <=> IsFirst(c))
      /\ \A c \in Cab : SetFrom(c)' = SetFrom(c) /\ KeySeq(c)' = KeySeq(c)
  BY DEF Open, IsFirst, SetFrom, KeySeq, NextOf, FilNext
<1>3. SetsSeen' = SetsSeen /\ PartSeen' = PartSeen /\ ListingSeen' = ListingSeen
  BY <1>2 DEF SetsSeen, PartSeen, ListingSeen
<1> QED
  BY <1>1, <1>3 DEF Said

-----------------------------------------------------------------------------
(* What the steps do to the sets and lists that a caller sees.              *)

LEMMA LoadAdds ==
  ASSUME Seen, TypeInv', NEW S, NEW img, NEW succ, Loading(S, img, succ)
  PROVE  [View!Next]_(View!viewVars)
<1>1. /\ \A c \in Cab : /\ c \notin S => cab'[c] = cab[c]
                        /\ c \in S => cab'[c].img = img[c] /\ ~Open(c) /\ IsFirst(c)'
      /\ \A c \in S : SetFrom(c)' = <<c>> /\ KeySeq(c)' = ImageKeys(img[c])
      /\ \A c \in Cab \ S : /\ Open(c) => KeySeq(c)' = KeySeq(c)
                            /\ IsFirst(c) => SetFrom(c)' = SetFrom(c)
  BY SeenLoad
<1>2. S \in SUBSET Cab /\ img \in [S -> Image] /\ DOMAIN img = S /\ \A c \in S : img[c] \in Image
  BY DEF Loading
<1>3. \A c \in Cab \ S : (Open(c)' <=> Open(c)) /\ (IsFirst(c)' <=> IsFirst(c))
  BY <1>1 DEF Open, IsFirst
<1>4. \A c \in S : Open(c)' /\ IsFirst(c)' /\ ~Open(c) /\ ~IsFirst(c)
  BY <1>1, <1>2 DEF IsFirst
<1>5. PartSeen' = [c \in Cab |-> IF c \in S THEN img[c] ELSE PartSeen[c]]
  BY <1>1, <1>2 DEF PartSeen
<1>6. SetsSeen' = SetsSeen \cup {<<c>> : c \in S}
  <2>1. {x \in Cab : IsFirst(x)'} = {x \in Cab : IsFirst(x)} \cup S
    BY <1>2, <1>3, <1>4
  <2>2. \A c \in {x \in Cab : IsFirst(x)} : c \in Cab \ S /\ SetFrom(c)' = SetFrom(c)
    BY <1>1, <1>4
  <2> QED
    BY <1>1, <2>1, <2>2 DEF SetsSeen
<1>7. ListingSeen' = [c \in Cab |-> IF c \in S THEN PartLists[img[c]] ELSE ListingSeen[c]]
  <2>1. \A c \in S : PartLists[img[c]] = ImageKeys(img[c])
    BY <1>2 DEF PartLists
  <2>2. \A c \in Cab : (IF Open(c)' THEN KeySeq(c)' ELSE <<>>)
                         = IF c \in S THEN PartLists[img[c]] ELSE IF Open(c) THEN KeySeq(c) ELSE <<>>
    BY <1>1, <1>3, <1>4, <2>1
  <2> QED
    BY <2>2 DEF ListingSeen
<1>8. View!Add(img)
  BY <1>2, <1>5, <1>6, <1>7 DEF View!Add
<1>9. CASE S = {}
  <2>1. PartSeen' = PartSeen
    BY <1>5, <1>9 DEF PartSeen
  <2>2. SetsSeen' = SetsSeen
    BY <1>6, <1>9
  <2>3. ListingSeen' = ListingSeen
    BY <1>7, <1>9 DEF ListingSeen
  <2> QED
    BY <2>1, <2>2, <2>3 DEF View!viewVars
<1>10. CASE S # {}
  <2>1. S \in (SUBSET View!Closed) \ {{}}
    <3>1. \A c \in S : c \in Cab /\ PartSeen[c] = NULL
      BY <1>2, <1>4 DEF PartSeen, Open
    <3> QED
      BY <1>10, <3>1 DEF View!Closed
  <2> QED
    BY <1>2, <1>8, <2>1 DEF View!Next
<1> QED
  BY <1>9, <1>10

LEMMA CloseDrops ==
  ASSUME Seen, TypeInv', Graph', NEW c \in Cab, Close(c)
  PROVE  [View!Next]_(View!viewVars)
<1>0. Graph /\ TypeInv /\ SetsLinked /\ SetsBegin /\ NULL \notin Image
  BY FiniteHeap DEF Seen, Ordered, Graph
<1>1. PICK gone : /\ WholeSets(gone)
                  /\ \A x \in gone : cab'[x] = NoCab
                  /\ \A x \in Cab \ gone :
                       /\ cab'[x] = cab[x]
                       /\ Open(x) => KeySeq(x)' = KeySeq(x)
                       /\ IsFirst(x) => SetFrom(x)' = SetFrom(x)
  BY SeenClose
<1>2. gone \subseteq Cab /\ \A x \in gone : Open(x) /\ SetOf(x) \subseteq gone
  BY <1>1 DEF WholeSets
<1>3. \A x \in gone : ~Open(x)' /\ ~IsFirst(x)'
  BY <1>1 DEF Open, IsFirst, NoCab
<1>4. \A x \in Cab \ gone : (Open(x)' <=> Open(x)) /\ (IsFirst(x)' <=> IsFirst(x))
  BY <1>1 DEF Open, IsFirst
<1> DEFINE closed == {SetFrom(x) : x \in {y \in gone : IsFirst(y)}}
<1>5. \A x \in Cab : IsFirst(x) => SetFrom(x)[1] = x
  BY <1>0, SetMet
<1>6. closed \subseteq SetsSeen
  BY <1>2 DEF SetsSeen
<1>7. UNION {View!Range(s) : s \in closed} = gone
  <2>1. ASSUME NEW x \in gone, IsFirst(x) PROVE View!Range(SetFrom(x)) = SetOf(x)
    <3>1. /\ SetOf(x) = {SetFrom(x)[n] : n \in 1..Len(SetFrom(x))}
          /\ SetFrom(x) \in Seq(Cab)
      BY <1>0, <1>2, <2>1, SetMet
    <3>2. DOMAIN SetFrom(x) = 1..Len(SetFrom(x))
      BY <3>1
    <3> QED
      BY <3>1, <3>2 DEF View!Range
  <2>2. ASSUME NEW x \in gone PROVE \E f \in gone : IsFirst(f) /\ x \in SetOf(f)
    <3>1. Open(x) /\ x \in Cab
      BY <1>2
    <3>2. PICK f \in SetOf(x) : cab[f].prevcab = NULL
      BY <1>0, <3>1 DEF SetsBegin
    <3>3. f \in gone /\ Open(f) /\ SetOf(f) = SetOf(x) /\ x \in SetOf(x)
      BY <1>0, <1>2, <3>1, <3>2, SetFacts
    <3> QED
      BY <3>2, <3>3 DEF IsFirst
  <2> QED
    BY <1>2, <2>1, <2>2
<1>8. PartSeen' = [x \in Cab |-> IF x \in gone THEN NULL ELSE PartSeen[x]]
  <2>1. \A x \in Cab : cab'[x].img = IF x \in gone THEN NULL ELSE cab[x].img
    BY <1>1 DEF NoCab
  <2> QED
    BY <2>1 DEF PartSeen
<1>9. SetsSeen' = SetsSeen \ closed
  <2>1. {x \in Cab : IsFirst(x)'} = {x \in Cab : IsFirst(x)} \ gone
    BY <1>3, <1>4
  <2>2. SetsSeen' = {SetFrom(x)' : x \in {y \in Cab : IsFirst(y)'}}
    BY DEF SetsSeen
  <2>3. \A x \in {y \in Cab : IsFirst(y)} \ gone : SetFrom(x)' = SetFrom(x)
    BY <1>1
  <2>4. SetsSeen' = {SetFrom(x) : x \in {y \in Cab : IsFirst(y)} \ gone}
    BY <2>1, <2>2, <2>3
  <2>5. \A x, y \in Cab : IsFirst(x) /\ IsFirst(y) /\ SetFrom(x) = SetFrom(y) => x = y
    BY <1>5
  <2>6. {SetFrom(x) : x \in {y \in Cab : IsFirst(y)} \ gone} = SetsSeen \ closed
    BY <1>2, <2>5 DEF SetsSeen
  <2> QED
    BY <2>4, <2>6
<1>10. ListingSeen' = [x \in Cab |-> IF x \in gone THEN <<>> ELSE ListingSeen[x]]
  <2>1. \A x \in Cab : (IF Open(x)' THEN KeySeq(x)' ELSE <<>>)
                         = IF x \in gone THEN <<>> ELSE IF Open(x) THEN KeySeq(x) ELSE <<>>
    BY <1>1, <1>3, <1>4
  <2> QED
    BY <2>1 DEF ListingSeen
<1> HIDE DEF closed
<1>11. View!Drop(closed)
  BY <1>7, <1>8, <1>9, <1>10 DEF View!Drop
<1>12. CASE closed = {}
  <2>1. gone = {}
    BY <1>7, <1>12
  <2>2. PartSeen' = PartSeen
    BY <1>8, <2>1 DEF PartSeen
  <2>3. SetsSeen' = SetsSeen
    BY <1>9, <1>12
  <2>4. ListingSeen' = ListingSeen
    BY <1>10, <2>1 DEF ListingSeen
  <2> QED
    BY <2>2, <2>3, <2>4 DEF View!viewVars
<1>13. CASE closed # {}
  <2>1. closed \in (SUBSET SetsSeen) \ {{}}
    BY <1>6, <1>13
  <2> QED
    BY <1>11, <2>1 DEF View!Next
<1> QED
  BY <1>12, <1>13

-----------------------------------------------------------------------------
(* The file list of a joined set.                                           *)

\* The continued entries of a part are as many as they are, from the first on.
LEMMA ContinuedCount ==
  ASSUME ContinuedFirst, NEW i \in Image, Readable(i), KeptWith(i, Ends) # {}
  PROVE  LET t == Cardinality(KeptWith(i, Ends)) IN
         /\ t \in Nat /\ t <= Cardinality(Kept(i))
         /\ \A k \in Kept(i) : EntryFolder(i, k) = 1 <=> Rank(Kept(i), k) + 1 <= t
<1> DEFINE K == Kept(i)
           C == KeptWith(i, Ends)
           t == Cardinality(C)
<1>1. K \in SUBSET Nat /\ IsFiniteSet(K) /\ Cardinality(K) \in Nat
  BY KeptInOrder
<1>2. C \subseteq K /\ \A k \in C : ImageFiles[i][k].fidx \in Ends
  BY DEF KeptWith
<1>3. IsFiniteSet(C) /\ t \in Nat /\ t <= Cardinality(K)
  <2> HIDE DEF C, K
  <2> QED
    BY <1>1, <1>2, FS_Subset, FS_CardinalityType
<1>4. /\ \A k \in C : \A j \in K \ C : k < j
      /\ \A k \in K \ C : EntryFolder(i, k) # 1
  <2>1. \A k \in K : IF k \in C THEN \A j \in K \ C : k < j ELSE EntryFolder(i, k) # 1
    BY DEF ContinuedFirst, Ends
  <2> HIDE DEF K, C
  <2> QED
    BY <1>2, <2>1
<1>5. \A k \in C : EntryFolder(i, k) = 1
  BY <1>2 DEF EntryFolder, Ends
<1>6. ASSUME NEW k \in K PROVE k \in C <=> Rank(K, k) + 1 <= t
  <2> DEFINE S == {j \in K : j < k}
  <2>0. S \subseteq K /\ k \notin S /\ \A j \in K : j \in Nat
    BY <1>1
  <2>1. IsFiniteSet(S) /\ Cardinality(S) \in Nat /\ Rank(K, k) = Cardinality(S)
    <3>1. Rank(K, k) = Cardinality(S)
      BY DEF Rank
    <3> HIDE DEF S, K
    <3> QED
      BY <1>1, <2>0, <3>1, FS_Subset, FS_CardinalityType
  <2>2. CASE k \in C
    <3>1. S \subseteq C
      <4> SUFFICES ASSUME NEW j \in S, j \notin C PROVE FALSE
        OBVIOUS
      <4>1. k < j /\ j < k /\ j \in Nat /\ k \in Nat
        BY <1>1, <1>4, <2>2
      <4> QED
        BY <4>1
    <3>2. S \cup {k} \subseteq C /\ Cardinality(S \cup {k}) = Cardinality(S) + 1
      <4> HIDE DEF S, C
      <4> QED
        BY <2>0, <2>1, <2>2, <3>1, FS_AddElement
    <3>3. Cardinality(S \cup {k}) <= t
      <4> HIDE DEF S, C
      <4> QED
        BY <1>3, <3>2, FS_Subset
    <3> HIDE DEF S, C
    <3> QED
      BY <2>1, <2>2, <3>2, <3>3
  <2>3. CASE k \notin C
    <3>1. C \subseteq S
      BY <1>2, <1>4, <2>3
    <3>2. t <= Cardinality(S)
      <4> HIDE DEF S, C
      <4> QED
        BY <2>1, <3>1, FS_Subset
    <3> HIDE DEF S, C
    <3> QED
      BY <1>3, <2>1, <2>3, <3>2
  <2> QED
    BY <2>2, <2>3
<1>7. \A k \in K : EntryFolder(i, k) = 1 <=> k \in C
  BY <1>4, <1>5
<1> QED
  BY <1>3, <1>6, <1>7

\* The files that cabd_merge takes for duplicates are the first ones of the right
\* list, as many as the part says continue.
LEMMA DuplicatesFirst ==
  ASSUME Seen, ContinuedFirst, JointsWellFormed, NEW l \in Cab, NEW r \in Cab,
         TypeInv', MergeFolders(l, r)
  PROVE  LET t == Cardinality(KeptWith(cab[r].img, Ends))
             b == Met(cab[r].files, FilNext)
         IN  /\ t \in 0..Len(b)
             /\ \A n \in 1..Len(b) : b[n] \in Duplicates(l, r) <=> n <= t
<1> DEFINE i == cab[r].img
           K == Kept(i)
           t == Cardinality(KeptWith(i, Ends))
           b == Met(cab[r].files, FilNext)
<1>0. /\ Graph /\ Ordered /\ TypeInv /\ FilesOwned /\ JointsSaid /\ OwnFirst /\ CabsReadable /\ NULL \notin Image
      /\ PartsChained
  BY FiniteHeap DEF Seen, Ordered, Graph, Said
<1>1. /\ Open(l) /\ Open(r) /\ ~BadArgs(l, r) /\ CanMergeFolders(LeftFolder(l), RightFolder(r))
      /\ cab[r].prevcab = NULL
  BY DEF MergeFolders, MayJoin, BadArgs
<1>2. i \in Image /\ Readable(i)
  <2>1. cab[r] \in Cabinet
    BY <1>0 DEF TypeInv, TypeOK
  <2> QED
    BY <1>0, <1>1, <2>1 DEF Open, Cabinet, CabsReadable
<1>3. RightFolder(r) = <<r, 1>> /\ cab[r].folders = <<r, 1>>
  BY <1>0, <1>1, JointFound DEF RightFolder
<1>4. <<r, 1>> \in Folder /\ folder[<<r, 1>>].live
  BY <1>0, <1>1, <1>3, ListFacts
<1>5. KeptWith(i, Ends) # {}
  <2>1. folder[<<r, 1>>].merge_prev # NULL
    BY <1>1, <1>3 DEF CanMergeFolders, ComparesFiles
  <2>2. folder[<<r, 1>>].merge_prev = FirstWith(r, i, Ends)
    <3>1. <<r, 1>>[1] = r /\ <<r, 1>>[2] = 1
      OBVIOUS
    <3> QED
      BY <1>0, <1>4, <3>1 DEF JointsSaid
  <2>3. Ends \subseteq {FROM_PREV, TO_NEXT, PREV_AND_NEXT}
    BY DEF Ends
  <2> QED
    BY <1>2, <2>1, <2>2, <2>3, FirstWithKept DEF KeptWith
<1>6. /\ t \in Nat /\ t <= Cardinality(K)
      /\ \A k \in K : EntryFolder(i, k) = 1 <=> Rank(K, k) + 1 <= t
  BY <1>2, <1>5, ContinuedCount
<1>7. /\ Cardinality(K) <= Len(b)
      /\ \A n \in 1..Cardinality(K) : b[n] = <<r, NthKept(i, n)>>
  BY <1>0, <1>1 DEF OwnFirst, IsFirst
<1>8. /\ Cardinality(K) \in Nat
      /\ \A k \in K : Rank(K, k) + 1 \in 1..Cardinality(K) /\ NthKept(i, Rank(K, k) + 1) = k
  BY <1>2, KeptInOrder
<1>9. /\ FilesOf(r) = {b[n] : n \in 1..Len(b)} /\ Len(b) \in Nat
      /\ \A m, n \in 1..Len(b) : b[m] = b[n] => m = n
  BY <1>0, <1>1, FileListMet
<1> HIDE DEF b, t, K
<1>10. ASSUME NEW n \in 1..Len(b)
       PROVE  b[n] \in Duplicates(l, r) <=> n <= t
  <2> DEFINE f == b[n]
  <2>1. f \in FilesOf(r) /\ f \in File /\ file[f].live
    BY <1>0, <1>1, <1>9, ListFacts
  <2>2. /\ f[2] \in Kept(cab[f[1]].img)
        /\ file[f].folder = <<f[1], EntryFolder(cab[f[1]].img, f[2])>>
    BY <1>0, <2>1 DEF FilesOwned
  <2>3. f \in Duplicates(l, r) <=> file[f].folder = <<r, 1>>
    BY <1>3, <2>1 DEF Duplicates
  <2>4. f = <<f[1], f[2]>>
    BY <2>1 DEF File
  <2> HIDE DEF f
  <2>5. CASE f[1] = r
    <3> DEFINE k == f[2]
               m == Rank(K, k) + 1
    <3>1. k \in K
      BY <2>2, <2>5 DEF K
    <3>2. m \in 1..Cardinality(K) /\ NthKept(i, m) = k
      BY <1>8, <3>1
    <3> HIDE DEF m
    <3>3. b[m] = f /\ m \in 1..Len(b)
      <4>1. b[m] = <<r, k>>
        BY <1>7, <3>2
      <4> QED
        BY <1>7, <1>8, <1>9, <2>4, <2>5, <3>2, <4>1
    <3>4. m = n
      BY <1>9, <3>3 DEF f
    <3>5. file[f].folder = <<r, 1>> <=> EntryFolder(i, k) = 1
      BY <2>2, <2>5
    <3>6. EntryFolder(i, k) = 1 <=> m <= t
      BY <1>6, <3>1 DEF m
    <3> QED
      BY <2>3, <3>4, <3>5, <3>6 DEF f
  <2>6. CASE f[1] # r
    <3>1. file[f].folder # <<r, 1>>
      BY <2>2, <2>6
    <3>2. ~(n \in 1..Cardinality(K))
      <4> SUFFICES ASSUME n \in 1..Cardinality(K) PROVE FALSE
        OBVIOUS
      <4>1. f = <<r, NthKept(i, n)>>
        BY <1>7 DEF f
      <4> QED
        BY <2>6, <4>1
    <3>3. ~(n <= t)
      BY <1>6, <1>8, <1>9, <3>2
    <3> QED
      BY <2>3, <3>1, <3>3 DEF f
  <2> QED
    BY <2>5, <2>6
<1>11. t \in 0..Len(b)
  BY <1>6, <1>7, <1>8, <1>9
<1> QED
  BY <1>10, <1>11 DEF b, t

\* Joining without a common folder: one list behind the other.
LEMMA PlainList ==
  ASSUME Graph, TypeInv', NEW l \in Cab, NEW r \in Cab, MergePlain(l, r)
  PROVE  Met(cab[l].files, FilNext)' = Met(cab[l].files, FilNext) \o Met(cab[r].files, FilNext)
<1> DEFINE a == Met(cab[l].files, FilNext)
           b == Met(cab[r].files, FilNext)
           last == LastOf(cab[l].files, FilNext)
<1>1. /\ Open(l) /\ Open(r) /\ ~BadArgs(l, r) /\ Attach(l, r)
      /\ file' = [file EXCEPT ![last].next = cab[r].files]
  BY DEF MergePlain, MayJoin
<1>2. /\ FilesOf(l) \cap FilesOf(r) = {} /\ cab'[l].files = cab[l].files
  BY <1>1, JoinableApart
<1>3. /\ cab[l].files \in File /\ Lists(a, cab[l].files, FilNext, File)
      /\ FilesOf(l) = {a[n] : n \in 1..Len(a)}
      /\ \A i, j \in 1..Len(a) : a[i] = a[j] => i = j
      /\ a \in Seq(File) /\ Len(a) \in Nat /\ a[Len(a)] = last
  BY <1>1, FileListMet
<1>4. /\ cab[r].files \in File /\ Lists(b, cab[r].files, FilNext, File)
      /\ FilesOf(r) = {b[n] : n \in 1..Len(b)}
      /\ b \in Seq(File) /\ Len(b) \in Nat
  BY <1>1, FileListMet
<1>5. Links(FilNext', File) /\ file \in [File -> FileObj]
  BY HeapLinksAfter DEF Graph, TypeInv, TypeOK
<1>6. last \in File /\ last \in FilesOf(l)
  BY <1>1, LastsFound, ListFacts
<1> HIDE DEF a, b, last
<1>7. FilNext'[last] = cab[r].files /\ \A f \in File \ {last} : FilNext'[f] = FilNext[f]
  BY <1>1, <1>5, <1>6 DEF FilNext, FileObj
<1>8. \A n \in 1..Len(a) - 1 : FilNext'[a[n]] = FilNext[a[n]]
  <2> TAKE n \in 1..Len(a) - 1
  <2>1. n \in 1..Len(a) /\ Len(a) \in 1..Len(a) /\ n # Len(a) /\ a[n] \in File
    BY <1>3
  <2>2. a[n] # last
    BY <1>3, <2>1
  <2> QED
    BY <1>7, <2>1, <2>2
<1>9. Lists(b, cab[r].files, FilNext', File)
  <2>1. \A n \in 1..Len(b) : b[n] \in FilesOf(r) /\ b[n] \in File
    BY <1>4
  <2>2. \A n \in 1..Len(b) : FilNext'[b[n]] = FilNext[b[n]]
    BY <1>2, <1>6, <1>7, <2>1
  <2> QED
    BY <1>4, <2>2, ListsSame
<1>10. b # <<>>
  BY <1>4 DEF Lists
<1>11. Lists(a \o b, cab[l].files, FilNext', File)
  BY <1>3, <1>4, <1>7, <1>8, <1>9, <1>10, ListsHung
<1>12. Met(cab[l].files, FilNext') = a \o b
  BY <1>3, <1>5, <1>11, OneList
<1> QED
  BY <1>2, <1>12 DEF a, b

\* Joining in a common folder: the files in it are listed by the left set only.
LEMMA JointList ==
  ASSUME Seen, ContinuedFirst, JointsWellFormed, TypeInv', NEW l \in Cab, NEW r \in Cab,
         MergeFolders(l, r)
  PROVE  LET a == Met(cab[l].files, FilNext)
             b == Met(cab[r].files, FilNext)
             t == Cardinality(KeptWith(cab[r].img, Ends))
         IN  Met(cab[l].files, FilNext)' = a \o SubSeq(b, t + 1, Len(b)) /\ t \in 0..Len(b)
<1> DEFINE a == Met(cab[l].files, FilNext)
           b == Met(cab[r].files, FilNext)
           t == Cardinality(KeptWith(cab[r].img, Ends))
           last == LastOf(cab[l].files, FilNext)
           gone == Duplicates(l, r)
           rest == SubSeq(b, t + 1, Len(b))
<1>0. Graph /\ TypeInv
  BY DEF Seen, Ordered, Graph
<1>1. /\ Open(l) /\ Open(r) /\ ~BadArgs(l, r) /\ Attach(l, r)
      /\ file' = [f \in File |->
           IF f \in gone THEN NoFile
           ELSE IF f \in FilesOf(l) \cup FilesOf(r)
             THEN [file[f] EXCEPT !.next = Survivor(IF f = last THEN cab[r].files ELSE @, gone)]
             ELSE file[f]]
  BY DEF MergeFolders, MayJoin
<1>2. /\ FilesOf(l) \cap FilesOf(r) = {} /\ cab'[l].files = cab[l].files
  BY <1>0, <1>1, JoinableApart
<1>3. /\ cab[l].files \in File /\ Lists(a, cab[l].files, FilNext, File)
      /\ FilesOf(l) = {a[n] : n \in 1..Len(a)}
      /\ \A i, j \in 1..Len(a) : a[i] = a[j] => i = j
      /\ a \in Seq(File) /\ Len(a) \in Nat /\ a[Len(a)] = last /\ Links(FilNext, File)
  BY <1>0, <1>1, FileListMet
<1>4. /\ cab[r].files \in File /\ Lists(b, cab[r].files, FilNext, File)
      /\ FilesOf(r) = {b[n] : n \in 1..Len(b)}
      /\ b \in Seq(File) /\ Len(b) \in Nat
  BY <1>0, <1>1, FileListMet
<1>5. t \in 0..Len(b) /\ \A n \in 1..Len(b) : b[n] \in gone <=> n <= t
  BY DuplicatesFirst
<1>6. gone \subseteq FilesOf(r)
  BY <1>0, MergeFoldersFiles
<1>7. Links(FilNext', File) /\ file \in [File -> FileObj]
  BY <1>0, HeapLinksAfter DEF TypeInv, TypeOK
<1>8. /\ rest \in Seq(File) /\ Len(rest) = Len(b) - t
      /\ \A n \in 1..Len(b) - t : rest[n] = b[t + n] /\ t + n \in 1..Len(b)
      /\ rest = <<>> <=> t = Len(b)
  <2> HIDE DEF b, t
  <2> QED
    BY <1>4, <1>5, RestOf
<1>9. last \in FilesOf(l)
  BY <1>0, <1>1, LastsFound
<1> HIDE DEF a, b, t, last, gone
<1>10. /\ b[1] = cab[r].files /\ Len(b) # 0 /\ FilNext[b[Len(b)]] = NULL
       /\ \A n \in 1..Len(b) - 1 : FilNext[b[n]] = b[n + 1]
       /\ \A n \in 1..Len(b) : b[n] \in File /\ b[n] \in FilesOf(r)
  BY <1>4 DEF Lists
<1>11. /\ \A n \in 1..Len(a) - 1 : FilNext[a[n]] = a[n + 1]
       /\ \A n \in 1..Len(a) : a[n] \in File /\ a[n] \in FilesOf(l)
       /\ Len(a) # 0
  BY <1>3 DEF Lists
<1>12. \A f \in (FilesOf(l) \cup FilesOf(r)) \ gone : f \in File =>
         FilNext'[f] = Survivor(IF f = last THEN cab[r].files ELSE FilNext[f], gone)
  BY <1>1, <1>7 DEF FilNext, FileObj
<1>13. /\ Survivor(NULL, gone) = NULL
       /\ \A f \in File : IF f \in gone THEN Survivor(f, gone) = Survivor(FilNext[f], gone)
                                        ELSE Survivor(f, gone) = f
  BY <1>3, SurvivorKeeps
\* What hangs behind the left list is the first file of the right one that stays.
<1> DEFINE first == IF t = Len(b) THEN NULL ELSE b[t + 1]
<1>14. Survivor(cab[r].files, gone) = first
  <2> DEFINE B == {n \in 1..Len(b) : n <= t + 1 /\ Survivor(b[n], gone) # Survivor(b[1], gone)}
  <2>1. B = {}
    <3> SUFFICES ASSUME B # {} PROVE FALSE
      OBVIOUS
    <3>1. B \in SUBSET Nat
      BY <1>4
    <3>2. PICK k \in B : \A j \in B : k <= j
      <4> HIDE DEF B
      <4> QED
        BY <3>1, LeastNumber
    <3>3. k # 1 /\ k \in 1..Len(b) /\ k <= t + 1
      BY <3>2
    <3>4. /\ k - 1 \in 1..Len(b) - 1 /\ k - 1 \in 1..Len(b) /\ (k - 1) + 1 = k /\ ~(k <= k - 1)
          /\ k - 1 <= t /\ k - 1 <= t + 1
      BY <1>4, <1>5, <3>3
    <3>5. Survivor(b[k - 1], gone) = Survivor(b[1], gone)
      BY <3>2, <3>4
    <3>6. Survivor(b[k - 1], gone) = Survivor(b[k], gone)
      BY <1>5, <1>10, <1>13, <3>4
    <3> QED
      BY <3>2, <3>5, <3>6
  <2>2. CASE t = Len(b)
    <3>1. Len(b) \in 1..Len(b) /\ Len(b) <= t + 1 /\ Len(b) <= t
      BY <1>4, <1>10, <2>2
    <3>2. Survivor(b[Len(b)], gone) = NULL
      BY <1>5, <1>10, <1>13, <3>1
    <3> QED
      BY <1>10, <2>1, <2>2, <3>1, <3>2
  <2>3. CASE t # Len(b)
    <3>1. t + 1 \in 1..Len(b) /\ t + 1 <= t + 1 /\ ~(t + 1 <= t)
      BY <1>4, <1>5, <2>3
    <3>2. Survivor(b[t + 1], gone) = b[t + 1]
      BY <1>5, <1>10, <1>13, <3>1
    <3> QED
      BY <1>10, <2>1, <2>3, <3>1, <3>2
  <2> QED
    BY <2>2, <2>3
<1> HIDE DEF first
<1>15. \A n \in 1..Len(a) - 1 : FilNext'[a[n]] = FilNext[a[n]]
  <2> TAKE n \in 1..Len(a) - 1
  <2>1. n \in 1..Len(a) /\ n + 1 \in 1..Len(a) /\ Len(a) \in 1..Len(a) /\ n # Len(a)
    BY <1>3
  <2>2. a[n] # last /\ a[n] \notin gone /\ a[n + 1] \notin gone
    BY <1>2, <1>3, <1>6, <1>11, <2>1
  <2>3. FilNext'[a[n]] = Survivor(a[n + 1], gone)
    BY <1>11, <1>12, <2>1, <2>2
  <2> QED
    BY <1>11, <1>13, <2>1, <2>2, <2>3
<1>16. FilNext'[a[Len(a)]] = first
  <2>1. last \notin gone /\ last \in File
    <3>1. Len(a) \in 1..Len(a)
      BY <1>3, <1>11
    <3> QED
      BY <1>2, <1>3, <1>6, <1>9, <1>11, <3>1
  <2> QED
    BY <1>3, <1>9, <1>12, <1>14, <2>1
<1>17. ASSUME t # Len(b) PROVE Lists(rest, first, FilNext', File)
  <2>1. t \in 0..Len(b) - 1
    BY <1>4, <1>5, <1>17
  <2>2. Lists(rest, b[t + 1], FilNext, File)
    BY <1>4, <2>1, ListsRest
  <2>3. \A n \in 1..Len(rest) : FilNext'[rest[n]] = FilNext[rest[n]]
    <3> TAKE n \in 1..Len(rest)
    <3> DEFINE m == t + n
    <3>1. n \in 1..Len(b) - t
      BY <1>8
    <3>2. m \in 1..Len(b) /\ ~(m <= t) /\ rest[n] = b[m]
      BY <1>5, <1>8, <3>1
    <3> HIDE DEF m, rest
    <3>3. b[m] \notin gone /\ b[m] \in File /\ b[m] \in FilesOf(r) /\ b[m] # last
      BY <1>2, <1>5, <1>9, <1>10, <3>2
    <3>4. FilNext'[b[m]] = Survivor(FilNext[b[m]], gone)
      BY <1>12, <3>3
    <3>5. CASE m = Len(b)
      BY <1>10, <1>13, <3>2, <3>4, <3>5
    <3>6. CASE m # Len(b)
      <4>1. m \in 1..Len(b) - 1 /\ m + 1 \in 1..Len(b) /\ ~(m + 1 <= t)
        BY <1>4, <1>5, <3>2, <3>6
      <4>2. FilNext[b[m]] = b[m + 1] /\ b[m + 1] \notin gone /\ b[m + 1] \in File
        BY <1>5, <1>10, <4>1
      <4> QED
        BY <1>13, <3>2, <3>4, <4>2
    <3> QED
      BY <3>5, <3>6
  <2> HIDE DEF rest
  <2>4. Lists(rest, b[t + 1], FilNext', File)
    BY <2>2, <2>3, ListsSame
  <2> QED
    BY <1>17, <2>4 DEF first
<1> HIDE DEF rest
<1>18. IF rest = <<>> THEN FilNext'[a[Len(a)]] = NULL
                      ELSE Lists(rest, FilNext'[a[Len(a)]], FilNext', File)
  BY <1>8, <1>16, <1>17 DEF first
<1>19. Lists(a \o rest, cab[l].files, FilNext', File)
  BY <1>3, <1>8, <1>15, <1>18, ListsHung
<1>20. Met(cab[l].files, FilNext') = a \o rest
  BY <1>3, <1>7, <1>19, OneList
<1> QED
  BY <1>2, <1>5, <1>20 DEF a, b, t, rest

\* What joining two sets does to their files, whether they have a folder in
\* common or not.
FilesJoined(l, r, t) ==
  LET a == Met(cab[l].files, FilNext)
      b == Met(cab[r].files, FilNext)
  IN  /\ t \in 0..Len(b)
      /\ Met(cab[l].files, FilNext)' = a \o SubSeq(b, t + 1, Len(b))
      /\ \A f \in FilesOf(l) \cup FilesOf(r) : file'[f].live =>
           file[f].live /\ file'[f].key = file[f].key /\ file'[f].folder = file[f].folder
      /\ \A f \in File \ (FilesOf(l) \cup FilesOf(r)) : file'[f] = file[f]
      /\ \A g \in Folder \ (FoldersOf(l) \cup FoldersOf(r)) : folder'[g] = folder[g]

\* The two sets, the cabinet that the left one begins with, and what becomes of it.
LEMMA JoinedHeads ==
  ASSUME Ordered, NEW l \in Cab, NEW r \in Cab, Open(l), Open(r), ~BadArgs(l, r), Attach(l, r)
  PROVE  /\ IsFirst(r)
         /\ \E h \in SetOf(l) :
              /\ h \in Cab /\ IsFirst(h) /\ h # r /\ SetOf(h) = SetOf(l) /\ cab[h].files = cab[l].files
              /\ \A c \in Cab : IsFirst(c)' <=> IsFirst(c) /\ c # r
              /\ \A c \in SetOf(l) \cup SetOf(r) : IsFirst(c) => c \in {h, r}
              /\ \A c \in Cab : Open(c)' <=> Open(c)
<1>0. /\ Graph /\ TypeInv /\ SetsLinked /\ SetsBegin /\ SetSharesLists /\ NULL \notin Cab
      /\ BothWays(NextOf, PrevOf, Cab)
  BY FiniteHeap, SetWays DEF Ordered, Graph
<1>1. IsFirst(r)
  BY DEF IsFirst, BadArgs
<1>2. PICK h \in SetOf(l) : cab[h].prevcab = NULL
  BY <1>0 DEF SetsBegin
<1>3. h \in Cab /\ Open(h) /\ SetOf(h) = SetOf(l) /\ l \in SetOf(h)
  BY <1>0, SetFacts
<1>4. /\ SetOf(l) \cap SetOf(r) = {}
      /\ \A c \in Cab : /\ Open(c)' <=> Open(c)
                        /\ cab'[c].prevcab = IF c = r THEN l ELSE cab[c].prevcab
  BY <1>0, JoinedSets
<1>5. r \in SetOf(r) /\ SetOf(r) \subseteq Cab /\ SetOf(l) \subseteq Cab
  BY <1>0, SetFacts
<1>6. cab[h].files = cab[l].files
  BY <1>0, <1>3 DEF SetSharesLists
<1>7. \A c \in Cab : IsFirst(c)' <=> IsFirst(c) /\ c # r
  <2> TAKE c \in Cab
  <2>1. CASE c = r
    <3>1. cab'[c].prevcab = l
      BY <1>4, <2>1
    <3> QED
      BY <1>0, <2>1, <3>1 DEF IsFirst
  <2>2. CASE c # r
    <3>1. cab'[c].prevcab = cab[c].prevcab /\ (Open(c)' <=> Open(c))
      BY <1>4, <2>2
    <3> QED
      BY <2>2, <3>1 DEF IsFirst
  <2> QED
    BY <2>1, <2>2
<1>8. ASSUME NEW x \in Cab, IsFirst(x), NEW c \in SetOf(x), IsFirst(c) PROVE c = x
  <2>1. PrevOf[x] = NULL /\ c \in Cab
    BY <1>0, <1>8, SetFacts DEF PrevOf, IsFirst
  <2>2. PrevOf[c] = NULL
    BY <1>8, <2>1 DEF PrevOf, IsFirst
  <2>3. c \in Items(x, PrevOf) \cup Items(x, NextOf)
    BY <1>8 DEF SetOf
  <2> QED
    BY <1>0, <2>1, <2>2, <2>3, OneFirst
<1>9. IsFirst(h)
  BY <1>2, <1>3 DEF IsFirst
<1>10. \A c \in SetOf(l) \cup SetOf(r) : IsFirst(c) => c \in {h, r}
  BY <1>1, <1>3, <1>8, <1>9
<1>11. h # r
  BY <1>4, <1>5
<1> QED
  BY <1>1, <1>3, <1>4, <1>6, <1>7, <1>9, <1>10, <1>11

LEMMA JoinOthers ==
  ASSUME Ordered, TypeInv', NEW l \in Cab, NEW r \in Cab, Open(l), Open(r), ~BadArgs(l, r), Attach(l, r),
         NEW t, FilesJoined(l, r, t), NEW c \in Cab, Open(c), c \notin SetOf(l) \cup SetOf(r)
  PROVE  /\ KeySeq(c)' = KeySeq(c)
         /\ Met(cab[c].files, FilNext)' = Met(cab[c].files, FilNext)
         /\ IsFirst(c) => SetFrom(c)' = SetFrom(c)
<1>0. Graph /\ TypeInv /\ SetsLinked
  BY DEF Ordered, Graph
<1>1. /\ cab'[c] = cab[c]
      /\ \A x \in Cab : cab'[x].nextcab = IF x = l THEN r ELSE cab[x].nextcab
  BY <1>0, JoinedSets
<1>2. \A f \in FilesOf(c) : file'[f] = file[f]
  <2>1. /\ \A g \in Folder \ (FoldersOf(l) \cup FoldersOf(r)) : folder'[g] = folder[g]
        /\ \A f \in File \ (FilesOf(l) \cup FilesOf(r)) : file'[f] = file[f]
    BY DEF FilesJoined
  <2> QED
    BY <1>0, <1>1, <2>1, OthersKeepTheirs
<1>3. \A x \in SetOf(c) : x \in Cab /\ x # l
  <2> TAKE x \in SetOf(c)
  <2>1. x \in Cab /\ SetOf(x) = SetOf(c) /\ c \in SetOf(c)
    BY <1>0, SetFacts
  <2> QED
    BY <2>1
<1>4. IsFirst(c) => SetFrom(c)' = SetFrom(c)
  BY <1>0, <1>1, <1>3, SameSet
<1> QED
  BY <1>0, <1>1, <1>2, <1>4, SameFiles

LEMMA JoinSaid ==
  ASSUME Seen, Graph', TypeInv', NEW l \in Cab, NEW r \in Cab, Open(l), Open(r), ~BadArgs(l, r), Attach(l, r),
         NEW t, FilesJoined(l, r, t)
  PROVE  FilesOwned' /\ OwnFirst' /\ CabsReadable'
<1> DEFINE a == Met(cab[l].files, FilNext)
           b == Met(cab[r].files, FilNext)
           both == FilesOf(l) \cup FilesOf(r)
<1>0. /\ Graph /\ Ordered /\ TypeInv /\ SetsLinked /\ FilesOwned /\ OwnFirst /\ CabsReadable
  BY DEF Seen, Ordered, Graph, Said
<1>1. /\ \A c \in Cab : (Open(c)' <=> Open(c)) /\ cab'[c].img = cab[c].img
      /\ \A c \in SetOf(l) \cup SetOf(r) : cab'[c].files = cab[l].files
      /\ \A c \in Cab \ (SetOf(l) \cup SetOf(r)) : cab'[c] = cab[c]
  BY <1>0, JoinedSets
<1>2. /\ t \in 0..Len(b)
      /\ Met(cab[l].files, FilNext)' = a \o SubSeq(b, t + 1, Len(b))
      /\ \A f \in both : file'[f].live =>
           file[f].live /\ file'[f].key = file[f].key /\ file'[f].folder = file[f].folder
      /\ \A f \in File \ both : file'[f] = file[f]
  BY DEF FilesJoined
<1>3. FilesOwned'
  <2> SUFFICES ASSUME NEW f \in File, file'[f].live
               PROVE  /\ Open(f[1])' /\ f[2] \in Kept(cab'[f[1]].img)
                      /\ file'[f].key = ImageFiles[cab'[f[1]].img][f[2]].key
                      /\ file'[f].folder = <<f[1], EntryFolder(cab'[f[1]].img, f[2])>>
    BY DEF FilesOwned
  <2>1. file[f].live /\ file'[f].key = file[f].key /\ file'[f].folder = file[f].folder
    <3> HIDE DEF both
    <3> QED
      BY <1>2
  <2>2. f[1] \in Cab
    BY DEF File
  <2>3. /\ Open(f[1]) /\ f[2] \in Kept(cab[f[1]].img)
        /\ file[f].key = ImageFiles[cab[f[1]].img][f[2]].key
        /\ file[f].folder = <<f[1], EntryFolder(cab[f[1]].img, f[2])>>
    BY <1>0, <2>1 DEF FilesOwned
  <2> QED
    BY <1>1, <2>1, <2>2, <2>3
<1>4. OwnFirst'
  <2> SUFFICES ASSUME NEW c \in Cab, IsFirst(c)'
               PROVE  LET met == Met(cab'[c].files, FilNext')
                          i == cab'[c].img
                      IN  /\ Cardinality(Kept(i)) <= Len(met)
                          /\ \A n \in 1..Cardinality(Kept(i)) : met[n] = <<c, NthKept(i, n)>>
    BY DEF OwnFirst
  <2> DEFINE i == cab[c].img
  <2>1. IsFirst(c) /\ c # r /\ Open(c) /\ cab'[c].img = i
    BY <1>0, <1>1, JoinedHeads DEF IsFirst
  <2>2. /\ Cardinality(Kept(i)) <= Len(Met(cab[c].files, FilNext))
        /\ \A n \in 1..Cardinality(Kept(i)) : Met(cab[c].files, FilNext)[n] = <<c, NthKept(i, n)>>
    BY <1>0, <2>1 DEF OwnFirst
  <2>3. CASE c \notin SetOf(l) \cup SetOf(r)
    <3>1. Met(cab'[c].files, FilNext') = Met(cab[c].files, FilNext)
      BY <1>0, <2>1, <2>3, JoinOthers
    <3> QED
      BY <2>1, <2>2, <3>1
  <2>4. CASE c \in SetOf(l) \cup SetOf(r)
    <3>1. c \in SetOf(l) /\ cab[c].files = cab[l].files
      <4>1. PICK h \in SetOf(l) : /\ cab[h].files = cab[l].files
                                  /\ \A d \in SetOf(l) \cup SetOf(r) : IsFirst(d) => d \in {h, r}
        BY <1>0, JoinedHeads
      <4> QED
        BY <2>1, <2>4, <4>1
    <3> DEFINE met == Met(cab'[c].files, FilNext')
               rest == SubSeq(b, t + 1, Len(b))
    <3>2. cab'[l].files = cab[l].files
      BY <1>0, JoinableApart
    <3>3. met = a \o rest
      BY <1>1, <1>2, <2>4, <3>2
    <3>4. a \in Seq(File) /\ b \in Seq(File)
      BY <1>0, FileListMet
    <3>5. rest \in Seq(File)
      <4> HIDE DEF b
      <4> QED
        BY <1>2, <3>4, RestOf
    <3> HIDE DEF met, rest
    <3>6. /\ Len(a) \in Nat /\ Len(rest) \in Nat /\ Len(met) = Len(a) + Len(rest)
          /\ \A n \in 1..Len(a) : met[n] = a[n]
      <4> HIDE DEF a
      <4> QED
        BY <3>3, <3>4, <3>5, BothSeqs
    <3>7. i \in Image
      <4>1. cab[c] \in Cabinet
        BY <1>0 DEF TypeInv, TypeOK
      <4> QED
        BY <2>1, <4>1 DEF Open, Cabinet
    <3>8. Cardinality(Kept(i)) \in Nat
      BY <3>7, KeptInOrder
    <3>9. /\ Cardinality(Kept(i)) <= Len(a)
          /\ \A n \in 1..Cardinality(Kept(i)) : a[n] = <<c, NthKept(i, n)>>
      BY <2>2, <3>1
    <3> HIDE DEF a, i
    <3>10. /\ Cardinality(Kept(i)) <= Len(met)
           /\ \A n \in 1..Cardinality(Kept(i)) : met[n] = <<c, NthKept(i, n)>>
      BY <3>6, <3>8, <3>9
    <3> QED
      BY <2>1, <3>10 DEF met, i
  <2> QED
    BY <2>3, <2>4
<1>5. CabsReadable'
  BY <1>0, <1>1 DEF CabsReadable
<1> QED
  BY <1>3, <1>4, <1>5

\* The list of an open cabinet, before a step and after it.
HasList(c) ==
  LET met == Met(cab[c].files, FilNext) IN
  /\ FilesOf(c) = {met[n] : n \in 1..Len(met)}
  /\ met \in Seq(File)
  /\ KeySeq(c) = [n \in 1..Len(met) |-> file[met[n]].key]
  /\ \A f \in FilesOf(c) : file[f].live

LEMMA HasListAfter ==
  ASSUME NEW c \in Cab
  PROVE  Graph' /\ Open(c)' => HasList(c)'
<1>1. Graph /\ Open(c) => HasList(c)
  BY FileListMet, ListFacts DEF HasList
<1> QED
  BY <1>1, PTL

\* The keys of a joined list.
LEMMA JoinedKeys ==
  ASSUME Seen, Graph', TypeInv', NEW l \in Cab, NEW r \in Cab, Open(l), Open(r), ~BadArgs(l, r), Attach(l, r),
         NEW t, FilesJoined(l, r, t)
  PROVE  KeySeq(l)' = KeySeq(l) \o SubSeq(KeySeq(r), t + 1, Len(KeySeq(r)))
<1> DEFINE a == Met(cab[l].files, FilNext)
           b == Met(cab[r].files, FilNext)
           met == Met(cab[l].files, FilNext)'
           rest == SubSeq(b, t + 1, Len(b))
           ka == KeySeq(l)
           kb == KeySeq(r)
           krest == SubSeq(kb, t + 1, Len(kb))
           S == Key \cup {NULL}
<1>0. Graph /\ TypeInv
  BY DEF Seen, Ordered, Graph
<1>1. /\ a \in Seq(File) /\ Len(a) \in Nat /\ ka = [n \in 1..Len(a) |-> file[a[n]].key]
      /\ FilesOf(l) = {a[n] : n \in 1..Len(a)}
  BY <1>0, FileListMet
<1>2. /\ b \in Seq(File) /\ Len(b) \in Nat /\ kb = [n \in 1..Len(b) |-> file[b[n]].key]
      /\ FilesOf(r) = {b[n] : n \in 1..Len(b)}
  BY <1>0, FileListMet
<1>3. t \in 0..Len(b) /\ met = a \o rest
  BY DEF FilesJoined
<1>4. /\ FilesOf(l)' = {met[n] : n \in 1..Len(met)}
      /\ KeySeq(l)' = [n \in 1..Len(met) |-> file'[met[n]].key]
      /\ \A f \in FilesOf(l)' : file'[f].live
  <2>1. Open(l)'
    BY <1>0, JoinedSets
  <2> QED
    BY <2>1, HasListAfter DEF HasList
<1>5. \A f \in File : file[f].key \in S
  BY <1>0 DEF TypeInv, TypeOK, FileObj
<1>6. /\ \A f \in FilesOf(l) \cup FilesOf(r) : file'[f].live => file'[f].key = file[f].key
  BY DEF FilesJoined
<1> HIDE DEF a, b, met, ka, kb, S
<1>7. /\ rest \in Seq(File) /\ Len(rest) = Len(b) - t /\ Len(rest) \in Nat
      /\ \A n \in 1..Len(b) - t : rest[n] = b[t + n] /\ t + n \in 1..Len(b)
  <2>1. /\ rest \in Seq(File) /\ Len(rest) = Len(b) - t
        /\ \A n \in 1..Len(b) - t : rest[n] = b[t + n] /\ t + n \in 1..Len(b)
    BY <1>2, <1>3, RestOf
  <2> HIDE DEF rest
  <2> QED
    BY <2>1
<1>8. ka \in Seq(S) /\ Len(ka) = Len(a) /\ kb \in Seq(S) /\ Len(kb) = Len(b)
  <2>1. \A n \in 1..Len(a) : a[n] \in File
    BY <1>1
  <2>2. \A n \in 1..Len(b) : b[n] \in File
    BY <1>2
  <2>3. ka \in [1..Len(a) -> S] /\ kb \in [1..Len(b) -> S]
    BY <1>1, <1>2, <1>5, <2>1, <2>2
  <2> QED
    BY <1>1, <1>2, <2>3
<1>9. /\ krest \in Seq(S) /\ Len(krest) = Len(b) - t
      /\ \A n \in 1..Len(b) - t : krest[n] = kb[t + n]
  <2>1. t \in 0..Len(kb)
    BY <1>3, <1>8
  <2>2. /\ krest \in Seq(S) /\ Len(krest) = Len(kb) - t
        /\ \A n \in 1..Len(kb) - t : krest[n] = kb[t + n]
    BY <1>8, <2>1, RestOf
  <2> HIDE DEF krest
  <2> QED
    BY <1>8, <2>2
<1> HIDE DEF rest, krest
<1>10. /\ Len(met) = Len(a) + (Len(b) - t)
       /\ \A n \in 1..Len(a) : met[n] = a[n]
       /\ \A n \in 1..Len(b) - t : met[Len(a) + n] = rest[n]
       /\ met \in Seq(File)
  <2>1. /\ met \in Seq(File) /\ Len(met) = Len(a) + Len(rest)
        /\ \A n \in 1..Len(a) : met[n] = a[n]
        /\ \A n \in 1..Len(rest) : met[Len(a) + n] = rest[n]
    <3>1. a \in Seq(File) /\ rest \in Seq(File) /\ met = a \o rest
      BY <1>1, <1>3, <1>7
    <3> QED
      BY <3>1, BothSeqs
  <2>2. Len(rest) = Len(b) - t
    BY <1>7
  <2> QED
    BY <2>1, <2>2
<1> DEFINE k == ka \o krest
<1>11. /\ Len(k) = Len(a) + (Len(b) - t)
       /\ \A n \in 1..Len(a) : k[n] = ka[n]
       /\ \A n \in 1..Len(b) - t : k[Len(a) + n] = krest[n]
       /\ k \in Seq(S)
  <2>1. k = ka \o krest
    OBVIOUS
  <2> HIDE DEF k
  <2>2. /\ k \in Seq(S) /\ Len(k) = Len(ka) + Len(krest)
        /\ \A n \in 1..Len(ka) : k[n] = ka[n]
        /\ \A n \in 1..Len(krest) : k[Len(ka) + n] = krest[n]
    <3>1. ka \in Seq(S) /\ krest \in Seq(S) /\ k = ka \o krest
      BY <1>8, <1>9, <2>1
    <3> QED
      BY <3>1, BothSeqs
  <2>3. Len(ka) = Len(a) /\ Len(krest) = Len(b) - t
    BY <1>8, <1>9
  <2> QED
    BY <2>2, <2>3
<1>12. k = [n \in 1..Len(k) |-> k[n]]
  <2> HIDE DEF k
  <2> QED
    BY <1>11, SeqIsFunction
<1> HIDE DEF k
<1>13. ASSUME NEW n \in 1..Len(a) + (Len(b) - t) PROVE file'[met[n]].key = k[n]
  <2>1. n \in 1..Len(met) /\ file'[met[n]].live
    BY <1>4, <1>10
  <2>2. CASE n <= Len(a)
    <3>1. n \in 1..Len(a)
      BY <1>1, <2>2
    <3>2. met[n] = a[n] /\ a[n] \in FilesOf(l) /\ k[n] = file[a[n]].key
      BY <1>1, <1>10, <1>11, <3>1
    <3> QED
      BY <1>6, <2>1, <3>2
  <2>3. CASE ~(n <= Len(a))
    <3> DEFINE m == n - Len(a)
    <3>1. m \in 1..Len(b) - t /\ Len(a) + m = n
      BY <1>1, <1>2, <1>3, <2>3
    <3> HIDE DEF m
    <3>2. t + m \in 1..Len(b) /\ met[n] = b[t + m] /\ k[n] = kb[t + m]
      BY <1>7, <1>9, <1>10, <1>11, <3>1
    <3>3. b[t + m] \in FilesOf(r) /\ kb[t + m] = file[b[t + m]].key
      BY <1>2, <3>2
    <3> QED
      BY <1>6, <2>1, <3>2, <3>3
  <2> QED
    BY <2>2, <2>3
<1>14. KeySeq(l)' = k
  BY <1>4, <1>10, <1>11, <1>12, <1>13
<1> QED
  BY <1>14 DEF k, ka, kb, krest

\* A merge pointer of a part is there exactly if some of its entries are split.
LEMMA FirstWithCount ==
  ASSUME JointsWellFormed, NEW c \in Cab, NEW i \in Image, Readable(i),
         NEW xs, xs \subseteq {FROM_PREV, TO_NEXT, PREV_AND_NEXT}
  PROVE  FirstWith(c, i, xs) = NULL <=> Cardinality(KeptWith(i, xs)) = 0
<1>1. FirstWith(c, i, xs) # NULL => KeptWith(i, xs) # {}
  BY FirstWithKept DEF KeptWith
<1>2. ASSUME KeptWith(i, xs) # {} PROVE FirstWith(c, i, xs) # NULL
  <2> DEFINE ks == {k \in DOMAIN ImageFiles[i] : ImageFiles[i][k].fidx \in xs}
  <2>1. ks # {}
    BY <1>2 DEF KeptWith, Kept
  <2>2. ks \in SUBSET Nat /\ ks \subseteq 1..MaxFiles
    BY ImageType
  <2>3. Least(ks) \in ks
    BY <2>1, <2>2, LeastIsIn
  <2>4. FirstWith(c, i, xs) = <<c, Least(ks)>>
    BY <2>1 DEF FirstWith
  <2>5. <<c, Least(ks)>> \in File
    BY <2>2, <2>3 DEF File
  <2> QED
    BY <2>4, <2>5, FiniteHeap
<1>3. Cardinality(KeptWith(i, xs)) = 0 <=> KeptWith(i, xs) = {}
  <2>1. IsFiniteSet(KeptWith(i, xs))
    <3>1. KeptWith(i, xs) \subseteq Kept(i)
      BY DEF KeptWith
    <3> QED
      BY <3>1, KeptInOrder, FS_Subset
  <2> QED
    BY <2>1, FS_EmptySet
<1> QED
  BY <1>1, <1>2, <1>3

\* At the joint of two sets the merge pointers say what the parts' headers say.
LEMMA JointSays ==
  ASSUME Seen, JointsWellFormed, NEW l \in Cab, NEW r \in Cab, Open(l), Open(r), ~BadArgs(l, r)
  PROVE  /\ folder[LeftFolder(l)].merge_next = NULL <=> ToNext[cab[l].img] = 0
         /\ folder[RightFolder(r)].merge_prev = NULL <=> FromPrev[cab[r].img] = 0
         /\ cab[l].img \in Image /\ cab[r].img \in Image
<1>0. Graph /\ Ordered /\ TypeInv /\ JointsSaid /\ CabsReadable
  BY DEF Seen, Ordered, Graph, Said
<1>1. /\ cab[l].img \in Image /\ Readable(cab[l].img)
      /\ cab[r].img \in Image /\ Readable(cab[r].img)
  <2>1. cab[l] \in Cabinet /\ cab[r] \in Cabinet
    BY <1>0 DEF TypeInv, TypeOK
  <2> QED
    BY <1>0, <2>1 DEF Open, Cabinet, CabsReadable
<1>2. Ends \subseteq {FROM_PREV, TO_NEXT, PREV_AND_NEXT} /\ Begins \subseteq {FROM_PREV, TO_NEXT, PREV_AND_NEXT}
  BY DEF Ends, Begins
<1> DEFINE lf == LeftFolder(l)
<1>3. lf \in Folder /\ folder[lf].live /\ folder[lf].next = NULL
  BY <1>0, LastsFound, ListFacts
<1>4. folder[lf].data[Len(folder[lf].data)] = l
  BY <1>0, <1>3, JointFound
<1>5. folder[lf].merge_next = NULL <=> FirstWith(l, cab[l].img, Begins) = NULL
  BY <1>0, <1>3, <1>4 DEF JointsSaid
<1>6. FirstWith(l, cab[l].img, Begins) = NULL <=> ToNext[cab[l].img] = 0
  <2>1. FirstWith(l, cab[l].img, Begins) = NULL <=> Cardinality(KeptWith(cab[l].img, Begins)) = 0
    BY <1>1, <1>2, FirstWithCount
  <2> QED
    BY <1>1, <2>1 DEF ToNext, Begins
<1>7. RightFolder(r) = <<r, 1>> /\ <<r, 1>> \in Folder /\ folder[<<r, 1>>].live
  <2>1. cab[r].folders = <<r, 1>>
    BY <1>0, JointFound
  <2> QED
    BY <1>0, <2>1, ListFacts DEF RightFolder
<1>8. folder[<<r, 1>>].merge_prev = FirstWith(r, cab[r].img, Ends)
  <2>1. <<r, 1>>[1] = r /\ <<r, 1>>[2] = 1
    OBVIOUS
  <2> QED
    BY <1>0, <1>7, <2>1 DEF JointsSaid
<1>9. FirstWith(r, cab[r].img, Ends) = NULL <=> FromPrev[cab[r].img] = 0
  <2>1. FirstWith(r, cab[r].img, Ends) = NULL <=> Cardinality(KeptWith(cab[r].img, Ends)) = 0
    BY <1>1, <1>2, FirstWithCount
  <2> QED
    BY <1>1, <2>1 DEF FromPrev, Ends
<1> QED
  BY <1>1, <1>5, <1>6, <1>7, <1>8, <1>9

LEMMA PlainJoined ==
  ASSUME Seen, TypeInv', JointsWellFormed, NEW l \in Cab, NEW r \in Cab, MergePlain(l, r)
  PROVE  /\ FilesJoined(l, r, FromPrev[cab[r].img])
         /\ FromPrev[cab[r].img] = 0 /\ ToNext[cab[l].img] = 0
<1> DEFINE b == Met(cab[r].files, FilNext)
<1>0. Graph /\ TypeInv
  BY DEF Seen, Ordered, Graph
<1>1. /\ Open(l) /\ Open(r) /\ ~BadArgs(l, r) /\ Attach(l, r)
      /\ ~NeedsMerge(LeftFolder(l), RightFolder(r))
      /\ folder' = [folder EXCEPT ![LeftFolder(l)].next = RightFolder(r)]
      /\ file' = [file EXCEPT ![LastOf(cab[l].files, FilNext)].next = cab[r].files]
  BY DEF MergePlain, MayJoin
<1>2. FromPrev[cab[r].img] = 0 /\ ToNext[cab[l].img] = 0
  BY <1>1, JointSays DEF NeedsMerge
<1>3. b \in Seq(File) /\ Len(b) \in Nat
  BY <1>0, <1>1, FileListMet
<1>4. SubSeq(b, 0 + 1, Len(b)) = b
  <2> DEFINE s == SubSeq(b, 0 + 1, Len(b))
  <2>1. 0 \in 0..Len(b)
    BY <1>3
  <2>2. s \in Seq(File) /\ Len(s) = Len(b) - 0 /\ \A n \in 1..Len(b) - 0 : s[n] = b[0 + n]
    <3> HIDE DEF b
    <3> QED
      BY <1>3, <2>1, RestOf
  <2> HIDE DEF s, b
  <2>3. Len(s) = Len(b) /\ \A n \in 1..Len(b) : s[n] = b[n]
    BY <1>3, <2>2
  <2>4. s = b
    BY <1>3, <2>2, <2>3
  <2> QED
    BY <2>4 DEF s
<1>5. Met(cab[l].files, FilNext)' = Met(cab[l].files, FilNext) \o b
  BY <1>0, PlainList
<1>6. LeftFolder(l) \in FoldersOf(l) /\ LastOf(cab[l].files, FilNext) \in FilesOf(l)
  BY <1>0, <1>1, LastsFound
<1>7. FilesOf(l) \subseteq File /\ FilesOf(r) \subseteq File
  BY <1>0, <1>1, ListFacts
<1>8. /\ \A f \in File : /\ file'[f].live = file[f].live /\ file'[f].key = file[f].key
                         /\ file'[f].folder = file[f].folder
                         /\ f # LastOf(cab[l].files, FilNext) => file'[f] = file[f]
      /\ \A g \in Folder : g # LeftFolder(l) => folder'[g] = folder[g]
  BY <1>0, <1>1 DEF TypeInv, TypeOK, FileObj, FolderObj
<1> HIDE DEF b
<1>9. FilesJoined(l, r, 0)
  <2>1. 0 \in 0..Len(b)
    BY <1>3
  <2>2. Met(cab[l].files, FilNext)' = Met(cab[l].files, FilNext) \o SubSeq(b, 0 + 1, Len(b))
    BY <1>4, <1>5
  <2>3. \A f \in FilesOf(l) \cup FilesOf(r) : file'[f].live =>
           file[f].live /\ file'[f].key = file[f].key /\ file'[f].folder = file[f].folder
    BY <1>7, <1>8
  <2>4. /\ \A f \in File \ (FilesOf(l) \cup FilesOf(r)) : file'[f] = file[f]
        /\ \A g \in Folder \ (FoldersOf(l) \cup FoldersOf(r)) : folder'[g] = folder[g]
    BY <1>6, <1>8
  <2> QED
    BY <2>1, <2>2, <2>3, <2>4 DEF FilesJoined, b
<1> QED
  BY <1>2, <1>9

LEMMA FoldersJoined ==
  ASSUME Seen, TypeInv', ContinuedFirst, JointsWellFormed, NEW l \in Cab, NEW r \in Cab,
         MergeFolders(l, r)
  PROVE  FilesJoined(l, r, FromPrev[cab[r].img])
<1> DEFINE t == Cardinality(KeptWith(cab[r].img, Ends))
<1>0. Graph /\ TypeInv
  BY DEF Seen, Ordered, Graph
<1>1. Open(l) /\ Open(r) /\ ~BadArgs(l, r)
  BY DEF MergeFolders, MayJoin
<1>2. FromPrev[cab[r].img] = t
  <2>1. cab[r].img \in Image
    BY <1>1, JointSays
  <2> QED
    BY <2>1 DEF FromPrev, Ends
<1> HIDE DEF t
<1>3. /\ t \in 0..Len(Met(cab[r].files, FilNext))
      /\ Met(cab[l].files, FilNext)' = Met(cab[l].files, FilNext)
           \o SubSeq(Met(cab[r].files, FilNext), t + 1, Len(Met(cab[r].files, FilNext)))
  BY JointList DEF t
<1>4. \A f \in FilesOf(l) \cup FilesOf(r) : file'[f].live =>
         file[f].live /\ file'[f].key = file[f].key /\ file'[f].folder = file[f].folder
  BY <1>0, MergeFoldersFiles
<1>5. \A f \in File \ (FilesOf(l) \cup FilesOf(r)) : file'[f] = file[f]
  BY <1>0, MergeFoldersFiles
<1>6. \A g \in Folder \ (FoldersOf(l) \cup FoldersOf(r)) : folder'[g] = folder[g]
  <2>1. /\ LeftFolder(l) \in FoldersOf(l) /\ cab[r].folders \in FoldersOf(r)
        /\ \A g \in Folder \ {LeftFolder(l), cab[r].folders} : folder'[g] = folder[g]
    BY <1>0, MergeFoldersList
  <2> QED
    BY <2>1
<1> QED
  BY <1>2, <1>3, <1>4, <1>5, <1>6 DEF FilesJoined

\* What the merge pointers at the joints say stays true when two sets are joined.
LEMMA PlainSaid ==
  ASSUME Seen, TypeInv', NEW l \in Cab, NEW r \in Cab, MergePlain(l, r)
  PROVE  JointsSaid'
<1>0. Graph /\ Ordered /\ TypeInv /\ JointsSaid
  BY DEF Seen, Ordered, Graph, Said
<1>1. /\ Open(l) /\ Open(r) /\ ~BadArgs(l, r) /\ Attach(l, r)
      /\ folder' = [folder EXCEPT ![LeftFolder(l)].next = RightFolder(r)]
  BY DEF MergePlain, MayJoin
<1>2. \A c \in Cab : cab'[c].img = cab[c].img
  BY <1>0, <1>1, JoinedSets
<1>3. RightFolder(r) # NULL
  BY <1>0, <1>1, LastsFound, FiniteHeap DEF RightFolder
<1>4. \A g \in Folder : /\ folder'[g].live = folder[g].live
                        /\ folder'[g].merge_prev = folder[g].merge_prev
                        /\ folder'[g].merge_next = folder[g].merge_next
                        /\ folder'[g].data = folder[g].data
                        /\ folder'[g].next = NULL => folder[g].next = NULL
  BY <1>0, <1>1, <1>3 DEF TypeInv, TypeOK, FolderObj
<1> SUFFICES ASSUME NEW g \in Folder, folder'[g].live
             PROVE  /\ g[2] = 1 => folder'[g].merge_prev = FirstWith(g[1], cab'[g[1]].img, Ends)
                    /\ folder'[g].next = NULL =>
                         LET x == folder'[g].data[Len(folder'[g].data)]
                         IN  folder'[g].merge_next = NULL <=> FirstWith(x, cab'[x].img, Begins) = NULL
  BY DEF JointsSaid
<1>5. folder[g].live /\ g[1] \in Cab
  BY <1>4 DEF Folder
<1> DEFINE x == folder[g].data[Len(folder[g].data)]
<1>6. x \in Cab
  <2>1. /\ folder[g].data \in Seq(Cab) /\ folder[g].data # <<>>
    BY <1>0, <1>5, LiveParts DEF PartsOf
  <2> QED
    BY <2>1
<1>7. /\ g[2] = 1 => folder[g].merge_prev = FirstWith(g[1], cab[g[1]].img, Ends)
      /\ folder[g].next = NULL => (folder[g].merge_next = NULL <=> FirstWith(x, cab[x].img, Begins) = NULL)
  BY <1>0, <1>5 DEF JointsSaid
<1> QED
  BY <1>2, <1>4, <1>5, <1>6, <1>7

LEMMA FoldersSaid ==
  ASSUME Seen, TypeInv', NEW l \in Cab, NEW r \in Cab, MergeFolders(l, r)
  PROVE  JointsSaid'
<1> DEFINE lf == LeftFolder(l)
           rf == cab[r].folders
           LastPart(g) == folder[g].data[Len(folder[g].data)]
<1>0. Graph /\ Ordered /\ TypeInv /\ JointsSaid /\ MergePointersValid /\ NULL \notin File
  BY FiniteHeap DEF Seen, Ordered, Graph, Said
<1>1. /\ Open(l) /\ Open(r) /\ ~BadArgs(l, r) /\ Attach(l, r)
      /\ CanMergeFolders(lf, rf) /\ RightFolder(r) = rf
  BY DEF MergeFolders, MayJoin, RightFolder
<1>2. \A c \in Cab : cab'[c].img = cab[c].img
  BY <1>0, <1>1, JoinedSets
<1>3. /\ lf \in FoldersOf(l) /\ rf \in FoldersOf(r) /\ lf # rf
      /\ \A g \in Folder \ {lf, rf} : folder'[g] = folder[g]
      /\ folder'[lf].live = folder[lf].live /\ ~folder'[rf].live
      /\ folder'[lf].data = folder[lf].data \o folder[rf].data
      /\ folder'[lf].next = folder[rf].next
  BY <1>0, MergeFoldersList
<1>4. lf \in Folder /\ rf \in Folder /\ folder[lf].live /\ folder[rf].live
  BY <1>0, <1>1, <1>3, ListFacts
<1>5. folder'[lf].merge_prev = folder[lf].merge_prev
      /\ folder'[lf].merge_next = JoinedMergeNext(lf, rf)
  <2> DEFINE new == [folder[lf] EXCEPT !.data = JoinedData(lf, rf),
                             !.blocks = JoinedBlocks(lf, rf),
                             !.merge_next = JoinedMergeNext(lf, rf),
                             !.next = folder[rf].next]
  <2>1. folder' = [folder EXCEPT ![lf] = new, ![rf] = NoFolder]
    BY DEF MergeFolders, RightFolder
  <2>2. new.merge_prev = folder[lf].merge_prev /\ new.merge_next = JoinedMergeNext(lf, rf)
    BY <1>0, <1>4 DEF TypeInv, TypeOK, FolderObj
  <2> HIDE DEF new, rf, lf
  <2>3. folder'[lf] = new
    BY <1>0, <1>3, <1>4, <2>1 DEF TypeInv, TypeOK
  <2> QED
    BY <2>2, <2>3
<1>6. folder'[lf].merge_next = NULL <=> folder[rf].merge_next = NULL
  BY <1>1, <1>5 DEF CanMergeFolders, ComparesFiles, JoinedMergeNext
<1>7. ASSUME NEW g \in Folder, folder[g].live
      PROVE  /\ folder[g].data \in Seq(Cab) /\ folder[g].data # <<>> /\ LastPart(g) \in Cab
             /\ g[1] \in Cab
             /\ g[2] = 1 => folder[g].merge_prev = FirstWith(g[1], cab[g[1]].img, Ends)
             /\ folder[g].next = NULL =>
                  (folder[g].merge_next = NULL <=> FirstWith(LastPart(g), cab[LastPart(g)].img, Begins) = NULL)
  <2>1. /\ folder[g].data \in Seq(Cab) /\ folder[g].data # <<>>
    BY <1>0, <1>7, LiveParts DEF PartsOf
  <2>2. LastPart(g) \in Cab
    BY <2>1
  <2>3. g[1] \in Cab
    BY DEF Folder
  <2> QED
    BY <1>0, <1>7, <2>1, <2>2, <2>3 DEF JointsSaid
<1>8. folder'[lf].data[Len(folder'[lf].data)] = LastPart(rf)
  <2> DEFINE a == folder[lf].data
             b == folder[rf].data
             d == folder'[lf].data
  <2>1. a \in Seq(Cab) /\ b \in Seq(Cab) /\ b # <<>> /\ d = a \o b
    BY <1>3, <1>4, <1>7
  <2> HIDE DEF a, b, d
  <2>2. /\ Len(a) \in Nat /\ Len(b) \in Nat /\ Len(d) = Len(a) + Len(b)
        /\ \A n \in 1..Len(b) : d[Len(a) + n] = b[n]
    BY <2>1, BothSeqs
  <2>3. Len(b) \in 1..Len(b)
    BY <2>1
  <2>4. d[Len(d)] = b[Len(b)]
    BY <2>2, <2>3
  <2> QED
    BY <2>4 DEF b, d
<1> HIDE DEF lf, rf, LastPart
<1> SUFFICES ASSUME NEW g \in Folder, folder'[g].live
             PROVE  /\ g[2] = 1 => folder'[g].merge_prev = FirstWith(g[1], cab'[g[1]].img, Ends)
                    /\ folder'[g].next = NULL =>
                         LET x == folder'[g].data[Len(folder'[g].data)]
                         IN  folder'[g].merge_next = NULL <=> FirstWith(x, cab'[x].img, Begins) = NULL
  BY DEF JointsSaid
<1>9. g # rf
  BY <1>3
<1>10. CASE g = lf
  <2>1. g[2] = 1 => folder'[g].merge_prev = FirstWith(g[1], cab'[g[1]].img, Ends)
    BY <1>2, <1>4, <1>5, <1>7, <1>10
  <2>2. ASSUME folder'[g].next = NULL
        PROVE  folder'[g].merge_next = NULL <=> FirstWith(LastPart(rf), cab'[LastPart(rf)].img, Begins) = NULL
    <3>1. folder[rf].next = NULL
      BY <1>3, <1>10, <2>2
    <3> QED
      BY <1>2, <1>4, <1>6, <1>7, <1>10, <3>1
  <2> QED
    BY <1>8, <1>10, <2>1, <2>2
<1>11. CASE g # lf
  <2>1. folder'[g] = folder[g] /\ folder[g].live
    BY <1>3, <1>9, <1>11
  <2> QED
    BY <1>2, <1>7, <2>1 DEF LastPart
<1> QED
  BY <1>10, <1>11

\* What a merge pointer leads to is in the file list beside its folder.
LEMMA MergeTail ==
  ASSUME Graph, MergePointersValid, NEW c \in Cab, Open(c), NEW g \in FoldersOf(c),
         NEW m \in {folder[g].merge_prev, folder[g].merge_next} \ {NULL}
  PROVE  Items(m, FilNext) \subseteq FilesOf(c)
<1>1. TypeInv /\ NULL \notin File
  BY FiniteHeap DEF Graph
<1>2. g \in Folder /\ folder[g].live
  BY ListFacts
<1>3. m \in File /\ file[m].live /\ file[m].folder = g
  BY <1>1, <1>2 DEF MergePointersValid, TypeInv, TypeOK, FolderObj
<1>4. PICK d \in Cab : Open(d) /\ m \in FilesOf(d)
  BY <1>3, LiveIsListed
<1>5. g \in FoldersOf(d)
  BY <1>3, <1>4 DEF Graph, FilesPointIntoSet
<1>6. FilesOf(d) = FilesOf(c)
  BY <1>4, <1>5, SetsApart
<1>7. Links(FilNext, File) /\ cab[c].files \in File \cup {NULL}
  BY <1>1, HeapLinks, LastsFound
<1> QED
  BY <1>4, <1>6, <1>7, ListTail DEF FilesOf

\* The two lists have a file in common when folders are merged.
LEMMA CommonKey ==
  ASSUME Seen, TypeInv', NEW l \in Cab, NEW r \in Cab, MergeFolders(l, r)
  PROVE  View!Range(KeySeq(l)) \cap View!Range(KeySeq(r)) # {}
<1> DEFINE lf == LeftFolder(l)
           rf == cab[r].folders
<1>0. Graph /\ MergePointersValid
  BY DEF Seen, Ordered
<1>1. Open(l) /\ Open(r) /\ CanMergeFolders(lf, rf)
  BY DEF MergeFolders, MayJoin, RightFolder
<1>2. lf \in FoldersOf(l) /\ rf \in FoldersOf(r)
  BY <1>0, <1>1, LastsFound, ListFacts
<1> HIDE DEF lf, rf
<1>3. PICK x \in Items(folder[lf].merge_next, FilNext), y \in Items(folder[rf].merge_prev, FilNext) :
        file[x].key = file[y].key
  BY <1>1 DEF CanMergeFolders
<1>4. x \in FilesOf(l) /\ y \in FilesOf(r)
  <2>1. folder[lf].merge_next # NULL /\ folder[rf].merge_prev # NULL
    BY <1>1 DEF CanMergeFolders, ComparesFiles
  <2>2. Items(folder[lf].merge_next, FilNext) \subseteq FilesOf(l)
    BY <1>0, <1>1, <1>2, <2>1, MergeTail
  <2>3. Items(folder[rf].merge_prev, FilNext) \subseteq FilesOf(r)
    BY <1>0, <1>1, <1>2, <2>1, MergeTail
  <2> QED
    BY <1>3, <2>2, <2>3
<1>5. ASSUME NEW c \in Cab, Open(c), NEW f \in FilesOf(c) PROVE file[f].key \in View!Range(KeySeq(c))
  <2> DEFINE met == Met(cab[c].files, FilNext)
  <2>1. /\ FilesOf(c) = {met[n] : n \in 1..Len(met)}
        /\ KeySeq(c) = [n \in 1..Len(met) |-> file[met[n]].key]
    BY <1>0, <1>5, FileListMet
  <2> HIDE DEF met
  <2> QED
    BY <1>5, <2>1 DEF View!Range
<1> QED
  BY <1>1, <1>3, <1>4, <1>5

\* The joined set goes on from the left one's last cabinet with the right one.
LEMMA SetJoined ==
  ASSUME Ordered, TypeInv', NEW l \in Cab, NEW r \in Cab, Open(l), Open(r), ~BadArgs(l, r), Attach(l, r),
         NEW h \in Cab, IsFirst(h), SetOf(h) = SetOf(l), IsFirst(r)
  PROVE  /\ SetFrom(h)' = SetFrom(h) \o SetFrom(r)
         /\ SetFrom(h)[Len(SetFrom(h))] = l
<1> DEFINE a == SetFrom(h)
           b == SetFrom(r)
<1>0. Graph /\ TypeInv /\ SetsLinked /\ NULL \notin Cab
  BY FiniteHeap DEF Ordered, Graph
<1>1. /\ Lists(a, h, NextOf, Cab) /\ a \in Seq(Cab) /\ Len(a) \in Nat \ {0}
      /\ SetOf(l) = {a[n] : n \in 1..Len(a)}
  BY <1>0, SetMet
<1>2. /\ Lists(b, r, NextOf, Cab) /\ b \in Seq(Cab) /\ Len(b) \in Nat \ {0}
      /\ SetOf(r) = {b[n] : n \in 1..Len(b)}
  BY <1>0, SetMet
<1>3. l \in SetOf(l) /\ SetOf(l) \cap SetOf(r) = {}
  BY <1>0, SetFacts, JoinedSets
<1>4. \A c \in Cab : cab'[c].nextcab = IF c = l THEN r ELSE cab[c].nextcab
  BY <1>0, JoinedSets
<1>5. NextOf[l] = NULL
  BY DEF NextOf, BadArgs
<1>6. NextOf'[l] = r /\ \A c \in Cab \ {l} : NextOf'[c] = NextOf[c]
  BY <1>4 DEF NextOf
<1> HIDE DEF a, b
<1>7. \A n \in 1..Len(a) - 1 : a[n] \in Cab /\ a[n] # l /\ NextOf'[a[n]] = NextOf[a[n]]
  <2> TAKE n \in 1..Len(a) - 1
  <2>1. n \in 1..Len(a) /\ n + 1 \in 1..Len(a)
    BY <1>1
  <2>2. a[n] \in Cab /\ a[n + 1] \in Cab
    BY <1>1, <2>1
  <2>3. NextOf[a[n]] = a[n + 1]
    BY <1>1 DEF Lists
  <2> QED
    BY <1>0, <1>5, <1>6, <2>2, <2>3
<1>8. a[Len(a)] = l
  <2>1. PICK n \in 1..Len(a) : a[n] = l
    BY <1>1, <1>3
  <2>2. n \notin 1..Len(a) - 1
    BY <1>7, <2>1
  <2>3. n = Len(a)
    BY <1>1, <2>2
  <2> QED
    BY <2>1, <2>3
<1>9. Lists(b, r, NextOf', Cab)
  <2>1. \A n \in 1..Len(b) : b[n] \in SetOf(r) /\ b[n] \in Cab
    BY <1>2
  <2>2. \A n \in 1..Len(b) : NextOf'[b[n]] = NextOf[b[n]]
    BY <1>3, <1>6, <2>1
  <2> QED
    BY <1>2, <2>2, ListsSame
<1>10. b # <<>>
  BY <1>2
<1>11. Lists(a \o b, h, NextOf', Cab)
  <2>1. \A n \in 1..Len(a) - 1 : NextOf'[a[n]] = NextOf[a[n]]
    BY <1>7
  <2>2. Lists(b, NextOf'[a[Len(a)]], NextOf', Cab)
    BY <1>6, <1>8, <1>9
  <2> QED
    BY <1>1, <1>2, <1>10, <2>1, <2>2, ListsHung
<1>12. Links(NextOf', Cab)
  BY HeapLinksAfter
<1>13. Met(h, NextOf') = a \o b
  BY <1>11, <1>12, OneList
<1> QED
  BY <1>8, <1>13 DEF SetFrom, a, b

\* Joining two open cabinets joins the two sets that they are in.
LEMMA JoinJoins ==
  ASSUME Seen, Graph', TypeInv', NEW l \in Cab, NEW r \in Cab, Open(l), Open(r),
         ~BadArgs(l, r), Attach(l, r),
         cab[l].img \in Image, cab[r].img \in Image,
         FilesJoined(l, r, FromPrev[cab[r].img]),
         \/ ToNext[cab[l].img] = 0 /\ FromPrev[cab[r].img] = 0
         \/ /\ ToNext[cab[l].img] # 0 /\ FromPrev[cab[r].img] # 0
            /\ View!Range(KeySeq(l)) \cap View!Range(KeySeq(r)) # {}
  PROVE  View!Next
<1> DEFINE k == FromPrev[cab[r].img]
           joined == KeySeq(l) \o SubSeq(KeySeq(r), k + 1, Len(KeySeq(r)))
<1>0. Graph /\ Ordered /\ TypeInv /\ SetsLinked /\ NULL \notin Cab
  BY FiniteHeap DEF Seen, Ordered, Graph
<1>1. IsFirst(r)
  BY <1>0, JoinedHeads
<1>2. PICK h \in SetOf(l) :
        /\ h \in Cab /\ IsFirst(h) /\ h # r /\ SetOf(h) = SetOf(l) /\ cab[h].files = cab[l].files
        /\ \A c \in Cab : IsFirst(c)' <=> IsFirst(c) /\ c # r
        /\ \A c \in SetOf(l) \cup SetOf(r) : IsFirst(c) => c \in {h, r}
        /\ \A c \in Cab : Open(c)' <=> Open(c)
  BY <1>0, JoinedHeads
<1> DEFINE s == SetFrom(h)
           t == SetFrom(r)
<1>3. SetFrom(h)' = s \o t /\ s[Len(s)] = l
  BY <1>0, <1>1, <1>2, SetJoined
<1>4. /\ s \in Seq(Cab) /\ Len(s) \in Nat \ {0} /\ s[1] = h
      /\ t \in Seq(Cab) /\ Len(t) \in Nat \ {0} /\ t[1] = r
      /\ SetOf(l) = {s[n] : n \in 1..Len(s)}
      /\ SetOf(r) = {t[n] : n \in 1..Len(t)}
  BY <1>0, <1>1, <1>2, SetMet
<1>5. \A c \in Cab : IsFirst(c) => SetFrom(c)[1] = c
  BY <1>0, SetMet
<1>6. \A c \in Cab : IsFirst(c) /\ c \notin {h, r} => SetFrom(c)' = SetFrom(c)
  <2> TAKE c \in Cab
  <2> HAVE IsFirst(c) /\ c \notin {h, r}
  <2>1. c \notin SetOf(l) \cup SetOf(r) /\ Open(c)
    BY <1>2 DEF IsFirst
  <2> QED
    BY <1>0, <2>1, JoinOthers
<1>7. s \in SetsSeen /\ t \in SetsSeen /\ s # t
  BY <1>1, <1>2, <1>4 DEF SetsSeen
<1>8. SetsSeen' = (SetsSeen \ {s, t}) \cup {s \o t}
  <2> DEFINE others == {c \in Cab : IsFirst(c) /\ c \notin {h, r}}
  <2>1. {c \in Cab : IsFirst(c)'} = others \cup {h}
    BY <1>2
  <2>2. SetsSeen' = {SetFrom(c)' : c \in {x \in Cab : IsFirst(x)'}}
    BY DEF SetsSeen
  <2>3. SetsSeen' = {SetFrom(c) : c \in others} \cup {s \o t}
    BY <1>3, <1>6, <2>1, <2>2
  <2>4. \A c \in others : SetFrom(c) # s /\ SetFrom(c) # t
    BY <1>4, <1>5
  <2>5. {c \in Cab : IsFirst(c)} = others \cup {h, r}
    BY <1>1, <1>2
  <2>6. SetsSeen = {SetFrom(c) : c \in others} \cup {s, t}
    BY <2>5 DEF SetsSeen
  <2> QED
    BY <2>3, <2>4, <2>6
<1>9. PartSeen' = PartSeen
  BY <1>0, JoinedSets DEF PartSeen
<1>10. View!Range(s) = SetOf(l) /\ View!Range(t) = SetOf(r)
  <2>1. DOMAIN s = 1..Len(s) /\ DOMAIN t = 1..Len(t)
    BY <1>4
  <2> QED
    BY <1>4, <2>1 DEF View!Range
<1>11. Head(s) = h /\ Head(t) = r /\ s[Len(s)] = l
  BY <1>3, <1>4
<1>12. /\ PartSeen[l] = cab[l].img /\ PartSeen[r] = cab[r].img
       /\ ListingSeen[h] = KeySeq(l) /\ ListingSeen[r] = KeySeq(r)
  <2>1. Open(h) /\ KeySeq(h) = KeySeq(l)
    BY <1>2 DEF IsFirst, KeySeq
  <2> QED
    BY <1>2, <2>1 DEF PartSeen, ListingSeen
<1>13. \A c \in SetOf(l) \cup SetOf(r) : c \in Cab /\ Open(c)' /\ KeySeq(c)' = joined
  <2> TAKE c \in SetOf(l) \cup SetOf(r)
  <2>1. c \in Cab /\ Open(c)
    BY <1>0, SetFacts
  <2>2. cab'[c].files = cab[l].files /\ cab'[l].files = cab[l].files
    BY <1>0, JoinedSets, SetFacts
  <2>3. KeySeq(c)' = KeySeq(l)'
    BY <2>2 DEF KeySeq
  <2>4. KeySeq(l)' = joined
    BY JoinedKeys
  <2> QED
    BY <1>2, <2>1, <2>3, <2>4
<1>14. \A c \in Cab \ (SetOf(l) \cup SetOf(r)) : (Open(c)' <=> Open(c)) /\ (Open(c) => KeySeq(c)' = KeySeq(c))
  <2> TAKE c \in Cab \ (SetOf(l) \cup SetOf(r))
  <2>1. Open(c) => KeySeq(c)' = KeySeq(c)
    BY <1>0, JoinOthers
  <2> QED
    BY <1>2, <2>1
<1> HIDE DEF joined
<1>15. ListingSeen' = [c \in Cab |-> IF c \in SetOf(l) \cup SetOf(r) THEN joined ELSE ListingSeen[c]]
  <2>1. \A c \in Cab : (IF Open(c)' THEN KeySeq(c)' ELSE <<>>)
                         = IF c \in SetOf(l) \cup SetOf(r) THEN joined
                           ELSE IF Open(c) THEN KeySeq(c) ELSE <<>>
    BY <1>13, <1>14
  <2> QED
    BY <2>1 DEF ListingSeen
<1> HIDE DEF s, t, k
<1>16. View!Fits(s, t)
  BY <1>11, <1>12 DEF View!Fits
<1>17. View!Join(s, t)
  <2>1. UNCHANGED PartSeen
    BY <1>9
  <2>2. FromPrev[PartSeen[Head(t)]] = k
    BY <1>11, <1>12 DEF k
  <2>3. joined = ListingSeen[Head(s)] \o SubSeq(ListingSeen[Head(t)], k + 1, Len(ListingSeen[Head(t)]))
    BY <1>11, <1>12 DEF joined
  <2> QED
    BY <1>7, <1>8, <1>10, <1>15, <1>16, <2>1, <2>2, <2>3 DEF View!Join
<1> QED
  BY <1>7, <1>17 DEF View!Next

LEMMA SeenInit == Init => Seen /\ View!Init
<1> SUFFICES ASSUME Init PROVE Seen /\ View!Init
  OBVIOUS
<1>1. /\ \A c \in Cab : ~Open(c) /\ cab[c].img = NULL
      /\ \A g \in Folder : ~folder[g].live
      /\ \A f \in File : ~file[f].live
  BY DEF Init, Open, NoCab, NoFolder, NoFile
<1>2. Ordered /\ MergePointersValid
  BY OrderedInit, SafeInit DEF SafeGraph
<1>3. Said
  BY <1>1 DEF Said, FilesOwned, JointsSaid, OwnFirst, CabsReadable, IsFirst
<1>4. SetsSeen = {}
  BY <1>1 DEF SetsSeen, IsFirst
<1>5. PartSeen = [c \in Cab |-> NULL]
  BY <1>1 DEF PartSeen
<1>6. ListingSeen = [c \in Cab |-> <<>>]
  BY <1>1 DEF ListingSeen
<1> QED
  BY <1>2, <1>3, <1>4, <1>5, <1>6 DEF Seen, View!Init

LEMMA SeenNext ==
  ASSUME ~JoinChains, JointsWellFormed, ContinuedFirst, Seen, [Next]_vars
  PROVE  Seen' /\ [View!Next]_(View!viewVars)
<1>0. /\ Graph /\ Graph' /\ TypeInv /\ TypeInv' /\ Ordered /\ Ordered' /\ Said /\ MergePointersValid
  BY OrderedNext, GraphNext DEF Seen, Ordered, Graph
<1> DEFINE Goal == MergePointersValid' /\ Said' /\ [View!Next]_(View!viewVars)
<1> SUFFICES Goal
  BY <1>0 DEF Seen
<1>1. ASSUME UNCHANGED <<cab, folder, file>> PROVE Goal
  BY <1>0, <1>1, MergeStill, SeenStill DEF View!viewVars
<1>2. ASSUME NEW S, NEW img, NEW succ, Loading(S, img, succ) PROVE Goal
  <2>1. MergePointersValid'
    BY <1>0, <1>2, MergeLoad
  <2>2. Said'
    BY <1>0, <1>2, SeenLoad
  <2>3. [View!Next]_(View!viewVars)
    BY <1>0, <1>2, LoadAdds
  <2> QED
    BY <2>1, <2>2, <2>3
<1>3. ASSUME NEW l \in Cab, NEW r \in Cab, MergePlain(l, r) PROVE Goal
  <2>1. Open(l) /\ Open(r) /\ ~BadArgs(l, r) /\ Attach(l, r)
    BY <1>3 DEF MergePlain, MayJoin
  <2>2. /\ FilesJoined(l, r, FromPrev[cab[r].img])
        /\ FromPrev[cab[r].img] = 0 /\ ToNext[cab[l].img] = 0
    BY <1>0, <1>3, PlainJoined
  <2>3. cab[l].img \in Image /\ cab[r].img \in Image
    BY <2>1, JointSays
  <2>4. MergePointersValid'
    BY <1>0, <1>3, MergePlainKeeps
  <2>5. Said'
    BY <1>0, <1>3, <2>1, <2>2, JoinSaid, PlainSaid DEF Said
  <2>6. View!Next
    BY <1>0, <2>1, <2>2, <2>3, JoinJoins
  <2> QED
    BY <2>4, <2>5, <2>6
<1>4. ASSUME NEW l \in Cab, NEW r \in Cab, MergeFolders(l, r) PROVE Goal
  <2>1. Open(l) /\ Open(r) /\ ~BadArgs(l, r) /\ Attach(l, r)
    BY <1>4 DEF MergeFolders, MayJoin
  <2>2. FilesJoined(l, r, FromPrev[cab[r].img])
    BY <1>0, <1>4, FoldersJoined
  <2>3. /\ cab[l].img \in Image /\ cab[r].img \in Image
        /\ ToNext[cab[l].img] # 0 /\ FromPrev[cab[r].img] # 0
    <3>1. folder[LeftFolder(l)].merge_next # NULL /\ folder[RightFolder(r)].merge_prev # NULL
      BY <1>4 DEF MergeFolders, CanMergeFolders, ComparesFiles
    <3> QED
      BY <2>1, <3>1, JointSays
  <2>4. View!Range(KeySeq(l)) \cap View!Range(KeySeq(r)) # {}
    BY <1>0, <1>4, CommonKey
  <2>5. MergePointersValid'
    BY <1>0, <1>4, MergeMerge
  <2>6. Said'
    BY <1>0, <1>4, <2>1, <2>2, JoinSaid, FoldersSaid DEF Said
  <2>7. View!Next
    BY <1>0, <2>1, <2>2, <2>3, <2>4, JoinJoins
  <2> QED
    BY <2>5, <2>6, <2>7
<1>5. ASSUME NEW c \in Cab, Close(c) PROVE Goal
  <2>1. MergePointersValid'
    BY <1>0, <1>5, MergeClose
  <2>2. Said'
    BY <1>0, <1>5, SeenClose
  <2>3. [View!Next]_(View!viewVars)
    BY <1>0, <1>5, CloseDrops
  <2> QED
    BY <2>1, <2>2, <2>3
<1> HIDE DEF Goal
<1>6. ASSUME NEW c \in Cab, NEW i \in Image, OpenCab(c, i) PROVE Goal
  BY <1>2, <1>6, OpenLoads
<1>7. ASSUME NEW c \in Cab, NEW d \in Cab, NEW i \in Image, NEW j \in Image, Search(c, d, i, j)
      PROVE  Goal
  BY <1>2, <1>7, SearchLoads
<1>8. ASSUME NEW c \in Cab, NEW i \in Image, NEW n \in 0..MaxFolders, NEW k \in 0..MaxFiles,
             OpenFails(c, i, n, k)
      PROVE  Goal
  <2>0. n \in Nat /\ k \in Nat
    BY ImageType
  <2> QED
    BY <1>0, <1>1, <1>8, <2>0, OpenFailsStill
<1>9. ASSUME NEW l \in Cab, NEW r \in Cab, MergeRejected(l, r) PROVE Goal
  BY <1>1, <1>9 DEF MergeRejected
<1>10. ASSUME NEW f \in File, ExtractRefused(f) PROVE Goal
  BY <1>1, <1>10 DEF ExtractRefused
<1>11. ASSUME NEW f \in File, ExtractRestart(f) PROVE Goal
  BY <1>1, <1>11 DEF ExtractRestart
<1>12. ASSUME NEW f \in File, ExtractOnwards(f) PROVE Goal
  BY <1>1, <1>12 DEF ExtractOnwards
<1>13. CASE UNCHANGED vars
  BY <1>1, <1>13 DEF vars
<1> QED
  BY <1>3, <1>4, <1>5, <1>6, <1>7, <1>8, <1>9, <1>10, <1>11, <1>12, <1>13 DEF Next

\* Whatever the caller opens, searches, joins, extracts and closes, the sets and
\* the file lists that it can walk are those of CabSetView: no pointer work of
\* cabd_merge, cabd_close or the header reader shows.
THEOREM SetsImplementView ==
  ASSUME ~JoinChains, JointsWellFormed, ContinuedFirst
  PROVE  Spec => ImplementsView
<1>1. Init => Seen /\ View!Init
  BY SeenInit
<1>2. Seen /\ [Next]_vars => Seen' /\ [View!Next]_(View!viewVars)
  BY SeenNext
<1> QED
  BY <1>1, <1>2, PTL DEF Spec, ImplementsView, View!Spec
=============================================================================

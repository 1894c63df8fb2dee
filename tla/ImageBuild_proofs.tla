-------------------------- MODULE ImageBuild_proofs --------------------------
(***************************************************************************)
(* How an image is built: that a build reports the image of its own         *)
(* manifest, whoever builds beside it, and that the image is the tree the   *)
(* manifest names, whatever the host does meanwhile.  All of it for any     *)
(* builds, file trees, manifests, tags and bounds.                          *)
(*                                                                          *)
(* The folds of the model are first given their meaning: resolving a path   *)
(* enters one element after the other (RealEnters), a directory's entries   *)
(* come before what was left to walk (EntriesAre), and the last layer that  *)
(* has a file for a place decides it (FilesAre).  Then comes what a removed *)
(* file can change: a path means what it meant, or the file and now nothing *)
(* (Remains).  While a build walks its layers (Staging), every item leads   *)
(* where its name does, every file copied is what its key means, and a file *)
(* of the tree is copied or below an item; when the walk is over the COPY   *)
(* lines therefore make the whole tree (Whole).  The last part carries that *)
(* through the steps of the builds and of the host (OwnTrees, Recipes).        *)
(***************************************************************************)
EXTENDS ImageBuild, SequenceTheorems, FiniteSetTheorems, WellFoundedInduction, TLAPS

(***************************************************************************)
(* Induction over the naturals, from the library's theorem that < is       *)
(* well-founded.                                                           *)
(***************************************************************************)
NatLess == {ss \in Nat \X Nat : ss[1] < ss[2]}

LEMMA Least ==
    ASSUME NEW T, T \subseteq Nat, T # {}
    PROVE  \E x \in T : \A y \in T : x <= y
  <1>1. IsWellFoundedOn(NatLess, Nat)
    BY NatLessThanWellFounded, Zenon DEF OpToRel, NatLess
  <1>2. \E x \in T : \A y \in T : <<y, x>> \notin NatLess
    BY <1>1, WFMin
  <1>3. PICK x \in T : \A y \in T : <<y, x>> \notin NatLess BY <1>2
  <1>4. ASSUME NEW y \in T PROVE x <= y
    <2>1. <<y, x>> \in Nat \X Nat /\ <<y, x>> \notin NatLess BY <1>3
    <2>2. ~(y < x) BY <2>1 DEF NatLess
    <2> QED BY <2>2
  <1> QED BY <1>4

LEMMA Induction ==
    ASSUME NEW S, 0 \in S, \A n \in Nat : n \in S => n + 1 \in S
    PROVE  Nat \subseteq S
  <1> DEFINE T == Nat \ S
  <1>1. SUFFICES ASSUME T # {} PROVE FALSE OBVIOUS
  <1>2. PICK x \in T : \A y \in T : x <= y BY <1>1, Least
  <1>3. x - 1 \in Nat BY <1>2
  <1> QED BY <1>2, <1>3

-----------------------------------------------------------------------------
(***************************************************************************)
(* Paths.  What a name means depends on the tree and on what is gone from  *)
(* it; the operators below say so with the two as parameters, so that the  *)
(* meaning before a step and the one after it can be compared.             *)
(***************************************************************************)
EnterIn(T, G, p, name) ==
    LET q == Append(p, name) IN
    IF p = Nowhere \/ q \notin DOMAIN T \ G THEN Nowhere
    ELSE IF T[q].type = "link" THEN IF T[q].to \in DOMAIN T \ G THEN T[q].to ELSE Nowhere
    ELSE q

BelowIn(T, G, root, p, name) ==
    LET q == EnterIn(T, G, p, name) IN
    IF \/ q = Nowhere
       \/ name = ".git" /\ T[Append(p, name)].type = "dir"
       \/ q # Append(p, name) /\ ~IsPrefix(root, q)
    THEN Nowhere ELSE q

Descends(f, T, G, root, rel) ==
    f = [n \in 0 .. Len(rel) |->
            IF n = 0 THEN root ELSE BelowIn(T, G, root, f[n - 1], rel[n])]

MeansIn(T, G, root, rel) == (CHOOSE f : Descends(f, T, G, root, rel))[Len(rel)]

LEMMA EnterIs ==
    ASSUME NEW p, NEW name
    PROVE  Enter(p, name) = EnterIn(tree, gone, p, name)
  BY DEF Enter, EnterIn, There, Is

LEMMA MeansIs ==
    ASSUME NEW layer, NEW rel
    PROVE  Means(layer, rel) = MeansIn(tree, gone, layer.from, rel)
  <1>1. \A root, p, name : Below(root, p, name) = BelowIn(tree, gone, root, p, name)
    BY EnterIs DEF Below, BelowIn
  <1> QED BY <1>1 DEF Means, MeansIn, Descends

LEMMA DescentExists ==
    ASSUME NEW T, NEW G, NEW root, NEW rel
    PROVE  \A m \in Nat : \E f : f = [n \in 0 .. m |->
                IF n = 0 THEN root ELSE BelowIn(T, G, root, f[n - 1], rel[n])]
  <1> DEFINE Def(f, m) == f = [n \in 0 .. m |->
                    IF n = 0 THEN root ELSE BelowIn(T, G, root, f[n - 1], rel[n])]
             S == {m \in Nat : \E f : Def(f, m)}
  <1>1. 0 \in S
    <2> DEFINE f == [n \in 0 .. 0 |-> root]
    <2>1. f = [n \in 0 .. 0 |->
                IF n = 0 THEN root ELSE BelowIn(T, G, root, f[n - 1], rel[n])]
      <3>1. \A n \in 0 .. 0 : n = 0 OBVIOUS
      <3> QED BY <3>1
    <2> HIDE DEF f
    <2> QED BY <2>1
  <1>2. ASSUME NEW m \in Nat, m \in S PROVE m + 1 \in S
    <2>1. PICK f : Def(f, m) BY <1>2
    <2> DEFINE g == [n \in 0 .. m + 1 |->
                        IF n = m + 1 THEN BelowIn(T, G, root, f[m], rel[m + 1]) ELSE f[n]]
    <2>2. ASSUME NEW n \in 0 .. m PROVE g[n] = f[n] OBVIOUS
    <2>3. ASSUME NEW n \in 0 .. m + 1
          PROVE  g[n] = IF n = 0 THEN root ELSE BelowIn(T, G, root, g[n - 1], rel[n])
      <3>1. CASE n = m + 1
        <4>1. n # 0 /\ n - 1 = m /\ m \in 0 .. m BY <3>1
        <4>2. g[n] = BelowIn(T, G, root, f[m], rel[n]) BY <3>1
        <4>3. g[m] = f[m] BY <2>2, <4>1
        <4> HIDE DEF g
        <4> QED BY <4>1, <4>2, <4>3
      <3>2. CASE n # m + 1
        <4>1. n \in 0 .. m BY <3>2
        <4>2. g[n] = f[n] BY <2>2, <4>1
        <4>3. f[n] = IF n = 0 THEN root ELSE BelowIn(T, G, root, f[n - 1], rel[n])
          BY <2>1, <4>1
        <4>4. n # 0 => g[n - 1] = f[n - 1]
          <5>1. n # 0 => n - 1 \in 0 .. m BY <4>1
          <5> QED BY <2>2, <5>1
        <4> HIDE DEF g
        <4> QED BY <4>2, <4>3, <4>4
      <3> QED BY <3>1, <3>2
    <2>4. g = [n \in 0 .. m + 1 |-> g[n]] OBVIOUS
    <2> HIDE DEF g
    <2>5. Def(g, m + 1) BY <2>3, <2>4
    <2> QED BY <2>5
  <1>3. Nat \subseteq S
    <2> HIDE DEF S
    <2> QED BY <1>1, <1>2, Induction
  <1> QED BY <1>3

\* The nodes on the way down.
Way(f, T, G, root, rel) ==
    /\ f[0] = root
    /\ \A n \in 1 .. Len(rel) : f[n] = BelowIn(T, G, root, f[n - 1], rel[n])

LEMMA WayIsUnique ==
    ASSUME NEW T, NEW G, NEW root, NEW rel, NEW r, Len(rel) \in Nat, Len(r) \in Nat,
           NEW f, NEW g, Way(f, T, G, root, rel), Way(g, T, G, root, r),
           NEW k \in 0 .. Len(rel), k <= Len(r), \A i \in 1 .. k : r[i] = rel[i]
    PROVE  f[k] = g[k]
  <1> DEFINE S == {n \in Nat : n <= k => f[n] = g[n]}
  <1>1. 0 \in S BY DEF Way
  <1>2. ASSUME NEW n \in Nat, n \in S PROVE n + 1 \in S
    <2>1. SUFFICES ASSUME n + 1 <= k PROVE f[n + 1] = g[n + 1] OBVIOUS
    <2>2. n + 1 \in 1 .. Len(rel) /\ n + 1 \in 1 .. Len(r) /\ (n + 1) - 1 = n
            /\ n + 1 \in 1 .. k
      BY <2>1
    <2>3. f[n + 1] = BelowIn(T, G, root, f[n], rel[n + 1]) BY <2>2 DEF Way
    <2>4. g[n + 1] = BelowIn(T, G, root, g[n], r[n + 1]) BY <2>2 DEF Way
    <2>5. f[n] = g[n] BY <1>2, <2>1
    <2>6. r[n + 1] = rel[n + 1] BY <2>2
    <2> QED BY <2>3, <2>4, <2>5, <2>6
  <1>3. Nat \subseteq S
    <2> HIDE DEF S
    <2> QED BY <1>1, <1>2, Induction
  <1> QED BY <1>3

LEMMA MeansDescends ==
    ASSUME NEW T, NEW G, NEW root, NEW rel, Len(rel) \in Nat
    PROVE  \E f : Way(f, T, G, root, rel) /\ MeansIn(T, G, root, rel) = f[Len(rel)]
  <1> DEFINE f == CHOOSE f : Descends(f, T, G, root, rel)
  <1>1. Descends(f, T, G, root, rel) BY DescentExists DEF Descends
  <1>2. MeansIn(T, G, root, rel) = f[Len(rel)] BY DEF MeansIn
  <1> HIDE DEF f
  <1>3. \A n \in 0 .. Len(rel) :
            f[n] = IF n = 0 THEN root ELSE BelowIn(T, G, root, f[n - 1], rel[n])
    BY <1>1 DEF Descends
  <1>4. f[0] = root BY <1>3
  <1>5. \A n \in 1 .. Len(rel) : f[n] = BelowIn(T, G, root, f[n - 1], rel[n]) BY <1>3
  <1> QED BY <1>2, <1>4, <1>5 DEF Way

LEMMA MeansAt ==
    ASSUME NEW T, NEW G, NEW root, NEW N, NEW rel \in Seq(N), NEW f, Way(f, T, G, root, rel),
           NEW k \in 0 .. Len(rel)
    PROVE  MeansIn(T, G, root, SubSeq(rel, 1, k)) = f[k]
  <1>1. PICK r : r = SubSeq(rel, 1, k) OBVIOUS
  <1>2. Len(r) = k /\ Len(rel) \in Nat /\ k \in Nat /\ \A i \in 1 .. k : r[i] = rel[i]
    BY <1>1
  <1>3. PICK g : Way(g, T, G, root, r) /\ MeansIn(T, G, root, r) = g[Len(r)]
    BY <1>2, MeansDescends
  <1>4. Way(g, T, G, root, r) BY <1>3
  <1>5. k <= Len(r) /\ Len(r) \in Nat BY <1>2
  <1>6. f[k] = g[k]
    <2>1. Len(rel) \in Nat /\ Len(r) \in Nat /\ k <= Len(r) BY <1>2
    <2>2. \A i \in 1 .. k : r[i] = rel[i] BY <1>2
    <2> QED BY <2>1, <2>2, <1>4, WayIsUnique
  <1> QED BY <1>1, <1>2, <1>3, <1>6

FilesOf(T) == {p \in DOMAIN T : T[p].type = "file"}

\* Nothing below a name, and one name further.
LEMMA MeansOfNothing ==
    ASSUME NEW T, NEW G, NEW root
    PROVE  MeansIn(T, G, root, << >>) = root
  <1>1. PICK f : Way(f, T, G, root, << >>) /\ MeansIn(T, G, root, << >>) = f[Len(<< >>)]
    BY MeansDescends
  <1> QED BY <1>1 DEF Way

LEMMA MeansOfAppend ==
    ASSUME NEW T, NEW G, NEW root, NEW N, NEW rel \in Seq(N), NEW name \in N
    PROVE  MeansIn(T, G, root, Append(rel, name))
              = BelowIn(T, G, root, MeansIn(T, G, root, rel), name)
  <1>1. PICK r : r = Append(rel, name) OBVIOUS
  <1>2. /\ r \in Seq(N) /\ Len(r) = Len(rel) + 1 /\ Len(rel) \in Nat
        /\ SubSeq(r, 1, Len(rel)) = rel /\ r[Len(rel) + 1] = name
    <2>1. r \in Seq(N) /\ Len(rel) \in Nat BY <1>1, AppendProperties
    <2>2. Len(r) = Len(rel) + 1 /\ r[Len(rel) + 1] = name BY <1>1, AppendProperties
    <2>3. SubSeq(r, 1, Len(rel)) = rel BY <1>1, AppendProperties
    <2> QED BY <2>1, <2>2, <2>3
  <1>3. PICK f : Way(f, T, G, root, r) /\ MeansIn(T, G, root, r) = f[Len(r)]
    BY <1>2, MeansDescends
  <1>4. Len(rel) \in 0 .. Len(r) /\ Len(r) \in 1 .. Len(r) /\ Len(r) - 1 = Len(rel) BY <1>2
  <1>5. MeansIn(T, G, root, rel) = f[Len(rel)]
    <2>1. MeansIn(T, G, root, SubSeq(r, 1, Len(rel))) = f[Len(rel)]
      BY <1>2, <1>3, <1>4, MeansAt
    <2> QED BY <1>2, <2>1
  <1>6. f[Len(r)] = BelowIn(T, G, root, f[Len(rel)], name)
    BY <1>2, <1>3, <1>4 DEF Way
  <1> QED BY <1>1, <1>3, <1>5, <1>6

\* Below nothing there is nothing.
LEMMA NowhereStays ==
    ASSUME NEW T, NEW G, NEW root, NEW rel, Len(rel) \in Nat, NEW f, Way(f, T, G, root, rel),
           NEW k \in 0 .. Len(rel), f[k] = Nowhere
    PROVE  f[Len(rel)] = Nowhere
  <1> DEFINE S == {d \in Nat : k + d <= Len(rel) => f[k + d] = Nowhere}
  <1>1. 0 \in S OBVIOUS
  <1>2. ASSUME NEW d \in Nat, d \in S PROVE d + 1 \in S
    <2>1. SUFFICES ASSUME k + (d + 1) <= Len(rel) PROVE f[k + (d + 1)] = Nowhere OBVIOUS
    <2>2. k + (d + 1) \in 1 .. Len(rel) /\ (k + (d + 1)) - 1 = k + d BY <2>1
    <2>3. f[k + (d + 1)] = BelowIn(T, G, root, f[k + d], rel[k + (d + 1)])
      BY <2>2 DEF Way
    <2>4. f[k + d] = Nowhere BY <1>2, <2>1
    <2> QED BY <2>3, <2>4 DEF BelowIn, EnterIn
  <1>3. Nat \subseteq S
    <2> HIDE DEF S
    <2> QED BY <1>1, <1>2, Induction
  <1>4. Len(rel) - k \in Nat /\ k + (Len(rel) - k) = Len(rel) OBVIOUS
  <1>5. Len(rel) - k \in S BY <1>3, <1>4
  <1> QED BY <1>4, <1>5

LEMMA AppendFront ==
    ASSUME NEW S, NEW p \in Seq(S), NEW name
    PROVE  /\ Front(Append(p, name)) = p /\ Last(Append(p, name)) = name
           /\ Append(p, name) # << >>
  <1> DEFINE N == S \cup {name}
  <1>1. p \in Seq(N) /\ name \in N BY SeqMonotonic
  <1> HIDE DEF N
  <1>2. PICK q : q = Append(p, name) OBVIOUS
  <1>3. q \in Seq(N) /\ q # << >> /\ Len(q) = Len(p) + 1 /\ q[Len(p) + 1] = name
          /\ Len(p) \in Nat
    BY <1>1, <1>2, AppendProperties
  <1>4. \A i \in 1 .. Len(p) : q[i] = p[i] BY <1>1, <1>2, AppendProperties
  <1>5. Len(q) - 1 = Len(p) BY <1>3
  <1>6. SubSeq(q, 1, Len(p)) = p
    <2>1. SubSeq(q, 1, Len(p)) \in Seq(N) /\ Len(SubSeq(q, 1, Len(p))) = Len(p)
      BY <1>3
    <2>2. \A i \in 1 .. Len(p) : SubSeq(q, 1, Len(p))[i] = p[i] BY <1>3, <1>4
    <2> QED BY <1>1, <2>1, <2>2, SeqEqual
  <1> QED BY <1>2, <1>3, <1>5, <1>6 DEF Front, Last

\* Only a directory has something below it.
LEMMA NothingBelow ==
    ASSUME NEW T, FileTree(T), NEW p \in DOMAIN T, T[p].type # "dir", NEW name
    PROVE  Append(p, name) \notin DOMAIN T
  <1>1. p \in Seq(STRING) BY DEF FileTree
  <1>2. Front(Append(p, name)) = p /\ Append(p, name) # << >> BY <1>1, AppendFront
  <1> QED BY <1>2 DEF FileTree

\* When a file goes, what was that file is nothing, and all else is what it was.
Remains(x, before, after) == after = before \/ (before = x /\ after = Nowhere)

LEMMA EnterRemains ==
    ASSUME NEW T, FileTree(T), NEW G, NEW x \in FilesOf(T),
           NEW p, NEW q, Remains(x, p, q), NEW name
    PROVE  /\ Remains(x, EnterIn(T, G, p, name), EnterIn(T, G \cup {x}, q, name))
           /\ q # p => EnterIn(T, G, p, name) = Nowhere
  <1>1. T[x].type = "file" /\ x \in DOMAIN T BY DEF FilesOf
  <1>2. CASE q = p
    <2> DEFINE e == Append(p, name)
    <2>1. CASE p = Nowhere \/ e \notin DOMAIN T \ G
      BY <1>2, <2>1 DEF Remains, EnterIn
    <2>2. CASE p # Nowhere /\ e \in DOMAIN T \ G /\ T[e].type = "link"
      <3>1. e # x BY <1>1, <2>2
      <3> HIDE DEF e
      <3>2. CASE T[e].to = x BY <1>2, <2>2, <3>1, <3>2 DEF Remains, EnterIn, e
      <3>3. CASE T[e].to # x BY <1>2, <2>2, <3>1, <3>3 DEF Remains, EnterIn, e
      <3> QED BY <3>2, <3>3
    <2>3. CASE p # Nowhere /\ e \in DOMAIN T \ G /\ T[e].type # "link"
      <3> HIDE DEF e
      <3>1. CASE e = x BY <1>2, <2>3, <3>1 DEF Remains, EnterIn, e
      <3>2. CASE e # x BY <1>2, <2>3, <3>2 DEF Remains, EnterIn, e
      <3> QED BY <3>1, <3>2
    <2> QED BY <1>2, <2>1, <2>2, <2>3
  <1>3. CASE p = x /\ q = Nowhere
    <2>1. Append(p, name) \notin DOMAIN T BY <1>1, <1>3, NothingBelow
    <2>2. EnterIn(T, G, p, name) = Nowhere BY <2>1 DEF EnterIn
    <2>3. EnterIn(T, G \cup {x}, q, name) = Nowhere BY <1>3 DEF EnterIn
    <2> QED BY <2>2, <2>3 DEF Remains
  <1> QED BY <1>2, <1>3 DEF Remains

LEMMA BelowRemains ==
    ASSUME NEW T, FileTree(T), NEW G, NEW x \in FilesOf(T), NEW root,
           NEW p, NEW q, Remains(x, p, q), NEW name
    PROVE  Remains(x, BelowIn(T, G, root, p, name), BelowIn(T, G \cup {x}, root, q, name))
  <1>1. /\ Remains(x, EnterIn(T, G, p, name), EnterIn(T, G \cup {x}, q, name))
        /\ q # p => EnterIn(T, G, p, name) = Nowhere
    BY EnterRemains
  <1> QED BY <1>1 DEF Remains, BelowIn

LEMMA MeansRemains ==
    ASSUME NEW T, FileTree(T), NEW G, NEW x \in FilesOf(T), NEW root,
           NEW rel, Len(rel) \in Nat
    PROVE  Remains(x, MeansIn(T, G, root, rel), MeansIn(T, G \cup {x}, root, rel))
  <1>1. PICK f : Way(f, T, G, root, rel) /\ MeansIn(T, G, root, rel) = f[Len(rel)]
    BY MeansDescends
  <1>2. PICK g : /\ Way(g, T, G \cup {x}, root, rel)
                 /\ MeansIn(T, G \cup {x}, root, rel) = g[Len(rel)]
    BY MeansDescends
  <1> DEFINE S == {n \in Nat : n <= Len(rel) => Remains(x, f[n], g[n])}
  <1>3. 0 \in S BY <1>1, <1>2 DEF Way, Remains
  <1>4. ASSUME NEW n \in Nat, n \in S PROVE n + 1 \in S
    <2>1. SUFFICES ASSUME n + 1 <= Len(rel) PROVE Remains(x, f[n + 1], g[n + 1]) OBVIOUS
    <2>2. n + 1 \in 1 .. Len(rel) /\ (n + 1) - 1 = n BY <2>1
    <2>3. f[n + 1] = BelowIn(T, G, root, f[n], rel[n + 1]) BY <1>1, <2>2 DEF Way
    <2>4. g[n + 1] = BelowIn(T, G \cup {x}, root, g[n], rel[n + 1]) BY <1>2, <2>2 DEF Way
    <2>5. Remains(x, f[n], g[n]) BY <1>4, <2>1
    <2> QED BY <2>3, <2>4, <2>5, BelowRemains
  <1>5. Nat \subseteq S
    <2> HIDE DEF S
    <2> QED BY <1>3, <1>4, Induction
  <1> QED BY <1>1, <1>2, <1>5

-----------------------------------------------------------------------------
(***************************************************************************)
(* Folds.  A fold over a finite set, the next element picked by a function, *)
(* has one value, and a fold over a sequence takes its elements in order.   *)
(***************************************************************************)
Folded(g, D, base, Op, pick) ==
    \A I \in SUBSET D :
        g[I] = IF I = {} THEN base ELSE Op[<<pick[I], g[I \ {pick[I]}]>>]

LEMMA FoldExists ==
    ASSUME NEW D, IsFiniteSet(D), NEW A, NEW base \in A, NEW Op \in [D \X A -> A],
           NEW pick, \A I \in SUBSET D : I # {} => pick[I] \in I
    PROVE  \E g \in [SUBSET D -> A] : Folded(g, D, base, Op, pick)
  <1> DEFINE Small(n) == {I \in SUBSET D : Cardinality(I) <= n}
             Good(g, n) == /\ g \in [Small(n) -> A]
                           /\ \A I \in Small(n) : g[I] =
                                IF I = {} THEN base ELSE Op[<<pick[I], g[I \ {pick[I]}]>>]
             S == {n \in Nat : \E g : Good(g, n)}
  <1>1. \A I \in SUBSET D : IsFiniteSet(I) /\ Cardinality(I) \in Nat
    BY FS_Subset, FS_CardinalityType
  <1>2. 0 \in S
    <2> DEFINE g == [I \in Small(0) |-> base]
    <2>1. \A I \in Small(0) : I = {}
      <3>1. \A I \in Small(0) : Cardinality(I) = 0 BY <1>1
      <3> QED BY <1>1, <3>1, FS_EmptySet
    <2>2. Good(g, 0) BY <2>1
    <2> HIDE DEF g
    <2> QED BY <2>2
  <1>3. ASSUME NEW n \in Nat, n \in S PROVE n + 1 \in S
    <2>1. PICK g : Good(g, n) BY <1>3
    <2>2. ASSUME NEW I \in Small(n + 1), I # {}
          PROVE  pick[I] \in D /\ I \ {pick[I]} \in Small(n)
      <3>a. I \in SUBSET D OBVIOUS
      <3>1. pick[I] \in I BY <2>2, <3>a
      <3>2. Cardinality(I \ {pick[I]}) = Cardinality(I) - 1
        BY <1>1, <3>1, FS_RemoveElement
      <3>3. Cardinality(I) \in Nat /\ Cardinality(I) <= n + 1 BY <1>1
      <3> QED BY <3>1, <3>2, <3>3
    <2> DEFINE h == [I \in Small(n + 1) |->
                        IF I = {} THEN base ELSE Op[<<pick[I], g[I \ {pick[I]}]>>]]
    <2>3. ASSUME NEW I \in Small(n) PROVE I \in Small(n + 1) /\ h[I] = g[I]
      <3>1. I \in Small(n + 1) BY <1>1
      <3>2. h[I] = IF I = {} THEN base ELSE Op[<<pick[I], g[I \ {pick[I]}]>>] BY <3>1
      <3>3. g[I] = IF I = {} THEN base ELSE Op[<<pick[I], g[I \ {pick[I]}]>>] BY <2>1
      <3> QED BY <3>1, <3>2, <3>3
    <2>4. ASSUME NEW I \in Small(n + 1)
          PROVE  /\ h[I] = IF I = {} THEN base ELSE Op[<<pick[I], h[I \ {pick[I]}]>>]
                 /\ h[I] \in A
      <3>1. h[I] = IF I = {} THEN base ELSE Op[<<pick[I], g[I \ {pick[I]}]>>] OBVIOUS
      <3>2. CASE I = {} BY <3>1, <3>2
      <3>3. CASE I # {}
        <4>1. pick[I] \in D /\ I \ {pick[I]} \in Small(n) BY <2>2, <3>3
        <4>2. h[I \ {pick[I]}] = g[I \ {pick[I]}] BY <2>3, <4>1
        <4>3. g[I \ {pick[I]}] \in A BY <2>1, <4>1
        <4>4. <<pick[I], g[I \ {pick[I]}]>> \in D \X A BY <4>1, <4>3
        <4> HIDE DEF h
        <4>5. Op[<<pick[I], g[I \ {pick[I]}]>>] \in A BY <4>4
        <4> QED BY <3>1, <3>3, <4>2, <4>5
      <3> QED BY <3>2, <3>3
    <2>5. h = [I \in Small(n + 1) |-> h[I]] OBVIOUS
    <2> HIDE DEF h
    <2>6. Good(h, n + 1)
      <3>1. \A I \in Small(n + 1) : h[I] \in A BY <2>4
      <3>2. \A I \in Small(n + 1) :
                h[I] = IF I = {} THEN base ELSE Op[<<pick[I], h[I \ {pick[I]}]>>]
        BY <2>4
      <3> HIDE DEF Small
      <3>3. h \in [Small(n + 1) -> A] BY <2>5, <3>1
      <3> QED BY <3>2, <3>3
    <2> HIDE DEF Good
    <2> QED BY <2>6
  <1>4. Nat \subseteq S
    <2> HIDE DEF S
    <2> QED BY <1>2, <1>3, Induction
  <1>5. Cardinality(D) \in Nat BY FS_CardinalityType
  <1>6. Small(Cardinality(D)) = SUBSET D
    <2>1. \A I \in SUBSET D : Cardinality(I) <= Cardinality(D) BY FS_Subset
    <2> QED BY <2>1
  <1>7. PICK g : Good(g, Cardinality(D)) BY <1>4, <1>5
  <1>8. g \in [SUBSET D -> A] BY <1>6, <1>7
  <1>9. Folded(g, D, base, Op, pick) BY <1>6, <1>7 DEF Folded
  <1> QED BY <1>8, <1>9

LEMMA MaxOf ==
    ASSUME NEW n \in Nat, NEW I \in SUBSET (1 .. n), I # {}
    PROVE  Max(I) \in I /\ \A y \in I : y <= Max(I)
  <1> DEFINE Bounds == {m \in Nat : \A y \in I : y <= m}
  <1>1. n \in Bounds OBVIOUS
  <1>2. PICK m \in Bounds : \A k \in Bounds : m <= k BY <1>1, Least
  <1>3. m \in I
    <2>1. SUFFICES ASSUME m \notin I PROVE FALSE OBVIOUS
    <2>2. PICK y \in I : TRUE OBVIOUS
    <2>3. m \in Nat /\ y <= m /\ y >= 1 BY <1>2, <2>2
    <2>4. m - 1 \in Nat BY <2>3
    <2>5. \A z \in I : z <= m - 1
      <3> TAKE z \in I
      <3>1. z <= m /\ z # m /\ z \in Nat BY <1>2, <2>1
      <3> QED BY <2>3, <3>1
    <2>6. m - 1 \in Bounds BY <2>4, <2>5
    <2>7. m <= m - 1 BY <1>2, <2>6
    <2> QED BY <2>3, <2>7
  <1>4. \A y \in I : m >= y BY <1>2
  <1> HIDE DEF Bounds
  <1>5. Max(I) \in I /\ \A y \in I : Max(I) >= y BY <1>3, <1>4 DEF Max
  <1> QED BY <1>5

\* The largest index is taken first, so the elements are used in their order.
Largest(n) == [I \in SUBSET (1 .. n) |-> Max(I)]

LEMMA MaxUpTo ==
    ASSUME NEW n \in Nat, NEW k \in 1 .. n
    PROVE  Max(1 .. k) = k
  <1>1. 1 .. k \in SUBSET (1 .. n) /\ k \in 1 .. k OBVIOUS
  <1>2. Max(1 .. k) \in 1 .. k /\ \A y \in 1 .. k : y <= Max(1 .. k) BY <1>1, MaxOf
  <1>3. k <= Max(1 .. k) BY <1>1, <1>2
  <1> QED BY <1>2, <1>3

-----------------------------------------------------------------------------
(***************************************************************************)
(* filepath.EvalSymlinks: one element entered after the other.              *)
(***************************************************************************)
Resolves(g, T, G, p) ==
    g = [I \in SUBSET DOMAIN p |->
            IF I = {} THEN << >> ELSE EnterIn(T, G, g[I \ {Max(I)}], p[Max(I)])]

RealIn(T, G, p) == (CHOOSE g : Resolves(g, T, G, p))[DOMAIN p]

LEMMA RealIs ==
    ASSUME NEW p
    PROVE  Real(p) = RealIn(tree, gone, p)
  <1>1. \A q, name : Enter(q, name) = EnterIn(tree, gone, q, name) BY EnterIs
  <1> QED BY <1>1 DEF Real, FoldLeft, MapThenFoldSet, RealIn, Resolves

\* The nodes that are entered.
Enters(f, T, G, p) ==
    /\ f[0] = << >>
    /\ \A k \in 1 .. Len(p) : f[k] = EnterIn(T, G, f[k - 1], p[k])

LEMMA EnterInTree ==
    ASSUME NEW T, FileTree(T), NEW G, NEW p, NEW name
    PROVE  LET q == EnterIn(T, G, p, name) IN
           q = Nowhere \/ (q \in DOMAIN T \ G /\ T[q].type # "link")
  BY DEF EnterIn, FileTree

LEMMA RealEnters ==
    ASSUME NEW T, FileTree(T), NEW G, NEW N, NEW p \in Seq(N)
    PROVE  \E f : Enters(f, T, G, p) /\ RealIn(T, G, p) = f[Len(p)]
  <1> DEFINE n == Len(p)
             D == 1 .. n
             A == DOMAIN T \cup {Nowhere}
             Op == [x \in D \X A |-> EnterIn(T, G, x[2], p[x[1]])]
  <1>1. n \in Nat /\ DOMAIN p = D OBVIOUS
  <1>2. << >> \in A BY DEF FileTree
  <1>3. Op \in [D \X A -> A]
    <2>1. \A x \in D \X A : EnterIn(T, G, x[2], p[x[1]]) \in A BY EnterInTree
    <2> QED BY <2>1
  <1>4. \A I \in SUBSET D : I # {} => Largest(n)[I] \in I BY <1>1, MaxOf DEF Largest
  <1>5. IsFiniteSet(D) BY <1>1, FS_Interval
  <1> HIDE DEF Op, n
  <1>6. PICK g \in [SUBSET D -> A] : Folded(g, D, << >>, Op, Largest(n))
    BY <1>2, <1>3, <1>4, <1>5, FoldExists
  <1>7. Resolves(g, T, G, p)
    <2>1. ASSUME NEW I \in SUBSET D
          PROVE  g[I] = IF I = {} THEN << >> ELSE EnterIn(T, G, g[I \ {Max(I)}], p[Max(I)])
      <3>1. CASE I = {} BY <1>6, <3>1 DEF Folded
      <3>2. CASE I # {}
        <4>1. Largest(n)[I] = Max(I) /\ Max(I) \in D BY <1>1, <1>4, <3>2 DEF Largest
        <4>2. g[I] = Op[<<Max(I), g[I \ {Max(I)}]>>] BY <1>6, <3>2, <4>1 DEF Folded
        <4>3. g[I \ {Max(I)}] \in A BY <1>6
        <4>4. Op[<<Max(I), g[I \ {Max(I)}]>>] = EnterIn(T, G, g[I \ {Max(I)}], p[Max(I)])
          BY <4>1, <4>3 DEF Op
        <4> QED BY <3>2, <4>2, <4>4
      <3> QED BY <3>1, <3>2
    <2>2. g = [I \in SUBSET D |-> g[I]] OBVIOUS
    <2> QED BY <1>1, <2>1, <2>2 DEF Resolves
  <1> DEFINE c == CHOOSE g1 : Resolves(g1, T, G, p)
  <1>8. Resolves(c, T, G, p) /\ RealIn(T, G, p) = c[D] BY <1>1, <1>7 DEF RealIn
  <1> HIDE DEF c
  <1> DEFINE f == [k \in 0 .. n |-> c[1 .. k]]
  <1>9. ASSUME NEW k \in 1 .. n PROVE f[k] = EnterIn(T, G, f[k - 1], p[k])
    <2>1. 1 .. k \in SUBSET D /\ k \in 1 .. k /\ k \in 0 .. n BY <1>1
    <2>5. k - 1 \in 0 .. n BY <1>1
    <2>2. Max(1 .. k) = k BY <1>1, MaxUpTo
    <2>3. (1 .. k) \ {k} = 1 .. k - 1 BY <1>1
    <2>4. c[1 .. k] = EnterIn(T, G, c[1 .. k - 1], p[k])
      BY <1>1, <1>8, <2>1, <2>2, <2>3 DEF Resolves
    <2> QED BY <1>1, <2>1, <2>4, <2>5
  <1>10. f[0] = << >>
    <2>1. 1 .. 0 = {} /\ 0 \in 0 .. n BY <1>1
    <2>2. c[{}] = << >> BY <1>8 DEF Resolves
    <2> QED BY <2>1, <2>2
  <1>11. f[n] = RealIn(T, G, p) BY <1>1, <1>8
  <1> HIDE DEF f
  <1> QED BY <1>9, <1>10, <1>11 DEF Enters, n

\* What a path leads to is there or nowhere, and no link.
LEMMA RealInTree ==
    ASSUME NEW T, FileTree(T), NEW G, NEW N, NEW p \in Seq(N)
    PROVE  \/ RealIn(T, G, p) = Nowhere
           \/ RealIn(T, G, p) \in DOMAIN T /\ T[RealIn(T, G, p)].type # "link"
  <1>1. PICK f : Enters(f, T, G, p) /\ RealIn(T, G, p) = f[Len(p)] BY RealEnters
  <1>2. Len(p) \in Nat OBVIOUS
  <1>3. CASE Len(p) = 0
    <2>1. f[Len(p)] = << >> BY <1>1, <1>3 DEF Enters
    <2>2. T[<< >>].type # "link" /\ << >> \in DOMAIN T BY DEF FileTree
    <2> QED BY <1>1, <2>1, <2>2
  <1>4. CASE Len(p) # 0
    <2>1. Len(p) \in 1 .. Len(p) BY <1>2, <1>4
    <2>2. f[Len(p)] = EnterIn(T, G, f[Len(p) - 1], p[Len(p)]) BY <1>1, <2>1 DEF Enters
    <2> QED BY <1>1, <2>2, EnterInTree
  <1> QED BY <1>3, <1>4

LEMMA RealRemains ==
    ASSUME NEW T, FileTree(T), NEW G, NEW x \in FilesOf(T), NEW N, NEW p \in Seq(N)
    PROVE  Remains(x, RealIn(T, G, p), RealIn(T, G \cup {x}, p))
  <1>1. PICK f : Enters(f, T, G, p) /\ RealIn(T, G, p) = f[Len(p)] BY RealEnters
  <1>2. PICK g : Enters(g, T, G \cup {x}, p) /\ RealIn(T, G \cup {x}, p) = g[Len(p)]
    BY RealEnters
  <1>3. Len(p) \in Nat OBVIOUS
  <1> DEFINE S == {n \in Nat : n <= Len(p) => Remains(x, f[n], g[n])}
  <1>4. 0 \in S BY <1>1, <1>2 DEF Enters, Remains
  <1>5. ASSUME NEW n \in Nat, n \in S PROVE n + 1 \in S
    <2>1. SUFFICES ASSUME n + 1 <= Len(p) PROVE Remains(x, f[n + 1], g[n + 1]) OBVIOUS
    <2>2. n + 1 \in 1 .. Len(p) /\ (n + 1) - 1 = n BY <1>3, <2>1
    <2>3. f[n + 1] = EnterIn(T, G, f[n], p[n + 1]) BY <1>1, <2>2 DEF Enters
    <2>4. g[n + 1] = EnterIn(T, G \cup {x}, g[n], p[n + 1]) BY <1>2, <2>2 DEF Enters
    <2>5. Remains(x, f[n], g[n]) BY <1>3, <1>5, <2>1
    <2> QED BY <2>3, <2>4, <2>5, EnterRemains
  <1>6. Nat \subseteq S
    <2> HIDE DEF S
    <2> QED BY <1>4, <1>5, Induction
  <1> QED BY <1>1, <1>2, <1>3, <1>6

-----------------------------------------------------------------------------
(***************************************************************************)
(* The layers of a plan: where each goes, in the context and in the image,  *)
(* is settled when the modules have been resolved.                          *)
(***************************************************************************)
Names == STRING \cup {"src", Last(<< >>)}
Spots == {"src", "modules"} \X Nat \X Names
Layer(T) == [from : DOMAIN T \cup {Nowhere}, to : Seq(Names), at : Spots]

SourceLayer(T, G, source, i) ==
    [from |-> RealIn(T, G, source.from), to |-> source.to,
     at |-> <<"src", i, Last(source.from)>>]

ModuleLayer(T, G, from, i) ==
    LET real == RealIn(T, G, from) IN
    [from |-> real, to |-> <<"src", Last(real)>>, at |-> <<"modules", i, Last(real)>>]

LEMMA LayerFields ==
    ASSUME NEW T, NEW G, NEW source, NEW i
    PROVE  /\ SourceLayer(T, G, source, i).from = RealIn(T, G, source.from)
           /\ SourceLayer(T, G, source, i).to = source.to
           /\ SourceLayer(T, G, source, i).at = <<"src", i, Last(source.from)>>
           /\ SourceLayer(T, G, source, i).at[1] = "src"
           /\ SourceLayer(T, G, source, i).at[2] = i
           /\ ModuleLayer(T, G, source, i).from = RealIn(T, G, source)
           /\ ModuleLayer(T, G, source, i).at[1] = "modules"
           /\ ModuleLayer(T, G, source, i).at[2] = i
  BY DEF SourceLayer, ModuleLayer

LayersIn(T, G, m) ==
    [i \in DOMAIN m.sources |-> SourceLayer(T, G, m.sources[i], i)]
    \o [i \in DOMAIN m.modules |-> ModuleLayer(T, G, m.modules[i], i)]

LEMMA LayersIs ==
    ASSUME NEW m
    PROVE  Layers(m) = LayersIn(tree, gone, m)
  BY RealIs DEF Layers, LayersIn, SourceLayer, ModuleLayer

\* What Load accepts, and the removal of files leaves.
Standing(T, G, m) ==
    \A i \in DOMAIN m.modules :
        LET real == RealIn(T, G, m.modules[i]) IN real \in DOMAIN T /\ T[real].type = "dir"

LEMMA LastIsName ==
    ASSUME NEW p \in Seq(STRING)
    PROVE  Last(p) \in Names
  <1> DEFINE S == STRING
  <1>1. p \in Seq(S) OBVIOUS
  <1>2. CASE p = << >> BY <1>2 DEF Names
  <1>3. CASE p # << >>
    <2> HIDE DEF S
    <2>1. Len(p) \in 1 .. Len(p) BY <1>1, <1>3, EmptySeq
    <2>2. p[Len(p)] \in S BY <1>1, <2>1, ElementOfSeq
    <2> QED BY <2>2 DEF Last, Names, S
  <1> QED BY <1>2, <1>3

LEMMA PairIsSeq ==
    ASSUME NEW N, NEW a \in N, NEW b \in N
    PROVE  <<a, b>> \in Seq(N)
  OBVIOUS

Composed(T, G, m, L) ==
    /\ Len(m.sources) \in Nat /\ Len(m.modules) \in Nat
    /\ L \in Seq(Layer(T)) /\ Len(L) = Len(m.sources) + Len(m.modules)
    /\ \A i \in 1 .. Len(m.sources) : L[i] = SourceLayer(T, G, m.sources[i], i)
    /\ \A i \in 1 .. Len(m.modules) :
            L[Len(m.sources) + i] = ModuleLayer(T, G, m.modules[i], i)

LEMMA LayersAre ==
    ASSUME NEW T, FileTree(T), NEW G, NEW m, Written(m),
           Standing(T, G, m)
    PROVE  Composed(T, G, m, LayersIn(T, G, m))
  <1> DEFINE n == Len(m.sources)
             k == Len(m.modules)
             S == STRING
             Sources == [i \in 1 .. n |-> SourceLayer(T, G, m.sources[i], i)]
             Modules == [i \in 1 .. k |-> ModuleLayer(T, G, m.modules[i], i)]
  <1>1. /\ m.sources \in Seq([from : Seq(S), to : Seq(S)])
        /\ m.modules \in Seq(Seq(S))
    BY DEF Written
  <1>2. n \in Nat /\ k \in Nat /\ DOMAIN m.sources = 1 .. n /\ DOMAIN m.modules = 1 .. k
    <2> HIDE DEF S
    <2> QED BY <1>1, LenProperties
  <1>3. ASSUME NEW i \in 1 .. n PROVE SourceLayer(T, G, m.sources[i], i) \in Layer(T)
    <2>1. m.sources[i] \in [from : Seq(S), to : Seq(S)] BY <1>1, ElementOfSeq
    <2>2. m.sources[i].from \in Seq(S) /\ m.sources[i].to \in Seq(S) BY <2>1
    <2>3. Last(m.sources[i].from) \in Names BY <2>2, LastIsName
    <2>4. m.sources[i].to \in Seq(Names)
      <3>1. S \subseteq Names BY DEF Names
      <3> HIDE DEF S
      <3> QED BY <2>2, <3>1, SeqMonotonic
    <2>5. RealIn(T, G, m.sources[i].from) \in DOMAIN T \cup {Nowhere} BY <2>2, RealInTree
    <2>6. i \in Nat BY <1>2
    <2>7. <<"src", i, Last(m.sources[i].from)>> \in Spots BY <2>3, <2>6 DEF Spots
    <2> QED BY <2>4, <2>5, <2>7 DEF SourceLayer, Layer
  <1>4. ASSUME NEW i \in 1 .. k PROVE ModuleLayer(T, G, m.modules[i], i) \in Layer(T)
    <2> DEFINE real == RealIn(T, G, m.modules[i])
    <2>1. real \in DOMAIN T BY <1>2 DEF Standing
    <2>2. real \in Seq(STRING) BY <2>1 DEF FileTree
    <2>3. Last(real) \in Names BY <2>2, LastIsName
    <2>4. <<"src", Last(real)>> \in Seq(Names)
      <3>1. "src" \in Names BY DEF Names
      <3> QED BY <2>3, <3>1, PairIsSeq
    <2>5. i \in Nat BY <1>2
    <2>6. <<"modules", i, Last(real)>> \in Spots BY <2>3, <2>5 DEF Spots
    <2> QED BY <2>1, <2>4, <2>6 DEF ModuleLayer, Layer
  <1>5. Sources \in Seq(Layer(T)) /\ Len(Sources) = n
    <2>1. Sources \in [1 .. n -> Layer(T)] BY <1>3
    <2> HIDE DEF Sources, n
    <2> QED BY <1>2, <2>1, SeqDef
  <1>6. Modules \in Seq(Layer(T)) /\ Len(Modules) = k
    <2>1. Modules \in [1 .. k -> Layer(T)] BY <1>4
    <2> HIDE DEF Modules, k
    <2> QED BY <1>2, <2>1, SeqDef
  <1>7. LayersIn(T, G, m) = Sources \o Modules BY <1>2 DEF LayersIn
  <1>8. \A i \in 1 .. n : Sources[i] = SourceLayer(T, G, m.sources[i], i) OBVIOUS
  <1>9. \A i \in 1 .. k : Modules[i] = ModuleLayer(T, G, m.modules[i], i) OBVIOUS
  <1> HIDE DEF Sources, Modules, n, k
  <1>10. /\ Sources \o Modules \in Seq(Layer(T)) /\ Len(Sources \o Modules) = n + k
         /\ \A i \in 1 .. n + k : (Sources \o Modules)[i] =
                IF i <= n THEN Sources[i] ELSE Modules[i - n]
    BY <1>5, <1>6, ConcatProperties
  <1>11. ASSUME NEW i \in 1 .. n PROVE (Sources \o Modules)[i] = Sources[i]
    <2>1. i \in 1 .. n + k /\ i <= n BY <1>2
    <2> QED BY <1>10, <2>1
  <1>12. ASSUME NEW i \in 1 .. k PROVE (Sources \o Modules)[n + i] = Modules[i]
    <2>1. n + i \in 1 .. n + k /\ ~(n + i <= n) /\ (n + i) - n = i BY <1>2
    <2> QED BY <1>10, <2>1
  <1> QED BY <1>2, <1>7, <1>8, <1>9, <1>10, <1>11, <1>12 DEF n, k, Composed

\* A build's layers are those of a plan made now, but for what they copy from.
Fit(T, G, m, layers) ==
    /\ layers \in Seq(Layer(T))
    /\ \A i \in 1 .. Len(layers) :
            layers[i].from \in DOMAIN T /\ T[layers[i].from].type # "link"
    /\ \A i, j \in 1 .. Len(layers) : layers[i].at = layers[j].at => i = j
    /\ LayersIn(T, G, m) \in Seq(Layer(T)) /\ Len(LayersIn(T, G, m)) = Len(layers)
    /\ \A i \in 1 .. Len(layers) :
            /\ LayersIn(T, G, m)[i].to = layers[i].to
            /\ LayersIn(T, G, m)[i].at = layers[i].at

LEMMA LayersApart ==
    ASSUME NEW T, FileTree(T), NEW G, NEW m, Written(m),
           Standing(T, G, m),
           NEW i \in 1 .. Len(LayersIn(T, G, m)), NEW j \in 1 .. Len(LayersIn(T, G, m)),
           LayersIn(T, G, m)[i].at = LayersIn(T, G, m)[j].at
    PROVE  i = j
  <1> DEFINE n == Len(m.sources)
             k == Len(m.modules)
             L == LayersIn(T, G, m)
  <1>a. Composed(T, G, m, L) BY LayersAre
  <1> HIDE DEF L
  <1>1. /\ n \in Nat /\ k \in Nat /\ Len(L) = n + k
        /\ \A h \in 1 .. n : L[h] = SourceLayer(T, G, m.sources[h], h)
        /\ \A h \in 1 .. k : L[n + h] = ModuleLayer(T, G, m.modules[h], h)
    BY <1>a DEF Composed
  <1> HIDE DEF n, k
  <1>2. \A h \in 1 .. n : L[h].at[1] = "src" /\ L[h].at[2] = h
    BY <1>1, LayerFields
  <1>3. \A h \in 1 .. k : L[n + h].at[1] = "modules" /\ L[n + h].at[2] = h
    BY <1>1, LayerFields
  <1>4. ASSUME NEW h \in 1 .. Len(L)
        PROVE  \/ h \in 1 .. n /\ L[h].at[1] = "src" /\ L[h].at[2] = h
               \/ L[h].at[1] = "modules" /\ L[h].at[2] = h - n
    <2>1. CASE h <= n
      <3>1. h \in 1 .. n BY <1>1, <2>1
      <3> QED BY <1>2, <3>1
    <2>2. CASE h > n
      <3> HIDE DEF n, k, L
      <3>1. h - n \in 1 .. k /\ n + (h - n) = h BY <1>1, <2>2
      <3>2. L[n + (h - n)].at[1] = "modules" /\ L[n + (h - n)].at[2] = h - n BY <1>3, <3>1
      <3> QED BY <3>1, <3>2
    <2> HIDE DEF n, L
    <2> QED BY <1>1, <2>1, <2>2
  <1> HIDE DEF n, k, L
  <1>5. i \in 1 .. Len(L) /\ j \in 1 .. Len(L) /\ L[i].at = L[j].at BY DEF L
  <1>6. "src" # "modules" OBVIOUS
  <1> QED BY <1>1, <1>4, <1>5, <1>6

LEMMA PlanFits ==
    ASSUME NEW T, FileTree(T), NEW G, NEW m, Written(m),
           Standing(T, G, m),
           \A i \in DOMAIN LayersIn(T, G, m) : LayersIn(T, G, m)[i].from \in DOMAIN T \ G
    PROVE  Fit(T, G, m, LayersIn(T, G, m))
  <1> DEFINE n == Len(m.sources)
             k == Len(m.modules)
             L == LayersIn(T, G, m)
             S == STRING
  <1>a. Composed(T, G, m, L) BY LayersAre
  <1>b. \A i \in DOMAIN L : L[i].from \in DOMAIN T \ G OBVIOUS
  <1>c. \A i, j \in 1 .. Len(L) : L[i].at = L[j].at => i = j BY LayersApart
  <1> HIDE DEF L
  <1>1. /\ n \in Nat /\ k \in Nat /\ L \in Seq(Layer(T)) /\ Len(L) = n + k
        /\ \A h \in 1 .. n : L[h] = SourceLayer(T, G, m.sources[h], h)
        /\ \A h \in 1 .. k : L[n + h] = ModuleLayer(T, G, m.modules[h], h)
    BY <1>a DEF Composed
  <1>2. m.sources \in Seq([from : Seq(S), to : Seq(S)]) /\ m.modules \in Seq(Seq(S))
    BY DEF Written
  <1>3. Nowhere \notin DOMAIN T BY DEF FileTree
  <1>4. ASSUME NEW i \in 1 .. Len(L) PROVE L[i].from \in DOMAIN T /\ T[L[i].from].type # "link"
    <2>1. i \in DOMAIN L
      <3>1. L \in Seq(Layer(T)) BY <1>1
      <3> QED BY <3>1, LenProperties
    <2>2. L[i].from \in DOMAIN T \ G BY <1>b, <2>1
    <2>3. \E p \in Seq(S) : L[i].from = RealIn(T, G, p)
      <3>1. CASE i <= n
        <4>1. i \in 1 .. n BY <1>1, <3>1
        <4>a. L[i] = SourceLayer(T, G, m.sources[i], i) BY <1>1, <4>1
        <4>2. L[i].from = RealIn(T, G, m.sources[i].from) BY <4>a, LayerFields
        <4>3. m.sources[i] \in [from : Seq(S), to : Seq(S)] BY <1>2, <4>1, ElementOfSeq
        <4> QED BY <4>2, <4>3
      <3>2. CASE i > n
        <4> HIDE DEF n, k, L
        <4>1. i - n \in 1 .. k /\ n + (i - n) = i BY <1>1, <3>2
        <4>2. L[i].from = RealIn(T, G, m.modules[i - n]) BY <1>1, <4>1, LayerFields
        <4>3. i - n \in 1 .. Len(m.modules) BY <4>1 DEF k
        <4>4. m.modules[i - n] \in Seq(S) BY <1>2, <4>3, ElementOfSeq
        <4> QED BY <4>2, <4>4
      <3> HIDE DEF n, L
      <3> QED BY <1>1, <3>1, <3>2
    <2> HIDE DEF L, S
    <2> QED BY <1>3, <2>2, <2>3, RealInTree
  <1> QED BY <1>1, <1>4, <1>c DEF Fit, L

LEMMA StandingRemains ==
    ASSUME NEW T, FileTree(T), NEW G, NEW m, Written(m),
           Standing(T, G, m), NEW x \in FilesOf(T), NEW i \in DOMAIN m.modules
    PROVE  RealIn(T, G \cup {x}, m.modules[i]) = RealIn(T, G, m.modules[i])
  <1> DEFINE S == STRING
             real == RealIn(T, G, m.modules[i])
  <1>1. m.modules \in Seq(Seq(S)) BY DEF Written
  <1>2. m.modules[i] \in Seq(S) BY <1>1
  <1>3. real # x BY DEF Standing, FilesOf
  <1>4. Remains(x, real, RealIn(T, G \cup {x}, m.modules[i])) BY <1>2, RealRemains
  <1> QED BY <1>3, <1>4 DEF Remains

LEMMA FitRemains ==
    ASSUME NEW T, FileTree(T), NEW G, NEW m, Written(m),
           Standing(T, G, m), NEW x \in FilesOf(T)
    PROVE  /\ Standing(T, G \cup {x}, m)
           /\ \A layers : Fit(T, G, m, layers) => Fit(T, G \cup {x}, m, layers)
  <1> DEFINE n == Len(m.sources)
             k == Len(m.modules)
             L == LayersIn(T, G, m)
             K == LayersIn(T, G \cup {x}, m)
  <1>1. Standing(T, G \cup {x}, m)
    <2>1. \A i \in DOMAIN m.modules :
                RealIn(T, G \cup {x}, m.modules[i]) = RealIn(T, G, m.modules[i])
      BY StandingRemains
    <2> QED BY <2>1 DEF Standing
  <1>a. Composed(T, G, m, L) BY LayersAre
  <1>b. Composed(T, G \cup {x}, m, K) BY <1>1, LayersAre
  <1>c. \A h \in DOMAIN m.modules : ModuleLayer(T, G \cup {x}, m.modules[h], h)
                            = ModuleLayer(T, G, m.modules[h], h)
    BY StandingRemains DEF ModuleLayer
  <1> HIDE DEF L, K
  <1>2. /\ n \in Nat /\ k \in Nat /\ L \in Seq(Layer(T)) /\ Len(L) = n + k
        /\ \A h \in 1 .. n : L[h] = SourceLayer(T, G, m.sources[h], h)
        /\ \A h \in 1 .. k : L[n + h] = ModuleLayer(T, G, m.modules[h], h)
    BY <1>a DEF Composed
  <1>3. /\ K \in Seq(Layer(T)) /\ Len(K) = n + k
        /\ \A h \in 1 .. n : K[h] = SourceLayer(T, G \cup {x}, m.sources[h], h)
        /\ \A h \in 1 .. k : K[n + h] = ModuleLayer(T, G \cup {x}, m.modules[h], h)
    BY <1>b DEF Composed
  <1>4. DOMAIN m.modules = 1 .. k
    <2>1. m.modules \in Seq(Seq(STRING)) BY DEF Written
    <2> QED BY <2>1
  <1>5. \A h \in 1 .. k : ModuleLayer(T, G \cup {x}, m.modules[h], h)
                            = ModuleLayer(T, G, m.modules[h], h)
    BY <1>4, <1>c
  <1>6. \A h \in 1 .. n : K[h].to = L[h].to /\ K[h].at = L[h].at
    <2> TAKE h \in 1 .. n
    <2>1. L[h] = SourceLayer(T, G, m.sources[h], h) BY <1>2
    <2>2. K[h] = SourceLayer(T, G \cup {x}, m.sources[h], h) BY <1>3
    <2> QED BY <2>1, <2>2, LayerFields
  <1>7. \A h \in 1 .. k : K[n + h].to = L[n + h].to /\ K[n + h].at = L[n + h].at
    BY <1>2, <1>3, <1>5
  <1> HIDE DEF n, k, L, K
  <1>8. ASSUME NEW i \in 1 .. n + k PROVE K[i].to = L[i].to /\ K[i].at = L[i].at
    <2>1. CASE i <= n
      <3>1. i \in 1 .. n BY <1>2, <2>1
      <3> QED BY <1>6, <3>1
    <2>2. CASE i > n
      <3>1. i - n \in 1 .. k /\ n + (i - n) = i BY <1>2, <2>2
      <3> QED BY <1>7, <3>1
    <2> QED BY <1>2, <2>1, <2>2
  <1>9. ASSUME NEW layers, Fit(T, G, m, layers) PROVE Fit(T, G \cup {x}, m, layers)
    <2>1. Len(layers) = n + k BY <1>2, <1>9 DEF Fit, L
    <2>2. \A i \in 1 .. Len(layers) : K[i].to = layers[i].to /\ K[i].at = layers[i].at
      BY <1>8, <1>9, <2>1 DEF Fit, L
    <2> QED BY <1>3, <1>9, <2>1, <2>2 DEF Fit, K
  <1> QED BY <1>1, <1>9

-----------------------------------------------------------------------------
(***************************************************************************)
(* Prefixes.                                                               *)
(***************************************************************************)
LEMMA PrefixOfLonger ==
    ASSUME NEW N, NEW s \in Seq(N), NEW t \in Seq(N), IsPrefix(s, t)
    PROVE  /\ Len(s) \in 0 .. Len(t) /\ SubSeq(t, 1, Len(s)) = s
           /\ Len(s) = Len(t) => s = t
           /\ s # t => /\ Len(s) + 1 \in 1 .. Len(t) /\ t[Len(s) + 1] \in N
                       /\ IsPrefix(Append(s, t[Len(s) + 1]), t)
  <1>1. Len(s) \in Nat /\ Len(t) \in Nat /\ Len(s) <= Len(t) BY DEF IsPrefix
  <1>2. SubSeq(s, 1, Len(s)) = s /\ SubSeq(t, 1, Len(t)) = t BY SubSeqFull
  <1>3. SubSeq(t, 1, Len(s)) = s BY <1>2 DEF IsPrefix
  <1>4. Len(s) = Len(t) => s = t BY <1>2, <1>3
  <1>5. ASSUME s # t
        PROVE  /\ Len(s) + 1 \in 1 .. Len(t) /\ t[Len(s) + 1] \in N
               /\ IsPrefix(Append(s, t[Len(s) + 1]), t)
    <2>1. Len(s) + 1 \in 1 .. Len(t) BY <1>1, <1>4, <1>5
    <2>2. t[Len(s) + 1] \in N BY <2>1, ElementOfSeq
    <2> DEFINE a == Append(s, t[Len(s) + 1])
    <2>3. a \in Seq(N) /\ Len(a) = Len(s) + 1 BY <2>2, AppendProperties
    <2>4. SubSeq(a, 1, Len(a)) = a BY <2>3, SubSeqFull
    <2>5. SubSeq(t, 1, Len(s) + 1) = a
      <3>1. SubSeq(t, 1, Len(s) + 1) \in Seq(N)
              /\ Len(SubSeq(t, 1, Len(s) + 1)) = Len(s) + 1
        BY <1>1, <2>1
      <3>2. \A i \in 1 .. Len(s) + 1 : SubSeq(t, 1, Len(s) + 1)[i] = t[i] BY <1>1, <2>1
      <3>3. \A i \in 1 .. Len(s) : t[i] = s[i]
        <4>1. \A i \in 1 .. Len(s) : SubSeq(t, 1, Len(s))[i] = t[i] BY <1>1
        <4> QED BY <1>3, <4>1
      <3>4. /\ \A i \in 1 .. Len(s) : a[i] = s[i]
            /\ a[Len(s) + 1] = t[Len(s) + 1]
        BY <2>2, AppendProperties
      <3> HIDE DEF a
      <3>5. \A i \in 1 .. Len(s) + 1 : SubSeq(t, 1, Len(s) + 1)[i] = a[i]
        <4> TAKE i \in 1 .. Len(s) + 1
        <4>1. i \in 1 .. Len(s) \/ i = Len(s) + 1 BY <1>1
        <4> QED BY <3>2, <3>3, <3>4, <4>1
      <3> QED BY <2>3, <3>1, <3>5, SeqEqual
    <2>6. Len(a) <= Len(t) BY <1>1, <2>1, <2>3
    <2> HIDE DEF a
    <2>7. IsPrefix(a, t) BY <2>3, <2>4, <2>5, <2>6 DEF IsPrefix
    <2> QED BY <2>1, <2>2, <2>7 DEF a
  <1> QED BY <1>1, <1>3, <1>4, <1>5

LEMMA PrefixItself ==
    ASSUME NEW N, NEW s \in Seq(N)
    PROVE  IsPrefix(s, s) /\ IsPrefix(<< >>, s)
  <1>1. SubSeq(s, 1, 0) = << >> BY SubSeqEmpty
  <1>2. SubSeq(<< >>, 1, 0) = << >> BY SubSeqEmpty
  <1> QED BY <1>1, <1>2 DEF IsPrefix

\* A path below a target, and what it is below it.
LEMMA TargetOf ==
    ASSUME NEW N, NEW to \in Seq(N), NEW rel \in Seq(N)
    PROVE  /\ to \o rel \in Seq(N) /\ IsPrefix(to, to \o rel)
           /\ SubSeq(to \o rel, Len(to) + 1, Len(to \o rel)) = rel
  <1> DEFINE t == to \o rel
  <1>1. /\ t \in Seq(N) /\ Len(t) = Len(to) + Len(rel) /\ Len(to) \in Nat /\ Len(rel) \in Nat
        /\ \A i \in 1 .. Len(to) + Len(rel) :
                t[i] = IF i <= Len(to) THEN to[i] ELSE rel[i - Len(to)]
    BY ConcatProperties
  <1> HIDE DEF t
  <1>2. SubSeq(t, 1, Len(to)) = to
    <2>1. SubSeq(t, 1, Len(to)) \in Seq(N) /\ Len(SubSeq(t, 1, Len(to))) = Len(to)
      BY <1>1
    <2>2. \A i \in 1 .. Len(to) : SubSeq(t, 1, Len(to))[i] = t[i] BY <1>1
    <2>3. \A i \in 1 .. Len(to) : t[i] = to[i] BY <1>1
    <2> QED BY <2>1, <2>2, <2>3, SeqEqual
  <1>3. IsPrefix(to, t)
    <2>1. SubSeq(to, 1, Len(to)) = to BY SubSeqFull
    <2> QED BY <1>1, <1>2, <2>1 DEF IsPrefix
  <1>4. SubSeq(t, Len(to) + 1, Len(t)) = rel
    <2> DEFINE w == SubSeq(t, Len(to) + 1, Len(t))
    <2>1. /\ w \in Seq(N) /\ Len(w) = Len(rel)
          /\ \A i \in 1 .. Len(rel) : w[i] = t[Len(to) + i]
      <3>1. \A i \in Len(to) + 1 .. Len(t) : t[i] \in N BY <1>1
      <3>2. /\ w \in Seq(N)
            /\ Len(w) = IF Len(to) + 1 <= Len(t) THEN Len(t) - (Len(to) + 1) + 1 ELSE 0
            /\ \A i \in 1 .. Len(t) - (Len(to) + 1) + 1 : w[i] = t[(Len(to) + 1) + i - 1]
        BY <1>1, <3>1, SubSeqProperties
      <3> HIDE DEF w
      <3>3. Len(w) = Len(rel) /\ Len(t) - (Len(to) + 1) + 1 = Len(rel) BY <1>1, <3>2
      <3>4. \A i \in 1 .. Len(rel) : (Len(to) + 1) + i - 1 = Len(to) + i BY <1>1
      <3> QED BY <3>2, <3>3, <3>4
    <2>2. \A i \in 1 .. Len(rel) : t[Len(to) + i] = rel[i]
      <3> TAKE i \in 1 .. Len(rel)
      <3>1. Len(to) + i \in 1 .. Len(to) + Len(rel) /\ ~(Len(to) + i <= Len(to))
              /\ (Len(to) + i) - Len(to) = i
        BY <1>1
      <3> QED BY <1>1, <3>1
    <2> HIDE DEF w
    <2>3. w = rel BY <2>1, <2>2, SeqEqual
    <2> QED BY <2>3 DEF w
  <1> QED BY <1>1, <1>3, <1>4 DEF t

LEMMA BelowTarget ==
    ASSUME NEW N, NEW to \in Seq(N), NEW t \in Seq(N), IsPrefix(to, t)
    PROVE  LET rel == SubSeq(t, Len(to) + 1, Len(t)) IN rel \in Seq(N) /\ t = to \o rel
  <1> DEFINE rel == SubSeq(t, Len(to) + 1, Len(t))
  <1>1. Len(to) \in 0 .. Len(t) /\ SubSeq(t, 1, Len(to)) = to BY PrefixOfLonger
  <1>2. Len(to) \in Nat /\ Len(t) \in Nat OBVIOUS
  <1>3. /\ rel \in Seq(N)
        /\ Len(rel) = IF Len(to) + 1 <= Len(t) THEN Len(t) - (Len(to) + 1) + 1 ELSE 0
        /\ \A i \in 1 .. Len(t) - (Len(to) + 1) + 1 : rel[i] = t[(Len(to) + 1) + i - 1]
    <2>1. \A i \in Len(to) + 1 .. Len(t) : t[i] \in N BY <1>2
    <2> QED BY <1>2, <2>1, SubSeqProperties
  <1> HIDE DEF rel
  <1>4. Len(rel) = Len(t) - Len(to) BY <1>1, <1>2, <1>3
  <1>5. /\ to \o rel \in Seq(N) /\ Len(to \o rel) = Len(to) + Len(rel)
        /\ \A i \in 1 .. Len(to) + Len(rel) :
                (to \o rel)[i] = IF i <= Len(to) THEN to[i] ELSE rel[i - Len(to)]
    BY <1>3, ConcatProperties
  <1>6. Len(to) + Len(rel) = Len(t) BY <1>1, <1>2, <1>4
  <1>7. \A i \in 1 .. Len(to) : t[i] = to[i]
    <2>1. \A i \in 1 .. Len(to) : SubSeq(t, 1, Len(to))[i] = t[i] BY <1>1, <1>2
    <2> QED BY <1>1, <2>1
  <1>8. ASSUME NEW i \in 1 .. Len(t) PROVE (to \o rel)[i] = t[i]
    <2>1. CASE i <= Len(to)
      <3>1. i \in 1 .. Len(to) BY <1>2, <2>1
      <3> QED BY <1>5, <1>6, <1>7, <2>1, <3>1
    <2>2. CASE ~(i <= Len(to))
      <3>1. i - Len(to) \in 1 .. Len(t) - (Len(to) + 1) + 1
              /\ (Len(to) + 1) + (i - Len(to)) - 1 = i
        BY <1>1, <1>2, <2>2
      <3>2. rel[i - Len(to)] = t[i] BY <1>3, <3>1
      <3> QED BY <1>5, <1>6, <2>2, <3>2
    <2> QED BY <2>1, <2>2
  <1>9. to \o rel = t BY <1>5, <1>6, <1>8, SeqEqual
  <1> QED BY <1>3, <1>9 DEF rel

-----------------------------------------------------------------------------
(***************************************************************************)
(* The walk.  What is walked at a node, reached by a name, is what the name *)
(* means below the layer's root; a link is still to be followed.            *)
(***************************************************************************)
Leads(T, G, root, rel, p) ==
    \/ p \in G
    \/ T[p].type # "link" /\ MeansIn(T, G, root, rel) = p
    \/ /\ T[p].type = "link"
       /\ (T[p].to \in DOMAIN T \ G /\ IsPrefix(root, T[p].to))
            => MeansIn(T, G, root, rel) = T[p].to

LEMMA LeadsFirst ==
    ASSUME NEW T, NEW G, NEW p, T[p].type # "link"
    PROVE  Leads(T, G, p, << >>, p)
  BY MeansOfNothing DEF Leads

LEMMA LeadsRemain ==
    ASSUME NEW T, FileTree(T), NEW G, NEW x \in FilesOf(T), NEW root,
           NEW rel, Len(rel) \in Nat, NEW p \in DOMAIN T, Leads(T, G, root, rel, p)
    PROVE  Leads(T, G \cup {x}, root, rel, p)
  <1>1. Remains(x, MeansIn(T, G, root, rel), MeansIn(T, G \cup {x}, root, rel))
    BY MeansRemains
  <1> QED BY <1>1 DEF Leads, Remains

LEMMA LeadsThroughLink ==
    ASSUME NEW T, FileTree(T), NEW G, NEW root, NEW rel, NEW p \in DOMAIN T \ G,
           Leads(T, G, root, rel, p), T[p].type = "link",
           T[p].to \in DOMAIN T \ G, IsPrefix(root, T[p].to)
    PROVE  Leads(T, G, root, rel, T[p].to)
  <1>1. T[T[p].to].type # "link" BY DEF FileTree
  <1> QED BY <1>1 DEF Leads

\* An entry of a directory that a walk does not pass over.
Listed(T, G, p) ==
    {q \in DOMAIN T \ G : /\ q # << >> /\ Front(q) = p
                          /\ ~(Last(q) = ".git" /\ T[q].type = "dir")}

LEMMA FrontAndLast ==
    ASSUME NEW T, FileTree(T), NEW q \in DOMAIN T, q # << >>
    PROVE  /\ Append(Front(q), Last(q)) = q /\ Last(q) \in Names
           /\ Front(q) \in DOMAIN T
  <1> DEFINE S == STRING
  <1>1. q \in Seq(S) BY DEF FileTree
  <1>2. Last(q) \in Names BY <1>1, LastIsName
  <1>3. Front(q) \in DOMAIN T BY DEF FileTree
  <1> HIDE DEF S
  <1>4. PICK s \in Seq(S), elt \in S : q = Append(s, elt) BY <1>1, SequenceEmptyOrAppend
  <1>5. Front(q) = s /\ Last(q) = elt BY <1>4, AppendFront
  <1> QED BY <1>2, <1>3, <1>4, <1>5

LEMMA LeadsDown ==
    ASSUME NEW T, FileTree(T), NEW G, NEW root, NEW rel \in Seq(Names),
           NEW p \in DOMAIN T \ G, Leads(T, G, root, rel, p), T[p].type = "dir",
           NEW q \in Listed(T, G, p)
    PROVE  Leads(T, G, root, Append(rel, Last(q)), q)
  <1>1. q \in DOMAIN T \ G /\ q # << >> /\ Front(q) = p
          /\ ~(Last(q) = ".git" /\ T[q].type = "dir")
    BY DEF Listed
  <1>2. Append(p, Last(q)) = q /\ Last(q) \in Names BY <1>1, FrontAndLast
  <1>3. MeansIn(T, G, root, rel) = p BY DEF Leads
  <1>4. p # Nowhere /\ q # Nowhere BY <1>1 DEF FileTree
  <1>5. MeansIn(T, G, root, Append(rel, Last(q))) = BelowIn(T, G, root, p, Last(q))
    BY <1>2, <1>3, MeansOfAppend
  <1>6. CASE T[q].type # "link"
    <2>1. EnterIn(T, G, p, Last(q)) = q BY <1>1, <1>2, <1>4, <1>6 DEF EnterIn
    <2>2. BelowIn(T, G, root, p, Last(q)) = q BY <1>1, <1>2, <1>4, <2>1 DEF BelowIn
    <2> QED BY <1>5, <1>6, <2>2 DEF Leads
  <1>7. CASE T[q].type = "link"
    <2>1. SUFFICES ASSUME T[q].to \in DOMAIN T \ G, IsPrefix(root, T[q].to)
                   PROVE  BelowIn(T, G, root, p, Last(q)) = T[q].to
      BY <1>5, <1>7 DEF Leads
    <2>2. EnterIn(T, G, p, Last(q)) = T[q].to BY <1>1, <1>2, <1>4, <1>7, <2>1 DEF EnterIn
    <2>3. T[q].to # Nowhere BY <2>1 DEF FileTree
    <2> QED BY <1>2, <1>7, <2>1, <2>2, <2>3 DEF BelowIn
  <1> QED BY <1>6, <1>7

\* A file that some longer name means is further down the same way.
LEMMA FurtherDown ==
    ASSUME NEW T, FileTree(T), NEW G, NEW root, NEW s \in Seq(Names), NEW rel \in Seq(Names),
           IsPrefix(s, rel), NEW p \in DOMAIN T \ G, T[p].type # "link",
           Leads(T, G, root, s, p), MeansIn(T, G, root, rel) \in DOMAIN T, rel # s
    PROVE  /\ T[p].type = "dir"
           /\ \E q \in Listed(T, G, p) : IsPrefix(Append(s, Last(q)), rel)
  <1> DEFINE k == Len(s)
  <1>1. /\ k \in 0 .. Len(rel) /\ SubSeq(rel, 1, k) = s /\ k + 1 \in 1 .. Len(rel)
        /\ rel[k + 1] \in Names /\ IsPrefix(Append(s, rel[k + 1]), rel)
    BY PrefixOfLonger
  <1>2. Len(rel) \in Nat /\ k \in Nat OBVIOUS
  <1>3. PICK f : Way(f, T, G, root, rel) /\ MeansIn(T, G, root, rel) = f[Len(rel)]
    BY <1>2, MeansDescends
  <1>4. MeansIn(T, G, root, s) = p BY DEF Leads
  <1> HIDE DEF k
  <1>5. f[k] = p
    <2>1. MeansIn(T, G, root, SubSeq(rel, 1, k)) = f[k] BY <1>1, <1>3, MeansAt
    <2> QED BY <1>1, <1>4, <2>1
  <1>6. f[k + 1] = BelowIn(T, G, root, p, rel[k + 1])
    <2>1. (k + 1) - 1 = k BY <1>2
    <2>2. f[k + 1] = BelowIn(T, G, root, f[(k + 1) - 1], rel[k + 1]) BY <1>1, <1>3 DEF Way
    <2> QED BY <1>5, <2>1, <2>2
  <1>7. f[k + 1] # Nowhere
    <2>1. f[Len(rel)] # Nowhere BY <1>3 DEF FileTree
    <2>2. k + 1 \in 0 .. Len(rel) BY <1>1
    <2> QED BY <1>2, <1>3, <2>1, <2>2, NowhereStays
  <1> DEFINE q == Append(p, rel[k + 1])
  <1>8. EnterIn(T, G, p, rel[k + 1]) # Nowhere
          /\ ~(rel[k + 1] = ".git" /\ T[q].type = "dir")
    BY <1>6, <1>7 DEF BelowIn
  <1>9. q \in DOMAIN T \ G BY <1>8 DEF EnterIn
  <1>10. T[p].type = "dir" BY <1>9, NothingBelow
  <1>11. p \in Seq(STRING) BY DEF FileTree
  <1>12. Front(q) = p /\ Last(q) = rel[k + 1] /\ q # << >> BY <1>11, AppendFront
  <1> HIDE DEF q
  <1>13. q \in Listed(T, G, p) BY <1>8, <1>9, <1>12 DEF Listed
  <1>14. IsPrefix(Append(s, Last(q)), rel) BY <1>1, <1>12
  <1> QED BY <1>10, <1>13, <1>14

-----------------------------------------------------------------------------
(***************************************************************************)
(* What is left to walk after a directory: its entries, and what was left   *)
(* before, in whichever order the entries come.                             *)
(***************************************************************************)
Entry(item, q) == Item(q, item.at, Append(item.rel, Last(q)), item.via)
Entries(item, walked, rest) ==
    FoldSet(LAMBDA q, items : <<Entry(item, q)>> \o items, rest, walked)

Occurs(e, s) == \E i \in 1 .. Len(s) : s[i] = e

LEMMA OccursFirst ==
    ASSUME NEW N, NEW a \in N, NEW s \in Seq(N)
    PROVE  /\ <<a>> \o s \in Seq(N)
           /\ \A e : Occurs(e, <<a>> \o s) <=> e = a \/ Occurs(e, s)
  <1>1. <<a>> \in Seq(N) /\ Len(<<a>>) = 1 /\ <<a>>[1] = a OBVIOUS
  <1> DEFINE t == <<a>> \o s
  <1>2. /\ t \in Seq(N) /\ Len(t) = 1 + Len(s) /\ Len(s) \in Nat
        /\ \A i \in 1 .. 1 + Len(s) : t[i] = IF i <= 1 THEN <<a>>[i] ELSE s[i - 1]
    BY <1>1, ConcatProperties
  <1> HIDE DEF t
  <1>3. t[1] = a BY <1>1, <1>2
  <1>4. \A i \in 1 .. Len(s) : t[i + 1] = s[i]
    <2> TAKE i \in 1 .. Len(s)
    <2>1. i + 1 \in 1 .. 1 + Len(s) /\ ~(i + 1 <= 1) /\ (i + 1) - 1 = i BY <1>2
    <2> QED BY <1>2, <2>1
  <1>5. ASSUME NEW e, Occurs(e, t) PROVE e = a \/ Occurs(e, s)
    <2>1. PICK i \in 1 .. Len(t) : t[i] = e BY <1>5 DEF Occurs
    <2>2. CASE i = 1 BY <1>3, <2>1, <2>2
    <2>3. CASE i # 1
      <3>1. i - 1 \in 1 .. Len(s) /\ (i - 1) + 1 = i BY <1>2, <2>3
      <3>2. t[(i - 1) + 1] = s[i - 1] BY <1>4, <3>1
      <3> QED BY <2>1, <3>1, <3>2 DEF Occurs
    <2> QED BY <2>2, <2>3
  <1>6. ASSUME NEW e, e = a \/ Occurs(e, s) PROVE Occurs(e, t)
    <2>1. CASE e = a
      <3>1. 1 \in 1 .. Len(t) BY <1>2
      <3> QED BY <1>3, <2>1, <3>1 DEF Occurs
    <2>2. CASE Occurs(e, s)
      <3>1. PICK i \in 1 .. Len(s) : s[i] = e BY <2>2 DEF Occurs
      <3>2. i + 1 \in 1 .. Len(t) BY <1>2
      <3> QED BY <1>4, <3>1, <3>2 DEF Occurs
    <2> QED BY <1>6, <2>1, <2>2
  <1> QED BY <1>2, <1>5, <1>6 DEF t

Unfolds(g, item, walked, rest) ==
    g = [I \in SUBSET walked |-> IF I = {} THEN rest ELSE
            <<Entry(item, CHOOSE x \in I : TRUE)>> \o g[I \ {CHOOSE x \in I : TRUE}]]

LEMMA EntriesAre ==
    ASSUME NEW walked, IsFiniteSet(walked), NEW item, NEW N, NEW rest \in Seq(N),
           \A q \in walked : Entry(item, q) \in N
    PROVE  /\ Entries(item, walked, rest) \in Seq(N)
           /\ \A e : Occurs(e, Entries(item, walked, rest))
                <=> (\E q \in walked : e = Entry(item, q)) \/ Occurs(e, rest)
  <1> DEFINE A == Seq(N)
             Op == [x \in walked \X A |-> <<Entry(item, x[1])>> \o x[2]]
             pick == [I \in SUBSET walked |-> CHOOSE x \in I : TRUE]
  <1>1. \A I \in SUBSET walked : I # {} => pick[I] \in I OBVIOUS
  <1>2. Op \in [walked \X A -> A]
    <2>1. \A x \in walked \X A : <<Entry(item, x[1])>> \o x[2] \in A BY OccursFirst
    <2> QED BY <2>1
  <1>3. \A I \in SUBSET walked : pick[I] = CHOOSE x \in I : TRUE OBVIOUS
  <1>4. \A q \in walked, s \in A : Op[<<q, s>>] = <<Entry(item, q)>> \o s OBVIOUS
  <1> HIDE DEF Op, pick, A
  <1>5. rest \in A BY DEF A
  <1>6. PICK g \in [SUBSET walked -> A] : Folded(g, walked, rest, Op, pick)
    BY <1>1, <1>2, <1>5, FoldExists
  <1>7. Unfolds(g, item, walked, rest)
    <2>1. ASSUME NEW I \in SUBSET walked
          PROVE  g[I] = IF I = {} THEN rest ELSE
            <<Entry(item, CHOOSE x \in I : TRUE)>> \o g[I \ {CHOOSE x \in I : TRUE}]
      <3>1. CASE I = {} BY <1>6, <3>1 DEF Folded
      <3>2. CASE I # {}
        <4>1. g[I] = Op[<<pick[I], g[I \ {pick[I]}]>>] BY <1>6, <3>2 DEF Folded
        <4>2. pick[I] \in walked /\ g[I \ {pick[I]}] \in A BY <1>1, <1>6, <3>2
        <4>3. g[I] = <<Entry(item, pick[I])>> \o g[I \ {pick[I]}] BY <1>4, <4>1, <4>2
        <4> QED BY <1>3, <3>2, <4>3
      <3> QED BY <3>1, <3>2
    <2>2. g = [I \in SUBSET walked |-> g[I]] OBVIOUS
    <2> QED BY <2>1, <2>2 DEF Unfolds
  <1> DEFINE c == CHOOSE h : Unfolds(h, item, walked, rest)
  <1>8. Unfolds(c, item, walked, rest) BY <1>7
  <1>9. Entries(item, walked, rest) = c[walked]
    BY DEF Entries, FoldSet, MapThenFoldSet, Unfolds
  <1> HIDE DEF c
  <1> DEFINE Right(I) == /\ c[I] \in Seq(N)
                         /\ \A e : Occurs(e, c[I])
                                <=> (\E q \in I : e = Entry(item, q)) \/ Occurs(e, rest)
             S == {n \in Nat : \A I \in SUBSET walked : Cardinality(I) = n => Right(I)}
  <1>10. \A I \in SUBSET walked : IsFiniteSet(I) /\ Cardinality(I) \in Nat
    BY FS_Subset, FS_CardinalityType
  <1>11. 0 \in S
    <2>1. c[{}] = rest BY <1>8 DEF Unfolds
    <2>2. Right({}) BY <2>1
    <2> HIDE DEF Right
    <2>3. \A I \in SUBSET walked : Cardinality(I) = 0 => I = {} BY <1>10, FS_EmptySet
    <2> QED BY <2>2, <2>3
  <1>12. ASSUME NEW n \in Nat, n \in S PROVE n + 1 \in S
    <2>1. SUFFICES ASSUME NEW I \in SUBSET walked, Cardinality(I) = n + 1 PROVE Right(I)
      OBVIOUS
    <2>2. I # {}
      <3>1. SUFFICES ASSUME I = {} PROVE FALSE OBVIOUS
      <3>2. Cardinality(I) = 0 BY <3>1, FS_EmptySet
      <3> QED BY <2>1, <3>2
    <2>3. PICK q : q = CHOOSE x \in I : TRUE OBVIOUS
    <2>4. q \in I /\ q \in walked BY <2>2, <2>3
    <2>5. Cardinality(I \ {q}) = n
      <3>1. IsFiniteSet(I) BY <1>10
      <3>2. Cardinality(I \ {q}) = Cardinality(I) - 1 BY <2>4, <3>1, FS_RemoveElement
      <3> QED BY <2>1, <3>2
    <2>6. I \ {q} \in SUBSET walked OBVIOUS
    <2>7. Right(I \ {q})
      <3> HIDE DEF Right
      <3> QED BY <1>12, <2>5, <2>6
    <2>8. c[I] = <<Entry(item, q)>> \o c[I \ {q}] BY <1>8, <2>2, <2>3 DEF Unfolds
    <2>9. Entry(item, q) \in N BY <2>4
    <2>10. c[I \ {q}] \in Seq(N) BY <2>7
    <2>11. /\ c[I] \in Seq(N)
           /\ \A e : Occurs(e, c[I]) <=> e = Entry(item, q) \/ Occurs(e, c[I \ {q}])
      <3>1. PICK s : s = c[I \ {q}] OBVIOUS
      <3>2. PICK a : a = Entry(item, q) OBVIOUS
      <3>3. /\ <<a>> \o s \in Seq(N)
            /\ \A e : Occurs(e, <<a>> \o s) <=> e = a \/ Occurs(e, s)
        <4>1. a \in N /\ s \in Seq(N) BY <2>9, <2>10, <3>1, <3>2
        <4> QED BY <4>1, OccursFirst
      <3> QED BY <2>8, <3>1, <3>2, <3>3
    <2>12. \A e : Occurs(e, c[I \ {q}])
                <=> (\E x \in I \ {q} : e = Entry(item, x)) \/ Occurs(e, rest)
      BY <2>7
    <2>13. \A e : (\E x \in I : e = Entry(item, x))
                <=> e = Entry(item, q) \/ \E x \in I \ {q} : e = Entry(item, x)
      BY <2>4
    <2> QED BY <2>11, <2>12, <2>13
  <1>13. Nat \subseteq S
    <2> HIDE DEF S
    <2> QED BY <1>11, <1>12, Induction
  <1>14. Right(walked)
    <2>1. walked \in SUBSET walked /\ Cardinality(walked) \in Nat BY FS_CardinalityType
    <2> HIDE DEF Right
    <2> QED BY <1>13, <2>1
  <1> QED BY <1>9, <1>14

-----------------------------------------------------------------------------
(***************************************************************************)
(* The files of the image: what the COPY lines leave, one after the other.  *)
(***************************************************************************)
Keyed(files) ==
    \A key \in DOMAIN files : key = <<key[1], key[2]>> /\ key[2] \in Seq(Names)

\* The context has a file for a place in the image below a layer's target.
Has(layer, files, t) ==
    /\ t \in Seq(Names) /\ IsPrefix(layer.to, t)
    /\ <<layer.at, Within(layer, t)>> \in DOMAIN files

LEMMA CopiedIs ==
    ASSUME NEW layer, layer.to \in Seq(Names), NEW files, Keyed(files)
    PROVE  /\ \A t : t \in DOMAIN Copied(layer, files) <=> Has(layer, files, t)
           /\ \A t \in DOMAIN Copied(layer, files) :
                Copied(layer, files)[t] = files[<<layer.at, Within(layer, t)>>]
  <1> DEFINE rels == {key[2] : key \in {k \in DOMAIN files : k[1] = layer.at}}
             D == {layer.to \o rel : rel \in rels}
  <1>1. Copied(layer, files) = [t \in D |->
            files[<<layer.at, SubSeq(t, Len(layer.to) + 1, Len(t))>>]]
    BY DEF Copied
  <1>2. \A rel : rel \in rels <=> rel \in Seq(Names) /\ <<layer.at, rel>> \in DOMAIN files
    <2>1. ASSUME NEW rel \in rels PROVE rel \in Seq(Names) /\ <<layer.at, rel>> \in DOMAIN files
      <3>1. PICK key \in DOMAIN files : key[1] = layer.at /\ key[2] = rel OBVIOUS
      <3> QED BY <3>1 DEF Keyed
    <2>2. ASSUME NEW rel, <<layer.at, rel>> \in DOMAIN files PROVE rel \in rels
      <3>1. <<layer.at, rel>>[1] = layer.at /\ <<layer.at, rel>>[2] = rel OBVIOUS
      <3> QED BY <2>2, <3>1
    <2> QED BY <2>1, <2>2
  <1> HIDE DEF rels
  <1>3. ASSUME NEW t \in D PROVE Has(layer, files, t)
    <2>1. PICK rel \in rels : t = layer.to \o rel OBVIOUS
    <2>2. rel \in Seq(Names) /\ <<layer.at, rel>> \in DOMAIN files BY <1>2
    <2>3. t \in Seq(Names) /\ IsPrefix(layer.to, t)
            /\ SubSeq(t, Len(layer.to) + 1, Len(t)) = rel
      BY <2>1, <2>2, TargetOf
    <2> QED BY <2>2, <2>3 DEF Has, Within
  <1>4. ASSUME NEW t, Has(layer, files, t) PROVE t \in D
    <2> DEFINE rel == SubSeq(t, Len(layer.to) + 1, Len(t))
    <2>1. rel \in Seq(Names) /\ t = layer.to \o rel BY <1>4, BelowTarget DEF Has
    <2>2. <<layer.at, rel>> \in DOMAIN files BY <1>4 DEF Has, Within
    <2> HIDE DEF rel
    <2>3. rel \in rels BY <1>2, <2>1, <2>2
    <2> QED BY <2>1, <2>3
  <1> HIDE DEF D
  <1>5. DOMAIN Copied(layer, files) = D BY <1>1
  <1> QED BY <1>1, <1>3, <1>4, <1>5 DEF Within

FilesIn(L, files) ==
    FoldLeft(LAMBDA done, layer : Over(Copied(layer, files), done), << >>, L)

Overlays(g, L, files) ==
    g = [I \in SUBSET DOMAIN L |->
            IF I = {} THEN << >> ELSE Over(Copied(L[Max(I)], files), g[I \ {Max(I)}])]

LEMMA OverlayExists ==
    ASSUME NEW L, NEW n \in Nat, DOMAIN L = 1 .. n, NEW files, Keyed(files),
           \A i \in 1 .. n : L[i].to \in Seq(Names)
    PROVE  \E g : Overlays(g, L, files)
  <1> DEFINE D == 1 .. n
             X == Seq(Names)
             Y == {files[key] : key \in DOMAIN files}
             A == UNION {[S -> Y] : S \in SUBSET X}
             Op == [x \in D \X A |-> Over(Copied(L[x[1]], files), x[2])]
  <1>1. << >> \in A
    <2>1. << >> \in [{} -> Y] OBVIOUS
    <2>2. {} \in SUBSET X OBVIOUS
    <2> QED BY <2>1, <2>2
  <1>2. ASSUME NEW i \in D, NEW a \in A PROVE Over(Copied(L[i], files), a) \in A
    <2> DEFINE f == Copied(L[i], files)
    <2>1. PICK S \in SUBSET X : a \in [S -> Y] OBVIOUS
    <2>2. /\ \A t : t \in DOMAIN f <=> Has(L[i], files, t)
          /\ \A t \in DOMAIN f : f[t] = files[<<L[i].at, Within(L[i], t)>>]
      BY CopiedIs
    <2> HIDE DEF f
    <2>3. \A t \in DOMAIN f : t \in X /\ f[t] \in Y BY <2>2 DEF Has
    <2> HIDE DEF Y, X, A
    <2>4. Over(f, a) \in [DOMAIN f \cup S -> Y] BY <2>1, <2>3 DEF Over
    <2>5. DOMAIN f \cup S \in SUBSET X BY <2>3
    <2> QED BY <2>4, <2>5 DEF f, A
  <1> HIDE DEF A, X, Y
  <1>3. Op \in [D \X A -> A] BY <1>2
  <1>4. \A I \in SUBSET D : I # {} => Largest(n)[I] \in I BY MaxOf DEF Largest
  <1>5. IsFiniteSet(D) BY FS_Interval
  <1>6. \A i \in D, a \in A : Op[<<i, a>>] = Over(Copied(L[i], files), a) OBVIOUS
  <1> HIDE DEF Op
  <1>7. PICK g \in [SUBSET D -> A] : Folded(g, D, << >>, Op, Largest(n))
    BY <1>1, <1>3, <1>4, <1>5, FoldExists
  <1>8. ASSUME NEW I \in SUBSET D
        PROVE  g[I] = IF I = {} THEN << >> ELSE Over(Copied(L[Max(I)], files), g[I \ {Max(I)}])
    <2>1. CASE I = {} BY <1>7, <2>1 DEF Folded
    <2>2. CASE I # {}
      <3>1. Largest(n)[I] = Max(I) /\ Max(I) \in D BY <1>4, <2>2 DEF Largest
      <3>2. g[I] = Op[<<Max(I), g[I \ {Max(I)}]>>] BY <1>7, <2>2, <3>1 DEF Folded
      <3>3. g[I \ {Max(I)}] \in A BY <1>7
      <3> QED BY <1>6, <2>2, <3>1, <3>2, <3>3
    <2> QED BY <2>1, <2>2
  <1>9. g = [I \in SUBSET D |-> g[I]] OBVIOUS
  <1> QED BY <1>8, <1>9 DEF Overlays

\* One COPY line after the other.
Lays(f, L, n, files) ==
    /\ f[0] = << >>
    /\ \A k \in 1 .. n : f[k] = Over(Copied(L[k], files), f[k - 1])

LEMMA FilesAreLaid ==
    ASSUME NEW L, NEW n \in Nat, DOMAIN L = 1 .. n, NEW files, Keyed(files),
           \A i \in 1 .. n : L[i].to \in Seq(Names)
    PROVE  \E f : Lays(f, L, n, files) /\ FilesIn(L, files) = f[n]
  <1> DEFINE D == 1 .. n
             c == CHOOSE g : Overlays(g, L, files)
  <1>1. Overlays(c, L, files) BY OverlayExists
  <1>2. FilesIn(L, files) = c[D] BY DEF FilesIn, FoldLeft, MapThenFoldSet, Overlays
  <1> HIDE DEF c
  <1> DEFINE f == [k \in 0 .. n |-> c[1 .. k]]
  <1>3. ASSUME NEW k \in 1 .. n PROVE f[k] = Over(Copied(L[k], files), f[k - 1])
    <2>1. 1 .. k \in SUBSET D /\ k \in 1 .. k /\ k \in 0 .. n OBVIOUS
    <2>2. k - 1 \in 0 .. n OBVIOUS
    <2>3. Max(1 .. k) = k BY MaxUpTo
    <2>4. (1 .. k) \ {k} = 1 .. k - 1 OBVIOUS
    <2>5. c[1 .. k] = Over(Copied(L[k], files), c[1 .. k - 1])
      BY <1>1, <2>1, <2>3, <2>4 DEF Overlays
    <2> QED BY <2>1, <2>2, <2>5
  <1>4. f[0] = << >>
    <2>1. 1 .. 0 = {} /\ 0 \in 0 .. n OBVIOUS
    <2>2. c[{}] = << >> BY <1>1 DEF Overlays
    <2> QED BY <2>1, <2>2
  <1>5. f[n] = FilesIn(L, files) BY <1>2
  <1> HIDE DEF f
  <1> QED BY <1>3, <1>4, <1>5 DEF Lays

\* The last layer that has something for a place decides.
Decides(L, n, files, t, i) ==
    i \in 1 .. n /\ Has(L[i], files, t) /\ \A j \in i + 1 .. n : ~Has(L[j], files, t)

LEMMA FilesAre ==
    ASSUME NEW L, NEW n \in Nat, DOMAIN L = 1 .. n, NEW files, Keyed(files),
           \A i \in 1 .. n : L[i].to \in Seq(Names)
    PROVE  /\ \A t : t \in DOMAIN FilesIn(L, files)
                        <=> \E i \in 1 .. n : Has(L[i], files, t)
           /\ \A t \in DOMAIN FilesIn(L, files) : \E i : Decides(L, n, files, t, i)
                /\ FilesIn(L, files)[t] = files[<<L[i].at, Within(L[i], t)>>]
  <1>1. PICK f : Lays(f, L, n, files) /\ FilesIn(L, files) = f[n] BY FilesAreLaid
  <1> DEFINE Right(k) ==
                /\ \A t : t \in DOMAIN f[k] <=> \E i \in 1 .. k : Has(L[i], files, t)
                /\ \A t \in DOMAIN f[k] : \E i : Decides(L, k, files, t, i)
                     /\ f[k][t] = files[<<L[i].at, Within(L[i], t)>>]
             S == {k \in Nat : k <= n => Right(k)}
  <1>2. 0 \in S
    <2>1. f[0] = << >> BY <1>1 DEF Lays
    <2>2. DOMAIN f[0] = {} BY <2>1
    <2>3. 1 .. 0 = {} OBVIOUS
    <2> QED BY <2>2, <2>3
  <1>3. ASSUME NEW k \in Nat, k \in S PROVE k + 1 \in S
    <2>1. SUFFICES ASSUME k + 1 <= n PROVE Right(k + 1) OBVIOUS
    <2>2. k + 1 \in 1 .. n /\ (k + 1) - 1 = k BY <2>1
    <2> DEFINE new == Copied(L[k + 1], files)
    <2>3. f[k + 1] = Over(new, f[k]) BY <1>1, <2>2 DEF Lays
    <2>4. /\ \A t : t \in DOMAIN new <=> Has(L[k + 1], files, t)
          /\ \A t \in DOMAIN new : new[t] = files[<<L[k + 1].at, Within(L[k + 1], t)>>]
      BY <2>2, CopiedIs
    <2>5. Right(k) BY <1>3, <2>1
    <2> HIDE DEF new
    <2>6. DOMAIN f[k + 1] = DOMAIN new \cup DOMAIN f[k] BY <2>3 DEF Over
    <2>7. \A t : (\E i \in 1 .. k + 1 : Has(L[i], files, t))
                <=> Has(L[k + 1], files, t) \/ \E i \in 1 .. k : Has(L[i], files, t)
      <3> TAKE t
      <3>1. \A i \in 1 .. k + 1 : i = k + 1 \/ i \in 1 .. k OBVIOUS
      <3>2. k + 1 \in 1 .. k + 1 /\ \A i \in 1 .. k : i \in 1 .. k + 1 OBVIOUS
      <3> QED BY <3>1, <3>2
    <2>8. \A t : t \in DOMAIN f[k + 1] <=> \E i \in 1 .. k + 1 : Has(L[i], files, t)
      BY <2>4, <2>5, <2>6, <2>7
    <2>9. ASSUME NEW t \in DOMAIN f[k + 1]
          PROVE  \E i : Decides(L, k + 1, files, t, i)
                    /\ f[k + 1][t] = files[<<L[i].at, Within(L[i], t)>>]
      <3>1. CASE t \in DOMAIN new
        <4>1. f[k + 1][t] = new[t] BY <2>3, <3>1 DEF Over
        <4>2. (k + 1) + 1 .. k + 1 = {} /\ k + 1 \in 1 .. k + 1 OBVIOUS
        <4>3. Decides(L, k + 1, files, t, k + 1) BY <2>4, <3>1, <4>2 DEF Decides
        <4> QED BY <2>4, <3>1, <4>1, <4>3
      <3>2. CASE t \notin DOMAIN new
        <4>1. t \in DOMAIN f[k] BY <2>6, <3>2
        <4>2. f[k + 1][t] = f[k][t] BY <2>3, <3>2, <4>1 DEF Over
        <4>3. PICK i : Decides(L, k, files, t, i)
                    /\ f[k][t] = files[<<L[i].at, Within(L[i], t)>>]
          BY <2>5, <4>1
        <4>4. ~Has(L[k + 1], files, t) BY <2>4, <3>2
        <4>5. \A j \in i + 1 .. k + 1 : j = k + 1 \/ j \in i + 1 .. k
          <5>1. i \in Nat BY <4>3 DEF Decides
          <5> QED BY <5>1
        <4>6. Decides(L, k + 1, files, t, i)
          <5>1. i \in 1 .. k + 1 BY <4>3 DEF Decides
          <5> QED BY <4>3, <4>4, <4>5, <5>1 DEF Decides
        <4> QED BY <4>2, <4>3, <4>6
      <3> QED BY <3>1, <3>2
    <2> QED BY <2>8, <2>9
  <1>4. Nat \subseteq S
    <2> HIDE DEF S
    <2> QED BY <1>2, <1>3, Induction
  <1>5. Right(n)
    <2> HIDE DEF Right
    <2> QED BY <1>4
  <1> QED BY <1>1, <1>5

-----------------------------------------------------------------------------
(***************************************************************************)
(* Staging.  Every item of the walk leads where its name does; every file   *)
(* copied is what its key means; and a file that a layer has is copied or   *)
(* still below some item of the walk.                                       *)
(***************************************************************************)
ItemOf(T) == [from : DOMAIN T, at : Spots, rel : Seq(Names), via : SUBSET DOMAIN T]

Led(T, G, layers, e) ==
    \E i \in 1 .. Len(layers) :
        layers[i].at = e.at /\ Leads(T, G, layers[i].from, e.rel, e.from)

Faithful(T, G, layers, began, key, content) ==
    /\ \E i \in 1 .. Len(layers) :
        /\ layers[i].at = key[1] /\ content.of \in FilesOf(T)
        /\ content.of \in G \/ MeansIn(T, G, layers[i].from, key[2]) = content.of
    /\ content.of \in began => content.rewritten

Covers(e, at, rel) == e.at = at /\ IsPrefix(e.rel, rel)

Found(T, G, layer, rel) == MeansIn(T, G, layer.from, rel) \in FilesOf(T) \ G

Staging(T, G, layers, began, todo, files) ==
    /\ todo \in Seq(ItemOf(T)) /\ Keyed(files)
    /\ \A e : Occurs(e, todo) => Led(T, G, layers, e)
    /\ \A key \in DOMAIN files : Faithful(T, G, layers, began, key, files[key])
    /\ \A i \in 1 .. Len(layers), rel \in Seq(Names) : Found(T, G, layers[i], rel)
            => \/ <<layers[i].at, rel>> \in DOMAIN files
               \/ \E e : Occurs(e, todo) /\ Covers(e, layers[i].at, rel)

LEMMA FitLayer ==
    ASSUME NEW T, NEW G, NEW m, NEW layers, Fit(T, G, m, layers), NEW i \in 1 .. Len(layers)
    PROVE  /\ layers[i] \in Layer(T) /\ layers[i].at \in Spots /\ layers[i].to \in Seq(Names)
           /\ layers[i].from \in DOMAIN T /\ T[layers[i].from].type # "link"
           /\ \A j \in 1 .. Len(layers) : layers[i].at = layers[j].at => i = j
           /\ Len(layers) \in Nat /\ DOMAIN layers = 1 .. Len(layers)
  <1>1. layers \in Seq(Layer(T)) BY DEF Fit
  <1>2. layers[i] \in Layer(T) BY <1>1, ElementOfSeq
  <1>3. Len(layers) \in Nat /\ DOMAIN layers = 1 .. Len(layers) BY <1>1, LenProperties
  <1> QED BY <1>2, <1>3 DEF Fit, Layer

LEMMA StagingFirst ==
    ASSUME NEW T, NEW G, NEW m, NEW layers, Fit(T, G, m, layers), NEW began,
           NEW todo, todo = [i \in DOMAIN << >> \cup DOMAIN layers |->
                                Item(layers[i].from, layers[i].at, << >>, {})]
    PROVE  Staging(T, G, layers, began, todo, << >>)
  <1> DEFINE n == Len(layers)
  <1>1. n \in Nat /\ DOMAIN layers = 1 .. n
    <2>1. layers \in Seq(Layer(T)) BY DEF Fit
    <2> QED BY <2>1, LenProperties
  <1>2. << >> \in Seq(Names) OBVIOUS
  <1>3. \A i \in 1 .. n : Item(layers[i].from, layers[i].at, << >>, {}) \in ItemOf(T)
    BY <1>2, FitLayer DEF Item, ItemOf
  <1>4. DOMAIN << >> \cup DOMAIN layers = 1 .. n BY <1>1
  <1> HIDE DEF n
  <1>5. todo = [i \in 1 .. n |-> Item(layers[i].from, layers[i].at, << >>, {})] BY <1>4
  <1>6. todo \in [1 .. n -> ItemOf(T)] BY <1>3, <1>5
  <1>7. todo \in Seq(ItemOf(T)) /\ Len(todo) = n BY <1>1, <1>6, SeqDef
  <1>8. ASSUME NEW i \in 1 .. n
        PROVE  /\ todo[i].from = layers[i].from /\ todo[i].at = layers[i].at
               /\ todo[i].rel = << >> /\ Occurs(todo[i], todo)
    <2>1. todo[i] = Item(layers[i].from, layers[i].at, << >>, {}) BY <1>5
    <2>2. Occurs(todo[i], todo) BY <1>7 DEF Occurs
    <2>3. /\ todo[i].from = layers[i].from /\ todo[i].at = layers[i].at
          /\ todo[i].rel = << >>
      BY <2>1 DEF Item
    <2> QED BY <2>2, <2>3
  <1>9. ASSUME NEW e, Occurs(e, todo) PROVE Led(T, G, layers, e)
    <2>1. PICK i \in 1 .. n : e = todo[i] BY <1>7, <1>9 DEF Occurs
    <2>2. T[layers[i].from].type # "link" BY FitLayer DEF n
    <2>3. Leads(T, G, layers[i].from, << >>, layers[i].from) BY <2>2, LeadsFirst
    <2> QED BY <1>8, <2>1, <2>3 DEF Led, n
  <1>10. ASSUME NEW i \in 1 .. Len(layers), NEW rel \in Seq(Names)
         PROVE  \E e : Occurs(e, todo) /\ Covers(e, layers[i].at, rel)
    <2>1. IsPrefix(<< >>, rel) BY PrefixItself
    <2> QED BY <1>8, <2>1 DEF Covers, n
  <1>11. DOMAIN << >> = {} OBVIOUS
  <1>12. Keyed(<< >>) BY <1>11 DEF Keyed
  <1> QED BY <1>7, <1>9, <1>10, <1>11, <1>12 DEF Staging

LEMMA HeadAndTail ==
    ASSUME NEW N, NEW todo \in Seq(N), todo # << >>
    PROVE  /\ Head(todo) \in N /\ Tail(todo) \in Seq(N)
           /\ \A e : Occurs(e, todo) <=> e = Head(todo) \/ Occurs(e, Tail(todo))
  <1>1. /\ Head(todo) \in N /\ Tail(todo) \in Seq(N) /\ Len(Tail(todo)) = Len(todo) - 1
        /\ \A i \in 1 .. Len(Tail(todo)) : Tail(todo)[i] = todo[i + 1]
    BY HeadTailProperties
  <1>2. Len(todo) \in Nat \ {0} /\ Head(todo) = todo[1] BY EmptySeq
  <1>3. PICK t : t = Tail(todo) OBVIOUS
  <1>4. ASSUME NEW e, Occurs(e, todo) PROVE e = todo[1] \/ Occurs(e, t)
    <2>1. PICK i \in 1 .. Len(todo) : todo[i] = e BY <1>4 DEF Occurs
    <2>2. CASE i = 1 BY <2>1, <2>2
    <2>3. CASE i # 1
      <3>1. i - 1 \in 1 .. Len(t) /\ (i - 1) + 1 = i BY <1>1, <1>2, <1>3, <2>3
      <3>2. t[i - 1] = todo[(i - 1) + 1] BY <1>1, <1>3, <3>1
      <3> QED BY <2>1, <3>1, <3>2 DEF Occurs
    <2> QED BY <2>2, <2>3
  <1>5. ASSUME NEW e, e = todo[1] \/ Occurs(e, t) PROVE Occurs(e, todo)
    <2>1. CASE e = todo[1]
      <3>1. 1 \in 1 .. Len(todo) BY <1>2
      <3> QED BY <2>1, <3>1 DEF Occurs
    <2>2. CASE Occurs(e, t)
      <3>1. PICK i \in 1 .. Len(t) : t[i] = e BY <2>2 DEF Occurs
      <3>2. i + 1 \in 1 .. Len(todo) /\ t[i] = todo[i + 1] BY <1>1, <1>2, <1>3
      <3> QED BY <3>1, <3>2 DEF Occurs
    <2> QED BY <1>5, <2>1, <2>2
  <1> QED BY <1>1, <1>2, <1>3, <1>4, <1>5

\* One item is replaced by what it leads to: the rest stays, and each file below
\* the item is found below what replaces it, or has been copied.
LEMMA StagingReplaces ==
    ASSUME NEW T, NEW G, NEW layers, NEW began, NEW todo, NEW files,
           Staging(T, G, layers, began, todo, files), todo # << >>,
           NEW next, next \in Seq(ItemOf(T)), NEW copied, Keyed(copied),
           DOMAIN files \subseteq DOMAIN copied,
           \A e : Occurs(e, Tail(todo)) => Occurs(e, next),
           \A e : Occurs(e, next) => Occurs(e, Tail(todo)) \/ Led(T, G, layers, e),
           \A key \in DOMAIN copied : Faithful(T, G, layers, began, key, copied[key]),
           \A i \in 1 .. Len(layers), rel \in Seq(Names) :
                Found(T, G, layers[i], rel) /\ Covers(Head(todo), layers[i].at, rel)
                => \/ <<layers[i].at, rel>> \in DOMAIN copied
                   \/ \E e : Occurs(e, next) /\ Covers(e, layers[i].at, rel)
    PROVE  Staging(T, G, layers, began, next, copied)
  <1>1. todo \in Seq(ItemOf(T)) BY DEF Staging
  <1>2. \A e : Occurs(e, todo) <=> e = Head(todo) \/ Occurs(e, Tail(todo))
    BY <1>1, HeadAndTail
  <1>3. \A e : Occurs(e, next) => Led(T, G, layers, e) BY <1>2 DEF Staging
  <1>4. ASSUME NEW i \in 1 .. Len(layers), NEW rel \in Seq(Names),
               Found(T, G, layers[i], rel)
        PROVE  \/ <<layers[i].at, rel>> \in DOMAIN copied
               \/ \E e : Occurs(e, next) /\ Covers(e, layers[i].at, rel)
    <2>1. \/ <<layers[i].at, rel>> \in DOMAIN files
          \/ \E e : Occurs(e, todo) /\ Covers(e, layers[i].at, rel)
      BY <1>4 DEF Staging
    <2>2. CASE <<layers[i].at, rel>> \in DOMAIN files BY <2>2
    <2>3. CASE \E e : Occurs(e, todo) /\ Covers(e, layers[i].at, rel)
      <3>1. PICK e : Occurs(e, todo) /\ Covers(e, layers[i].at, rel) BY <2>3
      <3>2. CASE e = Head(todo) BY <1>4, <3>1, <3>2
      <3>3. CASE Occurs(e, Tail(todo)) BY <3>1, <3>3
      <3> QED BY <1>2, <3>1, <3>2, <3>3
    <2> QED BY <2>1, <2>2, <2>3
  <1> QED BY <1>3, <1>4 DEF Staging

\* The layer an item belongs to.
LEMMA LedLayer ==
    ASSUME NEW T, NEW G, NEW m, NEW layers, Fit(T, G, m, layers), NEW e, Led(T, G, layers, e),
           NEW i \in 1 .. Len(layers), layers[i].at = e.at
    PROVE  Leads(T, G, layers[i].from, e.rel, e.from)
  <1>1. PICK j \in 1 .. Len(layers) :
            layers[j].at = e.at /\ Leads(T, G, layers[j].from, e.rel, e.from)
    BY DEF Led
  <1>2. i = j BY <1>1, FitLayer
  <1> QED BY <1>1, <1>2

LEMMA StagingLink ==
    ASSUME NEW T, FileTree(T), NEW G, NEW m, NEW layers, Fit(T, G, m, layers), NEW began,
           NEW todo, NEW files, Staging(T, G, layers, began, todo, files), todo # << >>,
           NEW item, item = Head(todo), item.from \notin G, T[item.from].type = "link",
           NEW to, to = T[item.from].to, to \in DOMAIN T \ G,
           NEW root, \A i \in 1 .. Len(layers) :
                        layers[i].at = item.at => root = layers[i].from,
           IsPrefix(root, to)
    PROVE  Staging(T, G, layers, began,
                <<Item(to, item.at, item.rel, item.via \cup {to})>> \o Tail(todo), files)
  <1> DEFINE e == Item(to, item.at, item.rel, item.via \cup {to})
             next == <<e>> \o Tail(todo)
  <1>1. todo \in Seq(ItemOf(T)) /\ Keyed(files) BY DEF Staging
  <1>2. item \in ItemOf(T) /\ Tail(todo) \in Seq(ItemOf(T)) /\ Occurs(item, todo)
    BY <1>1, HeadAndTail
  <1>3. /\ e.from = to /\ e.at = item.at /\ e.rel = item.rel /\ e \in ItemOf(T)
    BY <1>2 DEF Item, ItemOf
  <1>4. Led(T, G, layers, item) BY <1>2 DEF Staging
  <1>5. Led(T, G, layers, e)
    <2>1. PICK i \in 1 .. Len(layers) :
            layers[i].at = item.at /\ Leads(T, G, layers[i].from, item.rel, item.from)
      BY <1>4 DEF Led
    <2>2. item.from \in DOMAIN T \ G BY <1>2 DEF ItemOf
    <2>3. Leads(T, G, layers[i].from, item.rel, to) BY <2>1, <2>2, LeadsThroughLink
    <2> HIDE DEF e
    <2> QED BY <1>3, <2>1, <2>3 DEF Led
  <1> HIDE DEF e
  <1>6. next \in Seq(ItemOf(T)) /\ \A d : Occurs(d, next) <=> d = e \/ Occurs(d, Tail(todo))
    BY <1>2, <1>3, OccursFirst
  <1> HIDE DEF next
  <1>7. \A d : Occurs(d, Tail(todo)) => Occurs(d, next) BY <1>6
  <1>8. \A d : Occurs(d, next) => Occurs(d, Tail(todo)) \/ Led(T, G, layers, d)
    BY <1>5, <1>6
  <1>9. \A key \in DOMAIN files : Faithful(T, G, layers, began, key, files[key])
    BY DEF Staging
  <1>10. \A i \in 1 .. Len(layers), rel \in Seq(Names) :
            Found(T, G, layers[i], rel) /\ Covers(Head(todo), layers[i].at, rel)
            => \/ <<layers[i].at, rel>> \in DOMAIN files
               \/ \E d : Occurs(d, next) /\ Covers(d, layers[i].at, rel)
    BY <1>3, <1>6 DEF Covers
  <1>11. Staging(T, G, layers, began, next, files)
    BY <1>1, <1>6, <1>7, <1>8, <1>9, <1>10, StagingReplaces
  <1> QED BY <1>11 DEF next, e

LEMMA StagingDirectory ==
    ASSUME NEW T, FileTree(T), NEW G, NEW m, NEW layers, Fit(T, G, m, layers), NEW began,
           NEW todo, NEW files, Staging(T, G, layers, began, todo, files), todo # << >>,
           NEW item, item = Head(todo), item.from \notin G, T[item.from].type = "dir"
    PROVE  Staging(T, G, layers, began,
                Entries(item, Listed(T, G, item.from), Tail(todo)), files)
  <1> DEFINE walked == Listed(T, G, item.from)
             next == Entries(item, walked, Tail(todo))
  <1>1. todo \in Seq(ItemOf(T)) /\ Keyed(files) BY DEF Staging
  <1>2. item \in ItemOf(T) /\ Tail(todo) \in Seq(ItemOf(T)) /\ Occurs(item, todo)
    BY <1>1, HeadAndTail
  <1>3. /\ item.from \in DOMAIN T \ G /\ item.at \in Spots /\ item.rel \in Seq(Names)
        /\ item.via \in SUBSET DOMAIN T
    BY <1>2 DEF ItemOf
  <1>4. Led(T, G, layers, item) BY <1>2 DEF Staging
  <1>5. IsFiniteSet(walked)
    <2>1. IsFiniteSet(DOMAIN T) /\ walked \in SUBSET DOMAIN T BY DEF FileTree, Listed
    <2> QED BY <2>1, FS_Subset
  <1>6. ASSUME NEW q \in walked
        PROVE  /\ Entry(item, q) \in ItemOf(T) /\ Entry(item, q).from = q
               /\ Entry(item, q).at = item.at
               /\ Entry(item, q).rel = Append(item.rel, Last(q))
               /\ Led(T, G, layers, Entry(item, q))
    <2>1. q \in DOMAIN T /\ q # << >> BY DEF Listed
    <2>2. Last(q) \in Names BY <2>1, FrontAndLast
    <2>3. Append(item.rel, Last(q)) \in Seq(Names) BY <1>3, <2>2, AppendProperties
    <2>4. /\ Entry(item, q).from = q /\ Entry(item, q).at = item.at
          /\ Entry(item, q).rel = Append(item.rel, Last(q))
      BY DEF Entry, Item
    <2>5. Entry(item, q) \in ItemOf(T) BY <1>3, <2>1, <2>3 DEF Entry, Item, ItemOf
    <2>6. PICK i \in 1 .. Len(layers) :
            layers[i].at = item.at /\ Leads(T, G, layers[i].from, item.rel, item.from)
      BY <1>4 DEF Led
    <2>7. Leads(T, G, layers[i].from, Append(item.rel, Last(q)), q)
      BY <1>3, <2>6, LeadsDown
    <2>8. Led(T, G, layers, Entry(item, q)) BY <2>4, <2>6, <2>7 DEF Led
    <2> QED BY <2>4, <2>5, <2>8
  <1> HIDE DEF walked
  <1>7. /\ next \in Seq(ItemOf(T))
        /\ \A d : Occurs(d, next)
              <=> (\E q \in walked : d = Entry(item, q)) \/ Occurs(d, Tail(todo))
    <2>1. \A q \in walked : Entry(item, q) \in ItemOf(T) BY <1>6
    <2>2. PICK rest : rest = Tail(todo) OBVIOUS
    <2>3. rest \in Seq(ItemOf(T)) BY <1>2, <2>2
    <2>4. Entries(item, walked, rest) \in Seq(ItemOf(T)) BY <1>5, <2>1, <2>3, EntriesAre
    <2>5. \A d : Occurs(d, Entries(item, walked, rest))
              <=> (\E q \in walked : d = Entry(item, q)) \/ Occurs(d, rest)
      BY <1>5, <2>1, <2>3, EntriesAre
    <2> QED BY <2>2, <2>4, <2>5
  <1> HIDE DEF next
  <1>8. \A d : Occurs(d, Tail(todo)) => Occurs(d, next) BY <1>7
  <1>9. \A d : Occurs(d, next) => Occurs(d, Tail(todo)) \/ Led(T, G, layers, d)
    BY <1>6, <1>7
  <1>10. \A key \in DOMAIN files : Faithful(T, G, layers, began, key, files[key])
    BY DEF Staging
  <1>11. ASSUME NEW i \in 1 .. Len(layers), NEW rel \in Seq(Names),
                Found(T, G, layers[i], rel), Covers(Head(todo), layers[i].at, rel)
         PROVE  \E d : Occurs(d, next) /\ Covers(d, layers[i].at, rel)
    <2>1. item.at = layers[i].at /\ IsPrefix(item.rel, rel) BY <1>11 DEF Covers
    <2>2. Leads(T, G, layers[i].from, item.rel, item.from) BY <1>4, <2>1, LedLayer
    <2>3. MeansIn(T, G, layers[i].from, rel) \in FilesOf(T) \ G BY <1>11 DEF Found
    <2>4. rel # item.rel
      <3>1. MeansIn(T, G, layers[i].from, item.rel) = item.from BY <1>3, <2>2 DEF Leads
      <3> QED BY <2>3, <3>1 DEF FilesOf
    <2>5. \E q \in walked : IsPrefix(Append(item.rel, Last(q)), rel)
      <3>1. MeansIn(T, G, layers[i].from, rel) \in DOMAIN T BY <2>3 DEF FilesOf
      <3>2. T[item.from].type # "link" OBVIOUS
      <3> QED BY <1>3, <2>1, <2>2, <2>4, <3>1, <3>2, FurtherDown DEF walked
    <2>6. PICK q \in walked : IsPrefix(Append(item.rel, Last(q)), rel) BY <2>5
    <2>7. Occurs(Entry(item, q), next) BY <1>7, <2>6
    <2>8. Entry(item, q).at = item.at /\ Entry(item, q).rel = Append(item.rel, Last(q))
      BY <1>6
    <2>9. Covers(Entry(item, q), layers[i].at, rel) BY <2>1, <2>6, <2>8 DEF Covers
    <2> QED BY <2>7, <2>9
  <1>12. Staging(T, G, layers, began, next, files)
    BY <1>1, <1>7, <1>8, <1>9, <1>10, <1>11, StagingReplaces
  <1> QED BY <1>12 DEF next, walked

LEMMA StagingFile ==
    ASSUME NEW T, FileTree(T), NEW G, NEW m, NEW layers, Fit(T, G, m, layers), NEW began,
           NEW todo, NEW files, Staging(T, G, layers, began, todo, files), todo # << >>,
           NEW item, item = Head(todo), item.from \notin G, T[item.from].type = "file",
           NEW E, began \subseteq E,
           NEW content, content = [of |-> item.from, rewritten |-> item.from \in E]
    PROVE  Staging(T, G, layers, began, Tail(todo), Put(files, <<item.at, item.rel>>, content))
  <1> DEFINE new == <<item.at, item.rel>>
             copied == Put(files, new, content)
  <1>1. todo \in Seq(ItemOf(T)) /\ Keyed(files) BY DEF Staging
  <1>2. item \in ItemOf(T) /\ Tail(todo) \in Seq(ItemOf(T)) /\ Occurs(item, todo)
    BY <1>1, HeadAndTail
  <1>3. item.from \in DOMAIN T \ G /\ item.rel \in Seq(Names) /\ item.from \in FilesOf(T)
    BY <1>2 DEF ItemOf, FilesOf
  <1>4. Led(T, G, layers, item) BY <1>2 DEF Staging
  <1>5. new[1] = item.at /\ new[2] = item.rel /\ new = <<new[1], new[2]>> OBVIOUS
  <1> HIDE DEF new
  <1>6. /\ DOMAIN copied = DOMAIN files \cup {new} /\ copied[new] = content
        /\ \A key \in DOMAIN files : key # new => copied[key] = files[key]
    BY DEF Put, Over
  <1> HIDE DEF copied
  <1>7. Keyed(copied) BY <1>1, <1>3, <1>5, <1>6 DEF Keyed
  <1>8. Faithful(T, G, layers, began, new, content)
    <2>1. PICK i \in 1 .. Len(layers) :
            layers[i].at = item.at /\ Leads(T, G, layers[i].from, item.rel, item.from)
      BY <1>4 DEF Led
    <2>2. MeansIn(T, G, layers[i].from, item.rel) = item.from BY <1>3, <2>1 DEF Leads
    <2>3. content.of = item.from /\ content.rewritten = (item.from \in E) OBVIOUS
    <2>4. content.of \in began => content.rewritten BY <2>3
    <2> HIDE DEF copied
    <2>5. content.of \in FilesOf(T) BY <1>3, <2>3
    <2> QED BY <1>5, <2>1, <2>2, <2>3, <2>4, <2>5 DEF Faithful
  <1>9. \A key \in DOMAIN copied : Faithful(T, G, layers, began, key, copied[key])
    <2>1. \A key \in DOMAIN files : Faithful(T, G, layers, began, key, files[key])
      BY DEF Staging
    <2> QED BY <1>6, <1>8, <2>1
  <1>10. ASSUME NEW i \in 1 .. Len(layers), NEW rel \in Seq(Names),
                Found(T, G, layers[i], rel), Covers(Head(todo), layers[i].at, rel)
         PROVE  <<layers[i].at, rel>> \in DOMAIN copied
    <2>1. item.at = layers[i].at /\ IsPrefix(item.rel, rel) BY <1>10 DEF Covers
    <2>2. Leads(T, G, layers[i].from, item.rel, item.from) BY <1>4, <2>1, LedLayer
    <2>3. rel = item.rel
      <3>1. MeansIn(T, G, layers[i].from, rel) \in DOMAIN T
        BY <1>10 DEF Found, FilesOf
      <3>2. T[item.from].type # "link" /\ T[item.from].type # "dir" OBVIOUS
      <3> QED BY <1>3, <2>1, <2>2, <3>1, <3>2, FurtherDown
    <2>4. <<layers[i].at, rel>> = new BY <2>1, <2>3 DEF new
    <2> QED BY <1>6, <2>4
  <1>11. DOMAIN files \subseteq DOMAIN copied BY <1>6
  <1>12. \A e : Occurs(e, Tail(todo)) => Occurs(e, Tail(todo)) \/ Led(T, G, layers, e)
    OBVIOUS
  <1>13. \A e : Occurs(e, Tail(todo)) => Occurs(e, Tail(todo)) OBVIOUS
  <1>14. Staging(T, G, layers, began, Tail(todo), copied)
    <2>1. PICK next : next = Tail(todo) OBVIOUS
    <2>2. \A i \in 1 .. Len(layers), rel \in Seq(Names) :
            Found(T, G, layers[i], rel) /\ Covers(Head(todo), layers[i].at, rel)
            => \/ <<layers[i].at, rel>> \in DOMAIN copied
               \/ \E e : Occurs(e, next) /\ Covers(e, layers[i].at, rel)
      BY <1>10
    <2>3. next \in Seq(ItemOf(T)) BY <1>2, <2>1
    <2>4. \A e : Occurs(e, Tail(todo)) => Occurs(e, next) BY <2>1
    <2>5. \A e : Occurs(e, next) => Occurs(e, Tail(todo)) \/ Led(T, G, layers, e) BY <2>1
    <2>6. Staging(T, G, layers, began, next, copied)
      BY <1>7, <1>9, <1>11, <2>2, <2>3, <2>4, <2>5, StagingReplaces
    <2> QED BY <2>1, <2>6
  <1> QED BY <1>14 DEF copied, new

\* The host removes a file while the walk goes on.
LEMMA FoundRemains ==
    ASSUME NEW T, FileTree(T), NEW G, NEW x \in FilesOf(T), NEW layer,
           NEW rel \in Seq(Names), Found(T, G \cup {x}, layer, rel)
    PROVE  /\ Found(T, G, layer, rel)
           /\ MeansIn(T, G \cup {x}, layer.from, rel) = MeansIn(T, G, layer.from, rel)
  <1>1. Remains(x, MeansIn(T, G, layer.from, rel), MeansIn(T, G \cup {x}, layer.from, rel))
    BY MeansRemains
  <1>2. MeansIn(T, G \cup {x}, layer.from, rel) \in FilesOf(T) \ (G \cup {x}) BY DEF Found
  <1>3. Nowhere \notin FilesOf(T) BY DEF FileTree, FilesOf
  <1> QED BY <1>1, <1>2, <1>3 DEF Remains, Found

LEMMA MeaningRemains ==
    ASSUME NEW T, FileTree(T), NEW G, NEW x \in FilesOf(T), NEW root, NEW rel \in Seq(Names),
           NEW p, p \in G \/ MeansIn(T, G, root, rel) = p
    PROVE  p \in G \cup {x} \/ MeansIn(T, G \cup {x}, root, rel) = p
  <1>1. Remains(x, MeansIn(T, G, root, rel), MeansIn(T, G \cup {x}, root, rel))
    BY MeansRemains
  <1> QED BY <1>1 DEF Remains

LEMMA StagingRemains ==
    ASSUME NEW T, FileTree(T), NEW G, NEW x \in FilesOf(T), NEW layers, NEW began,
           NEW todo, NEW files, Staging(T, G, layers, began, todo, files)
    PROVE  Staging(T, G \cup {x}, layers, began, todo, files)
  <1>1. todo \in Seq(ItemOf(T)) /\ Keyed(files) BY DEF Staging
  <1>2. ASSUME NEW e, Occurs(e, todo) PROVE Led(T, G \cup {x}, layers, e)
    <2>1. PICK n \in 1 .. Len(todo) : todo[n] = e BY <1>2 DEF Occurs
    <2>2. e \in ItemOf(T) BY <1>1, <2>1, ElementOfSeq
    <2>3. e.from \in DOMAIN T /\ Len(e.rel) \in Nat
      <3>1. e.from \in DOMAIN T /\ e.rel \in Seq(Names) BY <2>2 DEF ItemOf
      <3> QED BY <3>1, LenProperties
    <2>4. PICK i \in 1 .. Len(layers) :
            layers[i].at = e.at /\ Leads(T, G, layers[i].from, e.rel, e.from)
      BY <1>2 DEF Staging, Led
    <2>5. Leads(T, G \cup {x}, layers[i].from, e.rel, e.from)
      BY <2>3, <2>4, LeadsRemain
    <2> QED BY <2>4, <2>5 DEF Led
  <1>3. ASSUME NEW key \in DOMAIN files
        PROVE  Faithful(T, G \cup {x}, layers, began, key, files[key])
    <2> DEFINE content == files[key]
    <2>1. Faithful(T, G, layers, began, key, content) BY DEF Staging
    <2> HIDE DEF content
    <2>2. key[2] \in Seq(Names) BY <1>1 DEF Keyed
    <2>3. PICK i \in 1 .. Len(layers) :
            /\ layers[i].at = key[1] /\ content.of \in FilesOf(T)
            /\ content.of \in G \/ MeansIn(T, G, layers[i].from, key[2]) = content.of
      BY <2>1 DEF Faithful
    <2>4. \/ content.of \in G \cup {x}
          \/ MeansIn(T, G \cup {x}, layers[i].from, key[2]) = content.of
      BY <2>2, <2>3, MeaningRemains
    <2>5. content.of \in began => content.rewritten BY <2>1 DEF Faithful
    <2>6. Faithful(T, G \cup {x}, layers, began, key, content)
      BY <2>3, <2>4, <2>5 DEF Faithful
    <2> QED BY <2>6 DEF content
  <1>4. ASSUME NEW i \in 1 .. Len(layers), NEW rel \in Seq(Names),
               Found(T, G \cup {x}, layers[i], rel)
        PROVE  \/ <<layers[i].at, rel>> \in DOMAIN files
               \/ \E e : Occurs(e, todo) /\ Covers(e, layers[i].at, rel)
    <2>1. Found(T, G, layers[i], rel) BY <1>4, FoundRemains
    <2> QED BY <2>1 DEF Staging
  <1> QED BY <1>1, <1>2, <1>3, <1>4 DEF Staging

-----------------------------------------------------------------------------
(***************************************************************************)
(* The image, while nobody has tagged it: every file is that of the last    *)
(* layer that has one for its place, and every such place has a file.       *)
(***************************************************************************)
Declares(T, G, layer, t) ==
    t \in Seq(Names) /\ IsPrefix(layer.to, t) /\ Found(T, G, layer, Within(layer, t))

Whole(T, G, layers, began, files) ==
    /\ \A t \in DOMAIN files :
        /\ t \in Seq(Names) /\ files[t].of \in FilesOf(T)
        /\ \/ files[t].of \in G
           \/ \E i \in 1 .. Len(layers) :
                /\ Declares(T, G, layers[i], t)
                /\ \A j \in 1 .. Len(layers) : Declares(T, G, layers[j], t) => j <= i
                /\ files[t].of = MeansIn(T, G, layers[i].from, Within(layers[i], t))
        /\ files[t].of \in began => files[t].rewritten
    /\ \A i \in 1 .. Len(layers) : \A t : Declares(T, G, layers[i], t) => t \in DOMAIN files

LEMMA WithinIsName ==
    ASSUME NEW layer, layer.to \in Seq(Names), NEW t \in Seq(Names), IsPrefix(layer.to, t)
    PROVE  Within(layer, t) \in Seq(Names)
  BY BelowTarget DEF Within

LEMMA WholeFirst ==
    ASSUME NEW T, FileTree(T), NEW G, NEW m, NEW layers, Fit(T, G, m, layers), NEW began,
           NEW files, Staging(T, G, layers, began, << >>, files),
           NEW L, L = LayersIn(T, G, m)
    PROVE  Whole(T, G, layers, began, FilesIn(L, files))
  <1> DEFINE n == Len(layers)
  <1>1. /\ n \in Nat /\ DOMAIN L = 1 .. n /\ Len(L) = n
        /\ \A i \in 1 .. n : L[i].to = layers[i].to /\ L[i].at = layers[i].at
    <2>1. layers \in Seq(Layer(T)) /\ L \in Seq(Layer(T)) /\ Len(L) = n BY DEF Fit
    <2>2. n \in Nat /\ DOMAIN L = 1 .. Len(L) BY <2>1, LenProperties
    <2>3. \A i \in 1 .. n : L[i].to = layers[i].to /\ L[i].at = layers[i].at BY DEF Fit
    <2> QED BY <2>1, <2>2, <2>3
  <1>2. \A i \in 1 .. n : layers[i].to \in Seq(Names) BY FitLayer
  <1>3. Keyed(files) BY DEF Staging
  <1>4. \A e : ~Occurs(e, << >>) BY DEF Occurs
  <1> HIDE DEF n
  <1>5. \A i \in 1 .. n : L[i].to \in Seq(Names) BY <1>1, <1>2
  <1>13. \A t : t \in DOMAIN FilesIn(L, files) <=> \E i \in 1 .. n : Has(L[i], files, t)
    BY <1>1, <1>3, <1>5, FilesAre
  <1>14. \A t \in DOMAIN FilesIn(L, files) : \E i : Decides(L, n, files, t, i)
                /\ FilesIn(L, files)[t] = files[<<L[i].at, Within(L[i], t)>>]
    BY <1>1, <1>3, <1>5, FilesAre, SMTT(30)
  <1> DEFINE F == FilesIn(L, files)
  <1>6. /\ \A t : t \in DOMAIN F <=> \E i \in 1 .. n : Has(L[i], files, t)
        /\ \A t \in DOMAIN F : \E i : Decides(L, n, files, t, i)
                /\ F[t] = files[<<L[i].at, Within(L[i], t)>>]
    BY <1>13, <1>14
  <1> HIDE DEF F
  <1>7. \A i \in 1 .. n : \A t : Has(L[i], files, t) <=> Has(layers[i], files, t)
    BY <1>1 DEF Has, Within
  <1>8. \A i \in 1 .. n : \A t : Within(L[i], t) = Within(layers[i], t) BY <1>1 DEF Within
  <1>9. ASSUME NEW i \in 1 .. n, NEW t, Declares(T, G, layers[i], t)
        PROVE  Has(layers[i], files, t)
    <2>1. t \in Seq(Names) /\ IsPrefix(layers[i].to, t)
            /\ Found(T, G, layers[i], Within(layers[i], t))
      BY <1>9 DEF Declares
    <2>2. Within(layers[i], t) \in Seq(Names) BY <1>2, <2>1, WithinIsName
    <2>3. <<layers[i].at, Within(layers[i], t)>> \in DOMAIN files
      BY <1>4, <2>1, <2>2 DEF Staging, n
    <2> QED BY <2>1, <2>3 DEF Has
  <1>10. ASSUME NEW t \in DOMAIN F
         PROVE  /\ t \in Seq(Names) /\ F[t].of \in FilesOf(T)
                /\ \/ F[t].of \in G
                   \/ \E i \in 1 .. n :
                        /\ Declares(T, G, layers[i], t)
                        /\ \A j \in 1 .. n : Declares(T, G, layers[j], t) => j <= i
                        /\ F[t].of = MeansIn(T, G, layers[i].from, Within(layers[i], t))
                /\ F[t].of \in began => F[t].rewritten
    <2>1. PICK i : Decides(L, n, files, t, i)
                /\ F[t] = files[<<L[i].at, Within(L[i], t)>>]
      BY <1>6
    <2>2. i \in 1 .. n /\ Has(layers[i], files, t)
            /\ \A j \in i + 1 .. n : ~Has(L[j], files, t)
      BY <1>7, <2>1 DEF Decides
    <2> DEFINE key == <<layers[i].at, Within(layers[i], t)>>
               content == F[t]
    <2>3. key \in DOMAIN files /\ t \in Seq(Names) /\ IsPrefix(layers[i].to, t)
      BY <2>2 DEF Has
    <2>4. content = files[key] BY <1>1, <1>8, <2>1, <2>2
    <2>5. key[1] = layers[i].at /\ key[2] = Within(layers[i], t) OBVIOUS
    <2> HIDE DEF key
    <2>6. Faithful(T, G, layers, began, key, content) BY <2>3, <2>4 DEF Staging
    <2> HIDE DEF content
    <2>7. PICK h \in 1 .. n :
            /\ layers[h].at = key[1] /\ content.of \in FilesOf(T)
            /\ content.of \in G \/ MeansIn(T, G, layers[h].from, key[2]) = content.of
      BY <2>6 DEF Faithful, n
    <2>8. h = i BY <2>2, <2>5, <2>7, FitLayer DEF n
    <2>9. content.of \in began => content.rewritten BY <2>6 DEF Faithful
    <2>10. ASSUME content.of \notin G
           PROVE  /\ Declares(T, G, layers[i], t)
                  /\ content.of = MeansIn(T, G, layers[i].from, Within(layers[i], t))
                  /\ \A j \in 1 .. n : Declares(T, G, layers[j], t) => j <= i
      <3>1. MeansIn(T, G, layers[i].from, Within(layers[i], t)) = content.of
        BY <2>5, <2>7, <2>8, <2>10
      <3>2. Declares(T, G, layers[i], t)
        BY <2>3, <2>7, <2>10, <3>1 DEF Declares, Found
      <3>3. ASSUME NEW j \in 1 .. n, Declares(T, G, layers[j], t) PROVE j <= i
        <4>1. Has(L[j], files, t) BY <1>7, <1>9, <3>3
        <4>2. ~(j \in i + 1 .. n) BY <2>2, <4>1
        <4> QED BY <1>1, <2>2, <4>2
      <3> QED BY <3>1, <3>2, <3>3
    <2> QED BY <2>2, <2>3, <2>7, <2>9, <2>10 DEF content
  <1>11. ASSUME NEW i \in 1 .. n, NEW t, Declares(T, G, layers[i], t) PROVE t \in DOMAIN F
    BY <1>6, <1>7, <1>9, <1>11
  <1>12. Whole(T, G, layers, began, F) BY <1>10, <1>11 DEF Whole, n
  <1> QED BY <1>12 DEF F

LEMMA WholeRemains ==
    ASSUME NEW T, FileTree(T), NEW G, NEW x \in FilesOf(T), NEW m, NEW layers,
           Fit(T, G, m, layers), NEW began, NEW files, Whole(T, G, layers, began, files)
    PROVE  Whole(T, G \cup {x}, layers, began, files)
  <1> DEFINE n == Len(layers)
  <1>1. \A i \in 1 .. n : layers[i].to \in Seq(Names) BY FitLayer
  <1>2. ASSUME NEW i \in 1 .. n, NEW t, Declares(T, G \cup {x}, layers[i], t)
        PROVE  Declares(T, G, layers[i], t)
    <2>1. t \in Seq(Names) /\ IsPrefix(layers[i].to, t)
            /\ Found(T, G \cup {x}, layers[i], Within(layers[i], t))
      BY <1>2 DEF Declares
    <2>2. Within(layers[i], t) \in Seq(Names) BY <1>1, <2>1, WithinIsName
    <2>3. Found(T, G, layers[i], Within(layers[i], t)) BY <2>1, <2>2, FoundRemains
    <2> QED BY <2>1, <2>3 DEF Declares
  <1>3. ASSUME NEW t \in DOMAIN files
        PROVE  /\ t \in Seq(Names) /\ files[t].of \in FilesOf(T)
               /\ \/ files[t].of \in G \cup {x}
                  \/ \E i \in 1 .. n :
                        /\ Declares(T, G \cup {x}, layers[i], t)
                        /\ \A j \in 1 .. n :
                                Declares(T, G \cup {x}, layers[j], t) => j <= i
                        /\ files[t].of
                              = MeansIn(T, G \cup {x}, layers[i].from, Within(layers[i], t))
               /\ files[t].of \in began => files[t].rewritten
    <2>1. /\ t \in Seq(Names) /\ files[t].of \in FilesOf(T)
          /\ files[t].of \in began => files[t].rewritten
      BY DEF Whole
    <2>2. CASE files[t].of \in G \cup {x} BY <2>1, <2>2
    <2>3. CASE files[t].of \notin G \cup {x}
      <3>1. PICK i \in 1 .. n :
                /\ Declares(T, G, layers[i], t)
                /\ \A j \in 1 .. n : Declares(T, G, layers[j], t) => j <= i
                /\ files[t].of = MeansIn(T, G, layers[i].from, Within(layers[i], t))
        BY <2>3 DEF Whole
      <3>2. IsPrefix(layers[i].to, t) BY <3>1 DEF Declares
      <3>3. Within(layers[i], t) \in Seq(Names) BY <1>1, <2>1, <3>2, WithinIsName
      <3>4. MeansIn(T, G \cup {x}, layers[i].from, Within(layers[i], t)) = files[t].of
        BY <2>3, <3>1, <3>3, MeaningRemains
      <3>5. Declares(T, G \cup {x}, layers[i], t)
        BY <2>1, <2>3, <3>2, <3>4 DEF Declares, Found
      <3>6. \A j \in 1 .. n : Declares(T, G \cup {x}, layers[j], t) => j <= i
        BY <1>2, <3>1
      <3> QED BY <2>1, <3>4, <3>5, <3>6
    <2> QED BY <2>2, <2>3
  <1>4. ASSUME NEW i \in 1 .. n, NEW t, Declares(T, G \cup {x}, layers[i], t)
        PROVE  t \in DOMAIN files
    BY <1>2, <1>4 DEF Whole
  <1> QED BY <1>3, <1>4 DEF Whole

-----------------------------------------------------------------------------
(***************************************************************************)
(* Every state: the tree is a tree, only files are removed, and a build    *)
(* and a context keep their fields.                                        *)
(***************************************************************************)
Parts == {"pc", "layers", "todo", "began", "lost", "made", "reported"}
Pieces == {"there", "recipe", "files"}

Basics ==
    /\ FileTree(tree) /\ \A b \in Builds : Asked(request[b])
    /\ gone \subseteq FilesOf(tree) /\ edited \subseteq FilesOf(tree)
    /\ DOMAIN build = Builds /\ \A b \in Builds : DOMAIN build[b] = Parts
    /\ DOMAIN contexts = Builds \cup Directories
    /\ \A d \in Builds \cup Directories : DOMAIN contexts[d] = Pieces

LEMMA PlaceIs ==
    ASSUME Basics, NEW b \in Builds
    PROVE  /\ Place(b) \in Builds \cup Directories
           /\ \A c \in Builds : Place(b) = c => b = c
  <1>1. Asked(request[b]) BY DEF Basics
  <1>2. request[b].staging = Temporary \/ request[b].staging \in Directories BY <1>1 DEF Asked
  <1> QED BY <1>2, BuildAssumption DEF Place

LEMMA StepDoes ==
    ASSUME Basics, NEW b \in Builds, NEW s, Step(b, s)
    PROVE  /\ DOMAIN build' = Builds /\ build'[b] = s
           /\ \A c \in Builds \ {b} : build'[c] = build[c]
  BY DEF Basics, Step

\* What a build leaves alone, and what it leaves to the others.
Others(b) ==
    /\ DOMAIN build' = Builds
    /\ \A c \in Builds \ {b} : build'[c] = build[c]

ContextsElse(b) ==
    /\ DOMAIN contexts' = Builds \cup Directories
    /\ \A d \in (Builds \cup Directories) \ {Place(b)} : contexts'[d] = contexts[d]

\* Somebody goes to another point, and nothing else happens to the build.
LEMMA ReachesDoes ==
    ASSUME Basics, NEW b \in Builds, NEW pc, Reaches(b, pc)
    PROVE  Others(b) /\ build'[b] = [build[b] EXCEPT !.pc = pc] /\ build'[b].pc = pc
           /\ DOMAIN build'[b] = Parts
           /\ \A x \in Parts \ {"pc"} : build'[b][x] = build[b][x]
  <1>1. Others(b) /\ build'[b] = [build[b] EXCEPT !.pc = pc]
    BY StepDoes DEF Reaches, Others
  <1>2. DOMAIN build[b] = Parts BY DEF Basics
  <1> QED BY <1>1, <1>2 DEF Parts

-----------------------------------------------------------------------------
(***************************************************************************)
(* What each step does.                                                    *)
(***************************************************************************)
Declared(b) == request[b].manifest
Context(b) == contexts[Place(b)]

\* A step that only the build and its own context see.
Inner(b) ==
    /\ Others(b) /\ ContextsElse(b)
    /\ DOMAIN build'[b] = Parts /\ DOMAIN contexts'[Place(b)] = Pieces
    /\ UNCHANGED <<tree, gone, edited, request>>

LEMMA InnerKeepsBasics ==
    ASSUME Basics, NEW b \in Builds, Inner(b)
    PROVE  Basics'
  <1>1. \A c \in Builds : DOMAIN build'[c] = Parts BY DEF Basics, Inner, Others
  <1>2. \A d \in Builds \cup Directories : DOMAIN contexts'[d] = Pieces
    BY DEF Basics, Inner, ContextsElse
  <1>3. tree' = tree /\ gone' = gone /\ edited' = edited /\ request' = request BY DEF Inner
  <1>4. DOMAIN build' = Builds /\ DOMAIN contexts' = Builds \cup Directories
    BY DEF Inner, Others, ContextsElse
  <1> QED BY <1>1, <1>2, <1>3, <1>4 DEF Basics

LEMMA NothingElsewhere ==
    ASSUME Basics, NEW b \in Builds, contexts' = contexts
    PROVE  ContextsElse(b) /\ DOMAIN contexts'[Place(b)] = Pieces
  BY PlaceIs DEF Basics, ContextsElse

\* A step that moves the build on, and no more.
Moves(b, from, to) ==
    /\ Inner(b) /\ build[b].pc = from /\ build'[b].pc = to
    /\ \A x \in Parts \ {"pc"} : build'[b][x] = build[b][x]
    /\ contexts' = contexts /\ tags' = tags

LEMMA ReachesMoves ==
    ASSUME Basics, NEW b \in Builds, NEW pc, Reaches(b, pc),
           UNCHANGED <<tree, gone, edited, request, contexts, tags>>
    PROVE  Moves(b, build[b].pc, pc)
  <1>1. Others(b) /\ build'[b].pc = pc /\ DOMAIN build'[b] = Parts
          /\ \A x \in Parts \ {"pc"} : build'[b][x] = build[b][x]
    BY ReachesDoes
  <1>2. contexts' = contexts /\ tags' = tags OBVIOUS
  <1>3. ContextsElse(b) /\ DOMAIN contexts'[Place(b)] = Pieces BY <1>2, NothingElsewhere
  <1>4. Inner(b) BY <1>1, <1>3 DEF Inner
  <1> QED BY <1>1, <1>2, <1>4 DEF Moves

LEMMA LoadDoes ==
    ASSUME Basics, NEW b \in Builds, Load(b)
    PROVE  \/ Moves(b, "idle", "loaded") /\ Valid(Declared(b))
           \/ Moves(b, "idle", "refused")
  <1>1. build[b].pc = "idle" BY DEF Load, At
  <1>2. UNCHANGED <<tree, gone, edited, request, contexts, tags>> BY DEF Load, hostVars
  <1>3. Reaches(b, IF Valid(request[b].manifest) THEN "loaded" ELSE "refused") BY DEF Load
  <1>4. CASE Valid(request[b].manifest)
    <2>1. Reaches(b, "loaded") BY <1>3, <1>4
    <2> QED BY <1>1, <1>2, <1>4, <2>1, ReachesMoves DEF Declared
  <1>5. CASE ~Valid(request[b].manifest)
    <2>1. Reaches(b, "refused") BY <1>3, <1>5
    <2> QED BY <1>1, <1>2, <2>1, ReachesMoves
  <1> QED BY <1>4, <1>5

LEMMA PlanDoes ==
    ASSUME Basics, NEW b \in Builds, Plan(b)
    PROVE  \/ Moves(b, "loaded", "refused")
           \/ /\ Inner(b) /\ build[b].pc = "loaded" /\ build'[b].pc = "planned"
              /\ build'[b].layers = Layers(Declared(b))
              /\ \A i \in DOMAIN Layers(Declared(b)) : There(Layers(Declared(b))[i].from)
              /\ build'[b].began = edited /\ build'[b].lost = gone
              /\ \A x \in {"todo", "made", "reported"} : build'[b][x] = build[b][x]
              /\ \A x \in {"recipe", "files"} : Context(b)'[x] = Context(b)[x]
              /\ tags' = tags
  <1> DEFINE layers == Layers(request[b].manifest)
  <1>1. build[b].pc = "loaded" BY DEF Plan, At
  <1>2. UNCHANGED <<tree, gone, edited, request, tags>> BY DEF Plan, hostVars
  <1>3. CASE \E i \in DOMAIN layers : ~There(layers[i].from)
    <2>1. Reaches(b, "refused") /\ contexts' = contexts BY <1>3 DEF Plan
    <2> QED BY <1>1, <1>2, <2>1, ReachesMoves
  <1>4. CASE ~\E i \in DOMAIN layers : ~There(layers[i].from)
    <2>1. /\ Step(b, [build[b] EXCEPT !.pc = "planned", !.layers = layers,
                                      !.began = edited, !.lost = gone])
          /\ contexts' = [contexts EXCEPT ![Place(b)].there = TRUE]
      BY <1>4 DEF Plan
    <2>2. Others(b) /\ build'[b] = [build[b] EXCEPT !.pc = "planned", !.layers = layers,
                                      !.began = edited, !.lost = gone]
      BY <2>1, StepDoes DEF Others
    <2>3. DOMAIN build[b] = Parts BY DEF Basics
    <2> HIDE DEF layers
    <2>4. /\ DOMAIN build'[b] = Parts /\ build'[b].pc = "planned" /\ build'[b].layers = layers
          /\ build'[b].began = edited /\ build'[b].lost = gone
          /\ \A x \in {"todo", "made", "reported"} : build'[b][x] = build[b][x]
      BY <2>2, <2>3 DEF Parts
    <2>5. Place(b) \in Builds \cup Directories BY PlaceIs
    <2>6. DOMAIN contexts = Builds \cup Directories /\ DOMAIN contexts[Place(b)] = Pieces
      BY <2>5 DEF Basics
    <2>7. /\ ContextsElse(b) /\ DOMAIN contexts'[Place(b)] = Pieces
          /\ \A x \in {"recipe", "files"} : contexts'[Place(b)][x] = contexts[Place(b)][x]
      BY <2>1, <2>5, <2>6 DEF ContextsElse, Pieces
    <2>8. Place(b)' = Place(b) BY <1>2 DEF Place
    <2>9. Inner(b) BY <1>2, <2>2, <2>4, <2>7 DEF Inner
    <2>10. \A x \in {"recipe", "files"} : Context(b)'[x] = Context(b)[x]
      BY <2>7, <2>8 DEF Context
    <2>11. layers = Layers(Declared(b)) BY DEF layers, Declared
    <2>12. \A i \in DOMAIN layers : There(layers[i].from) BY <1>4
    <2> QED BY <1>1, <1>2, <2>4, <2>9, <2>10, <2>11, <2>12
  <1> QED BY <1>3, <1>4

LEMMA CheckBaseDoes ==
    ASSUME Basics, NEW b \in Builds, CheckBase(b)
    PROVE  Moves(b, "planned", "pinned") \/ Moves(b, "planned", "failed")
  <1> DEFINE m == request[b].manifest
             held == m.own \/ (m.image \in DOMAIN tags /\ tags[m.image] = m.digest)
  <1>1. build[b].pc = "planned" BY DEF CheckBase, At
  <1>2. UNCHANGED <<tree, gone, edited, request, contexts, tags>> BY DEF CheckBase, hostVars
  <1>3. Reaches(b, "pinned") \/ Reaches(b, "failed")
    <2>1. Reaches(b, IF held THEN "pinned" ELSE "failed") BY DEF CheckBase
    <2> HIDE DEF held
    <2> QED BY <2>1
  <1> QED BY <1>1, <1>2, <1>3, ReachesMoves

LEMMA StagedDoes ==
    ASSUME Basics, NEW b \in Builds, Staged(b)
    PROVE  Moves(b, "staging", "building") /\ build[b].todo = << >>
  <1>1. build[b].pc = "staging" /\ build[b].todo = << >> BY DEF Staged, At
  <1>2. UNCHANGED <<tree, gone, edited, request, contexts, tags>> BY DEF Staged, hostVars
  <1>3. Reaches(b, "building") BY DEF Staged
  <1> QED BY <1>1, <1>2, <1>3, ReachesMoves

LEMMA FailsDoes ==
    ASSUME Basics, NEW b \in Builds, Fails(b)
    PROVE  Moves(b, build[b].pc, "failed")
  <1>1. UNCHANGED <<tree, gone, edited, request, contexts, tags>> BY DEF Fails, hostVars
  <1>2. Reaches(b, "failed") BY DEF Fails
  <1> QED BY <1>1, <1>2, ReachesMoves

LEMMA StageRecipeDoes ==
    ASSUME Basics, NEW b \in Builds, StageRecipe(b)
    PROVE  /\ Inner(b) /\ build[b].pc = "pinned" /\ build'[b].pc = "staging"
           /\ build'[b].todo = [i \in DOMAIN build[b].todo \cup DOMAIN build[b].layers |->
                Item(build[b].layers[i].from, build[b].layers[i].at, << >>, {})]
           /\ \A x \in Parts \ {"pc", "todo"} : build'[b][x] = build[b][x]
           /\ Context(b)'.recipe = Declared(b) /\ Context(b)'.files = Context(b).files
           /\ tags' = tags
  <1> DEFINE first == [i \in DOMAIN build[b].todo \cup DOMAIN build[b].layers |->
                        Item(build[b].layers[i].from, build[b].layers[i].at, << >>, {})]
  <1>1. build[b].pc = "pinned" BY DEF StageRecipe, At
  <1>2. UNCHANGED <<tree, gone, edited, request, tags>> BY DEF StageRecipe, hostVars
  <1>3. Step(b, [build[b] EXCEPT !.pc = "staging", !.todo = first]) BY DEF StageRecipe
  <1>4. contexts' = [contexts EXCEPT ![Place(b)].recipe = request[b].manifest]
    BY DEF StageRecipe
  <1> HIDE DEF first
  <1>5. Others(b) /\ build'[b] = [build[b] EXCEPT !.pc = "staging", !.todo = first]
    BY <1>3, StepDoes DEF Others
  <1>6. DOMAIN build[b] = Parts BY DEF Basics
  <1>7. /\ DOMAIN build'[b] = Parts /\ build'[b].pc = "staging" /\ build'[b].todo = first
        /\ \A x \in Parts \ {"pc", "todo"} : build'[b][x] = build[b][x]
    BY <1>5, <1>6 DEF Parts
  <1>8. Place(b) \in Builds \cup Directories BY PlaceIs
  <1>9. DOMAIN contexts = Builds \cup Directories /\ DOMAIN contexts[Place(b)] = Pieces
    BY <1>8 DEF Basics
  <1>10. /\ ContextsElse(b) /\ DOMAIN contexts'[Place(b)] = Pieces
         /\ contexts'[Place(b)].recipe = request[b].manifest
         /\ contexts'[Place(b)].files = contexts[Place(b)].files
    BY <1>4, <1>8, <1>9 DEF ContextsElse, Pieces
  <1>11. Place(b)' = Place(b) BY <1>2 DEF Place
  <1>12. Inner(b) BY <1>2, <1>5, <1>7, <1>10 DEF Inner
  <1> QED BY <1>1, <1>2, <1>7, <1>10, <1>11, <1>12 DEF Context, Declared, first

\* One item of the walk: a link or a directory is replaced by what is walked next.
Walks(b, todo) ==
    /\ Inner(b) /\ build[b].pc = "staging" /\ build'[b].pc = "staging"
    /\ build'[b].todo = todo
    /\ \A x \in Parts \ {"pc", "todo"} : build'[b][x] = build[b][x]
    /\ tags' = tags

LEMMA StepWalks ==
    ASSUME Basics, NEW b \in Builds, NEW todo, Step(b, [build[b] EXCEPT !.todo = todo]),
           build[b].pc = "staging", ContextsElse(b), DOMAIN contexts'[Place(b)] = Pieces,
           UNCHANGED <<tree, gone, edited, request, tags>>
    PROVE  Walks(b, todo)
  <1>1. Others(b) /\ build'[b] = [build[b] EXCEPT !.todo = todo] BY StepDoes DEF Others
  <1>2. DOMAIN build[b] = Parts BY DEF Basics
  <1>3. /\ DOMAIN build'[b] = Parts /\ build'[b].pc = "staging" /\ build'[b].todo = todo
        /\ \A x \in Parts \ {"pc", "todo"} : build'[b][x] = build[b][x]
    BY <1>1, <1>2 DEF Parts
  <1>4. Inner(b) BY <1>1, <1>3 DEF Inner
  <1> QED BY <1>3, <1>4 DEF Walks

LEMMA WalkDoes ==
    ASSUME Basics, NEW b \in Builds, Walk(b)
    PROVE  LET item == Upcoming(b)  rest == Tail(build[b].todo)  to == tree[item.from].to IN
           /\ build[b].todo # << >>
           /\ \/ /\ Is(item.from, "link") /\ Followable(b) /\ contexts' = contexts
                 /\ Walks(b, <<Item(to, item.at, item.rel, item.via \cup {to})>> \o rest)
              \/ /\ Is(item.from, "dir") /\ contexts' = contexts
                 /\ Walks(b, Entries(item, Walked(item.from), rest))
              \/ /\ Is(item.from, "file") /\ Walks(b, rest)
                 /\ Context(b)'.recipe = Context(b).recipe
                 /\ Context(b)'.files = Put(Context(b).files, <<item.at, item.rel>>,
                        [of |-> item.from, rewritten |-> item.from \in edited])
              \/ Moves(b, "staging", "failed")
  <1>1. /\ build[b].pc = "staging" /\ build[b].todo # << >>
        /\ UNCHANGED <<tree, gone, edited, request, tags>>
    BY DEF Walk, At, hostVars
  <1> DEFINE item == Upcoming(b)
             rest == Tail(build[b].todo)
             to == tree[item.from].to
  <1>2. contexts' = contexts => ContextsElse(b) /\ DOMAIN contexts'[Place(b)] = Pieces
    BY NothingElsewhere
  <1>3. CASE WalkLink(b)
    <2>1. Is(item.from, "link") /\ contexts' = contexts BY <1>3 DEF WalkLink
    <2>2. CASE Followable(b)
      <3>1. Step(b, [build[b] EXCEPT !.todo =
                <<Item(to, item.at, item.rel, item.via \cup {to})>> \o rest])
        BY <1>3, <2>2 DEF WalkLink
      <3>2. Walks(b, <<Item(to, item.at, item.rel, item.via \cup {to})>> \o rest)
        BY <1>1, <1>2, <2>1, <3>1, StepWalks
      <3> QED BY <1>1, <2>1, <2>2, <3>2
    <2>3. CASE ~Followable(b)
      <3>1. Reaches(b, "failed") BY <1>3, <2>3 DEF WalkLink
      <3>2. Moves(b, "staging", "failed") BY <1>1, <2>1, <3>1, ReachesMoves
      <3> QED BY <1>1, <3>2
    <2> QED BY <2>2, <2>3
  <1>4. CASE WalkDirectory(b)
    <2>1. Is(item.from, "dir") /\ contexts' = contexts BY <1>4 DEF WalkDirectory
    <2>2. Step(b, [build[b] EXCEPT !.todo = Entries(item, Walked(item.from), rest)])
      BY <1>4 DEF WalkDirectory, Entries, Entry, FoldSet, MapThenFoldSet
    <2>3. Walks(b, Entries(item, Walked(item.from), rest))
      <3> HIDE DEF item, rest
      <3> QED BY <1>1, <1>2, <2>1, <2>2, StepWalks
    <2> QED BY <1>1, <2>1, <2>3
  <1>5. CASE CopyFile(b)
    <2> DEFINE content == [of |-> item.from, rewritten |-> item.from \in edited]
    <2>1. /\ Is(item.from, "file") /\ Step(b, [build[b] EXCEPT !.todo = rest])
          /\ contexts' = [contexts EXCEPT ![Place(b)].files =
                                Put(@, <<item.at, item.rel>>, content)]
      BY <1>5 DEF CopyFile
    <2>2. Place(b) \in Builds \cup Directories BY PlaceIs
    <2>3. DOMAIN contexts = Builds \cup Directories /\ DOMAIN contexts[Place(b)] = Pieces
      BY <2>2 DEF Basics
    <2> HIDE DEF item, content, rest
    <2>4. /\ ContextsElse(b) /\ DOMAIN contexts'[Place(b)] = Pieces
          /\ contexts'[Place(b)].recipe = contexts[Place(b)].recipe
          /\ contexts'[Place(b)].files
                = Put(contexts[Place(b)].files, <<item.at, item.rel>>, content)
      BY <2>1, <2>2, <2>3 DEF ContextsElse, Pieces
    <2>5. Walks(b, rest) BY <1>1, <2>1, <2>4, StepWalks
    <2>6. Place(b)' = Place(b) BY <1>1 DEF Place
    <2> QED BY <1>1, <2>1, <2>4, <2>5, <2>6 DEF Context, item, rest, content
  <1>6. CASE Unreadable(b)
    <2>1. Reaches(b, "failed") /\ contexts' = contexts BY <1>6 DEF Unreadable
    <2>2. Moves(b, "staging", "failed") BY <1>1, <2>1, ReachesMoves
    <2> QED BY <1>1, <2>2
  <1> QED BY <1>3, <1>4, <1>5, <1>6 DEF Walk

LEMMA EngineReadsDoes ==
    ASSUME Basics, NEW b \in Builds, EngineReads(b)
    PROVE  \/ Moves(b, "building", "failed")
           \/ /\ Inner(b) /\ build[b].pc = "building" /\ build'[b].pc = "tagging"
              /\ build'[b].made.recipe = Context(b).recipe
              /\ build'[b].made.files = Filesystem(Context(b).recipe, Context(b).files)
              /\ \A x \in Parts \ {"pc", "made"} : build'[b][x] = build[b][x]
              /\ contexts' = contexts /\ tags' = tags
  <1> DEFINE m == Context(b).recipe
             made == [recipe |-> m, base |-> IF m.own THEN m.image ELSE tags[m.image],
                      files |-> Filesystem(m, Context(b).files)]
  <1>1. build[b].pc = "building" BY DEF EngineReads, At
  <1>2. UNCHANGED <<tree, gone, edited, request, contexts, tags>> BY DEF EngineReads, hostVars
  <1>3. CASE m.own \/ m.image \in DOMAIN tags
    <2>1. Step(b, [build[b] EXCEPT !.pc = "tagging", !.made = made])
      BY <1>3 DEF EngineReads, Context
    <2>2. made.recipe = m /\ made.files = Filesystem(m, Context(b).files) OBVIOUS
    <2> HIDE DEF made
    <2>3. Others(b) /\ build'[b] = [build[b] EXCEPT !.pc = "tagging", !.made = made]
      BY <2>1, StepDoes DEF Others
    <2>4. DOMAIN build[b] = Parts BY DEF Basics
    <2>5. /\ DOMAIN build'[b] = Parts /\ build'[b].pc = "tagging" /\ build'[b].made = made
          /\ \A x \in Parts \ {"pc", "made"} : build'[b][x] = build[b][x]
      BY <2>3, <2>4 DEF Parts
    <2>6. ContextsElse(b) /\ DOMAIN contexts'[Place(b)] = Pieces BY <1>2, NothingElsewhere
    <2>7. Inner(b) BY <1>2, <2>3, <2>5, <2>6 DEF Inner
    <2> QED BY <1>1, <1>2, <2>2, <2>5, <2>7
  <1>4. CASE ~(m.own \/ m.image \in DOMAIN tags)
    <2>1. Reaches(b, "failed") BY <1>4 DEF EngineReads, Context
    <2> QED BY <1>1, <1>2, <2>1, ReachesMoves
  <1> QED BY <1>3, <1>4

LEMMA EngineTagsDoes ==
    ASSUME Basics, NEW b \in Builds, EngineTags(b)
    PROVE  /\ Inner(b) /\ build[b].pc = "tagging" /\ build'[b].pc = "inspecting"
           /\ \A x \in Parts \ {"pc"} : build'[b][x] = build[b][x]
           /\ contexts' = contexts /\ tags' = Put(tags, TagOf(b), build[b].made)
  <1>1. build[b].pc = "tagging" /\ Reaches(b, "inspecting") BY DEF EngineTags, At
  <1>2. UNCHANGED <<tree, gone, edited, request, contexts>> BY DEF EngineTags, hostVars
  <1>3. Others(b) /\ build'[b].pc = "inspecting" /\ DOMAIN build'[b] = Parts
          /\ \A x \in Parts \ {"pc"} : build'[b][x] = build[b][x]
    BY <1>1, ReachesDoes
  <1>4. ContextsElse(b) /\ DOMAIN contexts'[Place(b)] = Pieces BY <1>2, NothingElsewhere
  <1>5. Inner(b) BY <1>2, <1>3, <1>4 DEF Inner
  <1>6. tags' = Put(tags, TagOf(b), build[b].made) BY DEF EngineTags
  <1> QED BY <1>1, <1>2, <1>3, <1>5, <1>6

LEMMA InspectDoes ==
    ASSUME Basics, NEW b \in Builds, Inspect(b)
    PROVE  /\ Inner(b) /\ build[b].pc = "inspecting" /\ build'[b].pc = "done"
           /\ build'[b].reported = tags[TagOf(b)]
           /\ \A x \in Parts \ {"pc", "reported"} : build'[b][x] = build[b][x]
           /\ tags' = tags
  <1>1. /\ build[b].pc = "inspecting"
        /\ Step(b, [build[b] EXCEPT !.pc = "done", !.reported = tags[TagOf(b)]])
        /\ contexts' = IF Place(b) = b THEN [contexts EXCEPT ![b] = NoContext] ELSE contexts
    BY DEF Inspect, At
  <1>2. UNCHANGED <<tree, gone, edited, request, tags>> BY DEF Inspect, hostVars
  <1>3. Others(b) /\ build'[b] = [build[b] EXCEPT !.pc = "done", !.reported = tags[TagOf(b)]]
    BY <1>1, StepDoes DEF Others
  <1>4. DOMAIN build[b] = Parts BY DEF Basics
  <1>5. /\ DOMAIN build'[b] = Parts /\ build'[b].pc = "done"
        /\ build'[b].reported = tags[TagOf(b)]
        /\ \A x \in Parts \ {"pc", "reported"} : build'[b][x] = build[b][x]
    BY <1>3, <1>4 DEF Parts
  <1>6. ContextsElse(b) /\ DOMAIN contexts'[Place(b)] = Pieces
    <2>1. CASE Place(b) = b
      <3>1. contexts' = [contexts EXCEPT ![b] = NoContext] BY <1>1, <2>1
      <3>2. DOMAIN contexts = Builds \cup Directories BY DEF Basics
      <3>3. DOMAIN NoContext = Pieces BY DEF NoContext, Pieces
      <3> QED BY <2>1, <3>1, <3>2, <3>3 DEF ContextsElse
    <2>2. CASE Place(b) # b
      <3>1. contexts' = contexts BY <1>1, <2>2
      <3> QED BY <3>1, NothingElsewhere
    <2> QED BY <2>1, <2>2
  <1>7. Inner(b) BY <1>2, <1>3, <1>5, <1>6 DEF Inner
  <1> QED BY <1>1, <1>2, <1>5, <1>7

\* The others: the host, and whoever moves the base's reference.
Outside ==
    /\ UNCHANGED <<tree, request, build, contexts>>
    /\ gone' \subseteq FilesOf(tree) /\ edited' \subseteq FilesOf(tree)

LEMMA OutsideKeepsBasics ==
    ASSUME Basics, Outside
    PROVE  Basics'
  BY DEF Basics, Outside, FilesOf

LEMMA HostDoes ==
    ASSUME Basics, NEW p \in DOMAIN tree, HostEdits(p) \/ HostRemoves(p)
    PROVE  /\ Outside /\ tags' = tags /\ Is(p, "file")
           /\ \/ gone' = gone /\ edited' = edited \cup {p}
              \/ gone' = gone \cup {p} /\ edited' = edited
  <1>1. p \in FilesOf(tree) /\ Is(p, "file")
    BY DEF HostEdits, HostRemoves, Is, There, FilesOf
  <1> QED BY <1>1 DEF HostEdits, HostRemoves, Basics, Outside

LEMMA ReferenceDoes ==
    ASSUME Basics, NEW reference \in DOMAIN Held, ReferenceMoves(reference)
    PROVE  /\ Outside /\ gone' = gone /\ edited' = edited /\ DOMAIN tags' = DOMAIN tags
           /\ \A x \in DOMAIN tags : x \notin DOMAIN Held => tags'[x] = tags[x]
  <1>1. UNCHANGED <<tree, gone, edited, request, build, contexts>>
    BY DEF ReferenceMoves, hostVars
  <1>2. PICK image : tags' = [tags EXCEPT ![reference] = image] BY DEF ReferenceMoves
  <1>3. DOMAIN tags' = DOMAIN tags BY <1>2
  <1>4. \A x \in DOMAIN tags : x # reference => tags'[x] = tags[x] BY <1>2
  <1> QED BY <1>1, <1>3, <1>4 DEF Basics, Outside

LEMMA BasicsAtFirst ==
    ASSUME Init
    PROVE  Basics
  <1>1. PICK s \in Scenarios : request = s.request /\ tree = s.tree BY DEF Init
  <1>2. FileTree(tree) /\ \A b \in Builds : Asked(request[b]) BY <1>1, BuildAssumption
  <1>3. DOMAIN build = Builds /\ \A b \in Builds : build[b] = Idle BY DEF Init
  <1>4. DOMAIN Idle = Parts BY DEF Idle, Parts
  <1>5. DOMAIN contexts = Builds \cup Directories
          /\ \A d \in Builds \cup Directories : contexts[d] = NoContext
    BY DEF Init
  <1>6. DOMAIN NoContext = Pieces BY DEF NoContext, Pieces
  <1>7. gone = {} /\ edited = {} BY DEF Init
  <1> QED BY <1>2, <1>3, <1>4, <1>5, <1>6, <1>7 DEF Basics

LEMMA AdvancesDoes ==
    ASSUME Basics, NEW b \in Builds, Advances(b) \/ Fails(b)
    PROVE  Inner(b)
  <1>1. CASE Load(b) BY <1>1, LoadDoes DEF Moves
  <1>2. CASE Plan(b) BY <1>2, PlanDoes DEF Moves
  <1>3. CASE CheckBase(b) BY <1>3, CheckBaseDoes DEF Moves
  <1>4. CASE StageRecipe(b) BY <1>4, StageRecipeDoes
  <1>5. CASE Walk(b) BY <1>5, WalkDoes DEF Moves, Walks
  <1>6. CASE Staged(b) BY <1>6, StagedDoes DEF Moves
  <1>7. CASE EngineReads(b) BY <1>7, EngineReadsDoes DEF Moves
  <1>8. CASE EngineTags(b) BY <1>8, EngineTagsDoes
  <1>9. CASE Inspect(b) BY <1>9, InspectDoes
  <1>10. CASE Fails(b) BY <1>10, FailsDoes DEF Moves
  <1> QED BY <1>1, <1>2, <1>3, <1>4, <1>5, <1>6, <1>7, <1>8, <1>9, <1>10 DEF Advances

LEMMA BasicsStep ==
    ASSUME Basics, [Next]_vars
    PROVE  Basics'
  <1>1. CASE UNCHANGED vars BY <1>1 DEF vars, Basics
  <1>2. ASSUME NEW b \in Builds, Advances(b) \/ Fails(b) PROVE Basics'
    BY <1>2, AdvancesDoes, InnerKeepsBasics
  <1>3. ASSUME NEW p \in DOMAIN tree, HostEdits(p) \/ HostRemoves(p) PROVE Basics'
    BY <1>3, HostDoes, OutsideKeepsBasics
  <1>4. ASSUME NEW reference \in DOMAIN Held, ReferenceMoves(reference) PROVE Basics'
    BY <1>4, ReferenceDoes, OutsideKeepsBasics
  <1> QED BY <1>1, <1>2, <1>3, <1>4 DEF Next

LEMMA AlwaysBasics == Spec => []Basics
  <1>1. Init => Basics BY BasicsAtFirst
  <1>2. Basics /\ [Next]_vars => Basics' BY BasicsStep
  <1> QED BY <1>1, <1>2, PTL DEF Spec

-----------------------------------------------------------------------------
(***************************************************************************)
(* The image a build reports.  From the recipe to the tag the manifest      *)
(* stays the build's own, and whoever moves the tag a manifest produces has *)
(* a manifest that declares the same.                                       *)
(***************************************************************************)
Alike(recipe, m) ==
    /\ recipe.sources = m.sources /\ recipe.modules = m.modules
    /\ recipe.image = m.image /\ recipe.writable = m.writable

OwnRecipe(b) ==
    /\ build[b].pc \in {"staging", "building"} => Context(b).recipe = Declared(b)
    /\ build[b].pc \in {"tagging", "inspecting"} => build[b].made.recipe = Declared(b)

OwnTag(b) ==
    request[b].tag = Default =>
        /\ Canonical(Declared(b)) \in DOMAIN tags
              => Alike(tags[Canonical(Declared(b))].recipe, Declared(b))
        /\ build[b].pc = "inspecting" => Canonical(Declared(b)) \in DOMAIN tags
        /\ build[b].pc = "done" => Alike(build[b].reported.recipe, Declared(b))

Recipes == Apart => \A b \in Builds : OwnRecipe(b) /\ OwnTag(b)

LEMMA CanonicalTells ==
    ASSUME NEW m, NEW n, DOMAIN m = Fields, DOMAIN n = Fields, Canonical(m) = Canonical(n)
    PROVE  Alike(m, n)
  <1>1. ASSUME NEW x \in Fields \ {"digest"} PROVE m[x] = n[x]
    <2>1. Canonical(m)[x] = m[x] BY <1>1 DEF Canonical
    <2>2. Canonical(n)[x] = n[x] BY <1>1 DEF Canonical
    <2> QED BY <2>1, <2>2
  <1> QED BY <1>1 DEF Alike, Fields

\* The others see neither the build's state nor its context.
LEMMA OthersSeeNothing ==
    ASSUME Basics, Apart, NEW b \in Builds, Inner(b), NEW c \in Builds \ {b}
    PROVE  build'[c] = build[c] /\ Context(c)' = Context(c) /\ Declared(c)' = Declared(c)
  <1>1. build'[c] = build[c] BY DEF Inner, Others
  <1>2. Place(c) \in (Builds \cup Directories) \ {Place(b)} BY PlaceIs DEF Apart
  <1>3. request' = request BY DEF Inner
  <1>4. Place(c)' = Place(c) BY <1>3 DEF Place
  <1>5. contexts'[Place(c)] = contexts[Place(c)] BY <1>2 DEF Inner, ContextsElse
  <1> QED BY <1>1, <1>3, <1>4, <1>5 DEF Context, Declared

LEMMA OwnRecipeStep ==
    ASSUME Basics, Apart, NEW b \in Builds, Advances(b) \/ Fails(b),
           \A c \in Builds : OwnRecipe(c)
    PROVE  \A c \in Builds : OwnRecipe(c)'
  <1>1. Inner(b) BY AdvancesDoes
  <1>2. ASSUME NEW c \in Builds \ {b} PROVE OwnRecipe(c)'
    BY <1>1, <1>2, OthersSeeNothing DEF OwnRecipe
  <1>3. OwnRecipe(b)'
    <2>1. OwnRecipe(b) OBVIOUS
    <2>2. Declared(b)' = Declared(b) /\ Place(b)' = Place(b)
      BY <1>1 DEF Inner, Declared, Place
    <2>3. contexts' = contexts => Context(b)' = Context(b) BY <2>2 DEF Context
    <2>4. CASE Load(b) BY <2>4, LoadDoes DEF Moves, OwnRecipe
    <2>5. CASE Plan(b) BY <2>5, PlanDoes DEF Moves, OwnRecipe
    <2>6. CASE CheckBase(b) BY <2>6, CheckBaseDoes DEF Moves, OwnRecipe
    <2>7. CASE StageRecipe(b) BY <2>2, <2>7, StageRecipeDoes DEF OwnRecipe
    <2>8. CASE Walk(b)
      <3>1. build[b].pc = "staging" BY <2>8 DEF Walk, At
      <3>2. \/ build'[b].pc = "staging" /\ Context(b)'.recipe = Context(b).recipe
            \/ build'[b].pc = "failed"
        BY <2>3, <2>8, WalkDoes DEF Moves, Walks
      <3> QED BY <2>1, <2>2, <3>1, <3>2 DEF OwnRecipe
    <2>9. CASE Staged(b)
      <3>1. Moves(b, "staging", "building") BY <2>9, StagedDoes
      <3> QED BY <2>1, <2>2, <2>3, <3>1 DEF Moves, OwnRecipe
    <2>10. CASE EngineReads(b)
      <3>1. CASE Moves(b, "building", "failed") BY <3>1 DEF Moves, OwnRecipe
      <3>2. CASE /\ build[b].pc = "building" /\ build'[b].pc = "tagging"
                 /\ build'[b].made.recipe = Context(b).recipe
        BY <2>1, <2>2, <3>2 DEF OwnRecipe
      <3> QED BY <2>10, <3>1, <3>2, EngineReadsDoes
    <2>11. CASE EngineTags(b)
      <3>1. build[b].pc = "tagging" /\ build'[b].pc = "inspecting"
        BY <2>11, EngineTagsDoes
      <3>2. build'[b].made = build[b].made BY <2>11, EngineTagsDoes DEF Parts
      <3> QED BY <2>1, <2>2, <3>1, <3>2 DEF OwnRecipe
    <2>12. CASE Inspect(b) BY <2>12, InspectDoes DEF OwnRecipe
    <2>13. CASE Fails(b) BY <2>13, FailsDoes DEF Moves, OwnRecipe
    <2> QED BY <2>4, <2>5, <2>6, <2>7, <2>8, <2>9, <2>10, <2>11, <2>12, <2>13 DEF Advances
  <1> QED BY <1>2, <1>3

\* What the engine holds under the tag that a manifest produces.
LEMMA TaggedIsAlike ==
    ASSUME Basics, Apart, NEW b \in Builds, EngineTags(b), OwnRecipe(b),
           NEW c \in Builds, OwnTag(c), request[c].tag = Default
    PROVE  Canonical(Declared(c)) \in DOMAIN tags'
              => Alike(tags'[Canonical(Declared(c))].recipe, Declared(c))
  <1>1. tags' = Put(tags, TagOf(b), build[b].made) /\ build[b].pc = "tagging"
    BY EngineTagsDoes
  <1>2. CASE TagOf(b) = Canonical(Declared(c))
    <2>1. request[b].tag = Default
      <3>1. request[b].tag # Canonical(Declared(c)) BY DEF Apart, Declared
      <3> QED BY <1>2, <3>1 DEF TagOf
    <2>2. Canonical(Declared(b)) = Canonical(Declared(c))
      BY <1>2, <2>1 DEF TagOf, Declared
    <2>3. DOMAIN Declared(b) = Fields /\ DOMAIN Declared(c) = Fields
      BY DEF Basics, Asked, Written, Declared
    <2>4. Alike(Declared(b), Declared(c)) BY <2>2, <2>3, CanonicalTells
    <2>5. build[b].made.recipe = Declared(b) BY <1>1 DEF OwnRecipe
    <2>6. tags'[Canonical(Declared(c))] = build[b].made BY <1>1, <1>2 DEF Put, Over
    <2> QED BY <2>4, <2>5, <2>6
  <1>3. CASE TagOf(b) # Canonical(Declared(c))
    <2>1. Canonical(Declared(c)) \in DOMAIN tags'
            => /\ Canonical(Declared(c)) \in DOMAIN tags
               /\ tags'[Canonical(Declared(c))] = tags[Canonical(Declared(c))]
      BY <1>1, <1>3 DEF Put, Over
    <2> QED BY <2>1 DEF OwnTag
  <1> QED BY <1>2, <1>3

LEMMA OwnTagStep ==
    ASSUME Basics, Apart, NEW b \in Builds, Advances(b) \/ Fails(b),
           \A c \in Builds : OwnRecipe(c), \A c \in Builds : OwnTag(c)
    PROVE  \A c \in Builds : OwnTag(c)'
  <1>1. Inner(b) BY AdvancesDoes
  <1> SUFFICES ASSUME NEW c \in Builds, request[c].tag = Default PROVE OwnTag(c)'
    BY <1>1 DEF Inner, OwnTag
  <1>2. request' = request /\ Declared(c)' = Declared(c) /\ OwnTag(c)
    BY <1>1 DEF Inner, Declared
  <1>3. \/ tags' = tags
        \/ EngineTags(b)
    BY LoadDoes, PlanDoes, CheckBaseDoes, StageRecipeDoes, WalkDoes, StagedDoes,
       EngineReadsDoes, InspectDoes, FailsDoes DEF Moves, Walks, Advances
  <1>4. DOMAIN tags \subseteq DOMAIN tags'
    <2>1. EngineTags(b) => tags' = Put(tags, TagOf(b), build[b].made) BY EngineTagsDoes
    <2> QED BY <1>3, <2>1 DEF Put, Over
  <1>5. Canonical(Declared(c)) \in DOMAIN tags'
            => Alike(tags'[Canonical(Declared(c))].recipe, Declared(c))
    <2>1. CASE tags' = tags BY <1>2, <2>1 DEF OwnTag
    <2>2. CASE EngineTags(b) BY <1>2, <2>2, TaggedIsAlike
    <2> QED BY <1>3, <2>1, <2>2
  <1>6. CASE c # b
    <2>1. build'[c] = build[c] BY <1>1, <1>6, OthersSeeNothing
    <2> QED BY <1>2, <1>4, <1>5, <2>1 DEF OwnTag
  <1>7. CASE c = b
    <2>1. build'[b].pc = "inspecting" => EngineTags(b)
      BY LoadDoes, PlanDoes, CheckBaseDoes, StageRecipeDoes, WalkDoes, StagedDoes,
         EngineReadsDoes, InspectDoes, FailsDoes DEF Moves, Walks, Advances
    <2>2. build'[b].pc = "done" => Inspect(b)
      BY LoadDoes, PlanDoes, CheckBaseDoes, StageRecipeDoes, WalkDoes, StagedDoes,
         EngineReadsDoes, EngineTagsDoes, FailsDoes DEF Moves, Walks, Advances
    <2>3. TagOf(b) = Canonical(Declared(b)) BY <1>7 DEF TagOf, Declared
    <2>4. EngineTags(b) => Canonical(Declared(b)) \in DOMAIN tags'
      <3>1. EngineTags(b) => tags' = Put(tags, TagOf(b), build[b].made) BY EngineTagsDoes
      <3> QED BY <2>3, <3>1 DEF Put, Over
    <2>5. Inspect(b) => Alike(build'[b].reported.recipe, Declared(b))
      <3>1. Inspect(b) => build[b].pc = "inspecting" /\ build'[b].reported = tags[TagOf(b)]
        BY InspectDoes
      <3> QED BY <1>2, <1>7, <2>3, <3>1 DEF OwnTag
    <2> QED BY <1>2, <1>5, <1>7, <2>1, <2>2, <2>4, <2>5 DEF OwnTag
  <1> QED BY <1>6, <1>7

LEMMA RecipesStep ==
    ASSUME Basics, Recipes, [Next]_vars
    PROVE  Recipes'
  <1>1. request' = request
    <2>1. CASE UNCHANGED vars BY <2>1 DEF vars
    <2>2. ASSUME NEW b \in Builds, Advances(b) \/ Fails(b) PROVE request' = request
      BY <2>2, AdvancesDoes DEF Inner
    <2>3. ASSUME NEW p \in DOMAIN tree, HostEdits(p) \/ HostRemoves(p)
          PROVE  request' = request
      BY <2>3 DEF HostEdits, HostRemoves
    <2>4. ASSUME NEW reference \in DOMAIN Held, ReferenceMoves(reference)
          PROVE  request' = request
      BY <2>4 DEF ReferenceMoves
    <2> QED BY <2>1, <2>2, <2>3, <2>4 DEF Next
  <1>2. Apart' <=> Apart BY <1>1 DEF Apart, Place
  <1> SUFFICES ASSUME Apart, \A b \in Builds : OwnRecipe(b), \A b \in Builds : OwnTag(b)
               PROVE  \A b \in Builds : OwnRecipe(b)' /\ OwnTag(b)'
    BY <1>2 DEF Recipes
  <1>3. ASSUME NEW b \in Builds, Advances(b) \/ Fails(b)
        PROVE  \A c \in Builds : OwnRecipe(c)' /\ OwnTag(c)'
    <2>1. \A c \in Builds : OwnRecipe(c)' BY <1>3, OwnRecipeStep
    <2>2. \A c \in Builds : OwnTag(c)' BY <1>3, OwnTagStep
    <2> QED BY <2>1, <2>2
  <1>4. ASSUME build' = build, contexts' = contexts, DOMAIN tags' = DOMAIN tags,
               \A x \in DOMAIN tags : x \notin DOMAIN Held => tags'[x] = tags[x],
               NEW b \in Builds
        PROVE  OwnRecipe(b)' /\ OwnTag(b)'
    <2>1. Declared(b)' = Declared(b) /\ Place(b)' = Place(b) /\ Context(b)' = Context(b)
      BY <1>1, <1>4 DEF Declared, Context, Place
    <2>2. Canonical(Declared(b)) \notin DOMAIN Held BY DEF Apart, Declared
    <2>3. OwnRecipe(b)'
      <3>1. OwnRecipe(b) OBVIOUS
      <3> QED BY <1>4, <2>1, <3>1 DEF OwnRecipe
    <2>4. OwnTag(b)'
      <3>1. OwnTag(b) OBVIOUS
      <3>2. Canonical(Declared(b)) \in DOMAIN tags
              => tags'[Canonical(Declared(b))] = tags[Canonical(Declared(b))]
        BY <1>4, <2>2
      <3> QED BY <1>1, <1>4, <2>1, <3>1, <3>2 DEF OwnTag
    <2> QED BY <2>3, <2>4
  <1>5. CASE UNCHANGED vars
    <2>1. build' = build /\ contexts' = contexts /\ tags' = tags BY <1>5 DEF vars
    <2> QED BY <1>4, <2>1
  <1>6. ASSUME NEW p \in DOMAIN tree, HostEdits(p) \/ HostRemoves(p)
        PROVE  \A b \in Builds : OwnRecipe(b)' /\ OwnTag(b)'
    <2>1. build' = build /\ contexts' = contexts /\ tags' = tags
      BY <1>6, HostDoes DEF Outside
    <2> QED BY <1>4, <2>1
  <1>7. ASSUME NEW reference \in DOMAIN Held, ReferenceMoves(reference)
        PROVE  \A b \in Builds : OwnRecipe(b)' /\ OwnTag(b)'
    <2>1. /\ build' = build /\ contexts' = contexts /\ DOMAIN tags' = DOMAIN tags
          /\ \A x \in DOMAIN tags : x \notin DOMAIN Held => tags'[x] = tags[x]
      BY <1>7, ReferenceDoes DEF Outside
    <2> QED BY <1>4, <2>1
  <1> QED BY <1>3, <1>5, <1>6, <1>7 DEF Next

LEMMA RecipesAtFirst ==
    ASSUME Init
    PROVE  Recipes
  <1> SUFFICES ASSUME Apart, NEW b \in Builds PROVE OwnRecipe(b) /\ OwnTag(b)
    BY DEF Recipes
  <1>1. build[b].pc = "idle" /\ tags = Held BY DEF Init, Idle
  <1>2. Canonical(Declared(b)) \notin DOMAIN Held BY DEF Apart, Declared
  <1> QED BY <1>1, <1>2 DEF OwnRecipe, OwnTag

\* Whoever builds beside it, and however often the tag moves, the image that a
\* build reports under the tag its manifest produces (Service.BuildImage) declares
\* the sources, modules, base and writable places of that manifest.
THEOREM ReportsItsManifest == Spec => []ReportedIsOwnManifest
  <1>1. Init => Recipes BY RecipesAtFirst
  <1>2. Basics /\ Recipes /\ [Next]_vars => Recipes' BY RecipesStep
  <1>3. Recipes => ReportedIsOwnManifest
    BY DEF Recipes, OwnTag, Alike, ReportedIsOwnManifest, At, Declared
  <1> QED BY <1>1, <1>2, <1>3, AlwaysBasics, PTL DEF Spec


-----------------------------------------------------------------------------
(***************************************************************************)
(* The image of a build that assembles its context itself.  From the plan   *)
(* to the tag its layers fit the manifest, while it stages every file       *)
(* copied is the tree's and every file of the tree is copied or still to be *)
(* walked, and what the engine has made of it is the whole tree.            *)
(***************************************************************************)
Unstaged(b) == build[b].pc \in {"idle", "loaded", "planned", "pinned"} =>
    build[b].todo = << >> /\ Context(b).files = << >>

Stands(b) ==
    build[b].pc \in {"loaded", "planned", "pinned", "staging", "building", "tagging"} =>
        Standing(tree, gone, Declared(b))

Fits(b) ==
    build[b].pc \in {"planned", "pinned", "staging", "building", "tagging"} =>
        Fit(tree, gone, Declared(b), build[b].layers) /\ build[b].began \subseteq edited

Stages(b) == build[b].pc \in {"staging", "building"} =>
    /\ Context(b).recipe = Declared(b)
    /\ Staging(tree, gone, build[b].layers, build[b].began, build[b].todo, Context(b).files)
    /\ build[b].pc = "building" => build[b].todo = << >>

Made(b) == build[b].pc = "tagging" =>
    Whole(tree, gone, build[b].layers, build[b].began, build[b].made.files)

Good(b) == Unstaged(b) /\ Stands(b) /\ Fits(b) /\ Stages(b) /\ Made(b)

OwnTrees == \A b \in Builds : Place(b) = b => Good(b)

LEMMA TreesAtFirst ==
    ASSUME Init
    PROVE  OwnTrees
  <1> SUFFICES ASSUME NEW b \in Builds, Place(b) = b PROVE Good(b) BY DEF OwnTrees
  <1>1. build[b].pc = "idle" /\ build[b].todo = << >> BY DEF Init, Idle
  <1>2. contexts[b].files = << >> BY DEF Init, NoContext
  <1>3. Unstaged(b) BY <1>1, <1>2 DEF Unstaged, Context
  <1> QED BY <1>1, <1>3 DEF Good, Stands, Fits, Stages, Made

\* What the build itself keeps when it moves on.
LEMMA InnerKeeps ==
    ASSUME Basics, NEW b \in Builds, Inner(b)
    PROVE  /\ tree' = tree /\ gone' = gone /\ edited' = edited
           /\ Declared(b)' = Declared(b) /\ Place(b)' = Place(b)
           /\ contexts' = contexts => Context(b)' = Context(b)
           /\ FileTree(tree) /\ Written(Declared(b))
  <1>1. Place(b)' = Place(b) /\ Declared(b)' = Declared(b) BY DEF Inner, Place, Declared
  <1>2. Written(Declared(b)) BY DEF Basics, Asked, Declared
  <1> QED BY <1>1, <1>2 DEF Basics, Inner, Context

\* A build that only moves on keeps what the place it moves to asks for.
LEMMA MovesKeeps ==
    ASSUME Basics, NEW b \in Builds, NEW from, NEW to, Moves(b, from, to)
    PROVE  /\ build[b].pc = from /\ build'[b].pc = to
           /\ build'[b].layers = build[b].layers /\ build'[b].began = build[b].began
           /\ build'[b].todo = build[b].todo /\ build'[b].made = build[b].made
           /\ tree' = tree /\ gone' = gone /\ edited' = edited
           /\ Declared(b)' = Declared(b) /\ Context(b)' = Context(b)
  <1>1. Inner(b) /\ contexts' = contexts BY DEF Moves
  <1> QED BY <1>1, InnerKeeps DEF Moves, Parts

LEMMA GoodStops ==
    ASSUME NEW b \in Builds, build'[b].pc \in {"inspecting", "done", "refused", "failed"}
    PROVE  Good(b)'
  BY DEF Good, Unstaged, Stands, Fits, Stages, Made

LEMMA GoodLoad ==
    ASSUME Basics, NEW b \in Builds, Good(b), Load(b)
    PROVE  Good(b)'
  <1>1. CASE Moves(b, "idle", "loaded") /\ Valid(Declared(b))
    <2>1. Standing(tree, gone, Declared(b))
      <3>1. SUFFICES ASSUME NEW i \in DOMAIN Declared(b).modules
                     PROVE  /\ Real(Declared(b).modules[i]) \in DOMAIN tree
                            /\ tree[Real(Declared(b).modules[i])].type = "dir"
        BY RealIs DEF Standing
      <3>2. ModuleUsable(Declared(b).modules[i]) BY <1>1 DEF Valid
      <3> QED BY <3>2 DEF ModuleUsable, Is, There
    <2>2. /\ build[b].pc = "idle" /\ build'[b].pc = "loaded"
          /\ build'[b].todo = build[b].todo /\ Context(b)' = Context(b)
          /\ tree' = tree /\ gone' = gone /\ Declared(b)' = Declared(b)
      BY <1>1, MovesKeeps
    <2>3. Unstaged(b)' BY <2>2 DEF Good, Unstaged
    <2> QED BY <2>1, <2>2, <2>3 DEF Good, Stands, Fits, Stages, Made
  <1>2. CASE Moves(b, "idle", "refused")
    <2>1. build'[b].pc = "refused" BY <1>2 DEF Moves
    <2> QED BY <2>1, GoodStops
  <1> QED BY <1>1, <1>2, LoadDoes

LEMMA GoodPlan ==
    ASSUME Basics, NEW b \in Builds, Good(b), Plan(b)
    PROVE  Good(b)'
  <1>1. CASE Moves(b, "loaded", "refused")
    <2>1. build'[b].pc = "refused" BY <1>1 DEF Moves
    <2> QED BY <2>1, GoodStops
  <1>2. CASE /\ Inner(b) /\ build[b].pc = "loaded" /\ build'[b].pc = "planned"
             /\ build'[b].layers = Layers(Declared(b))
             /\ \A i \in DOMAIN Layers(Declared(b)) : There(Layers(Declared(b))[i].from)
             /\ build'[b].began = edited /\ build'[b].lost = gone
             /\ \A x \in {"todo", "made", "reported"} : build'[b][x] = build[b][x]
             /\ \A x \in {"recipe", "files"} : Context(b)'[x] = Context(b)[x]
    <2> DEFINE L == LayersIn(tree, gone, Declared(b))
    <2>1. /\ tree' = tree /\ gone' = gone /\ edited' = edited /\ Declared(b)' = Declared(b)
          /\ FileTree(tree) /\ Written(Declared(b))
      BY <1>2, InnerKeeps
    <2>2. Layers(Declared(b)) = L BY LayersIs
    <2>3. Standing(tree, gone, Declared(b)) BY <1>2 DEF Good, Stands
    <2>4. \A i \in DOMAIN L : L[i].from \in DOMAIN tree \ gone
      <3> HIDE DEF L
      <3> QED BY <1>2, <2>2 DEF There
    <2>5. Fit(tree, gone, Declared(b), L) BY <2>1, <2>3, <2>4, PlanFits
    <2> HIDE DEF L
    <2>6. build'[b].layers = L /\ build'[b].began = edited BY <1>2, <2>2
    <2>7. Fits(b)' BY <2>1, <2>5, <2>6 DEF Fits
    <2>8. Stands(b)' BY <2>1, <2>3 DEF Stands
    <2>9. Unstaged(b)' BY <1>2 DEF Good, Unstaged
    <2> QED BY <1>2, <2>7, <2>8, <2>9 DEF Good, Stages, Made
  <1> QED BY <1>1, <1>2, PlanDoes

LEMMA GoodCheckBase ==
    ASSUME Basics, NEW b \in Builds, Good(b), CheckBase(b)
    PROVE  Good(b)'
  <1>1. CASE Moves(b, "planned", "pinned")
    <2>1. /\ build[b].pc = "planned" /\ build'[b].pc = "pinned"
          /\ build'[b].layers = build[b].layers /\ build'[b].began = build[b].began
          /\ build'[b].todo = build[b].todo /\ Context(b)' = Context(b)
          /\ tree' = tree /\ gone' = gone /\ edited' = edited /\ Declared(b)' = Declared(b)
      BY <1>1, MovesKeeps
    <2>2. Unstaged(b)' BY <2>1 DEF Good, Unstaged
    <2>3. Stands(b)' BY <2>1 DEF Good, Stands
    <2>4. Fits(b)' BY <2>1 DEF Good, Fits
    <2> QED BY <2>1, <2>2, <2>3, <2>4 DEF Good, Stages, Made
  <1>2. CASE Moves(b, "planned", "failed")
    <2>1. build'[b].pc = "failed" BY <1>2 DEF Moves
    <2> QED BY <2>1, GoodStops
  <1> QED BY <1>1, <1>2, CheckBaseDoes

LEMMA GoodStageRecipe ==
    ASSUME Basics, NEW b \in Builds, Good(b), StageRecipe(b)
    PROVE  Good(b)'
  <1>1. /\ Inner(b) /\ build[b].pc = "pinned" /\ build'[b].pc = "staging"
        /\ build'[b].todo = [i \in DOMAIN build[b].todo \cup DOMAIN build[b].layers |->
                Item(build[b].layers[i].from, build[b].layers[i].at, << >>, {})]
        /\ build'[b].layers = build[b].layers /\ build'[b].began = build[b].began
        /\ Context(b)'.recipe = Declared(b) /\ Context(b)'.files = Context(b).files
    BY StageRecipeDoes DEF Parts
  <1>2. /\ tree' = tree /\ gone' = gone /\ edited' = edited /\ Declared(b)' = Declared(b)
    BY <1>1, InnerKeeps
  <1>3. build[b].todo = << >> /\ Context(b).files = << >> BY <1>1 DEF Good, Unstaged
  <1>4. Fit(tree, gone, Declared(b), build[b].layers) /\ build[b].began \subseteq edited
    BY <1>1 DEF Good, Fits
  <1>5. Staging(tree, gone, build[b].layers, build[b].began, build'[b].todo, << >>)
    BY <1>1, <1>3, <1>4, StagingFirst
  <1>6. Stages(b)' BY <1>1, <1>2, <1>3, <1>5 DEF Stages
  <1>7. Stands(b)' BY <1>1, <1>2 DEF Good, Stands
  <1>8. Fits(b)' BY <1>1, <1>2, <1>4 DEF Fits
  <1> QED BY <1>1, <1>6, <1>7, <1>8 DEF Good, Unstaged, Made

\* While a build walks: what it keeps, and what is to be shown again.
LEMMA GoodWalks ==
    ASSUME Basics, NEW b \in Builds, Good(b), NEW todo, Walks(b, todo),
           Context(b)'.recipe = Context(b).recipe,
           Staging(tree, gone, build[b].layers, build[b].began, todo, Context(b)'.files)
    PROVE  Good(b)'
  <1>1. /\ Inner(b) /\ build[b].pc = "staging" /\ build'[b].pc = "staging"
        /\ build'[b].todo = todo
        /\ build'[b].layers = build[b].layers /\ build'[b].began = build[b].began
    BY DEF Walks, Parts
  <1>2. tree' = tree /\ gone' = gone /\ edited' = edited /\ Declared(b)' = Declared(b)
    BY <1>1, InnerKeeps
  <1>3. Stages(b)' BY <1>1, <1>2 DEF Good, Stages
  <1>4. Stands(b)' BY <1>1, <1>2 DEF Good, Stands
  <1>5. Fits(b)' BY <1>1, <1>2 DEF Good, Fits
  <1> QED BY <1>1, <1>3, <1>4, <1>5 DEF Good, Unstaged, Made

\* The layer an item is found in is the only one at the item's place.
LEMMA RootIs ==
    ASSUME NEW b \in Builds, Fit(tree, gone, Declared(b), build[b].layers),
           NEW i \in 1 .. Len(build[b].layers), build[b].layers[i].at = Upcoming(b).at
    PROVE  Root(b) = build[b].layers[i].from
  <1> DEFINE layers == build[b].layers
             h == CHOOSE j \in DOMAIN layers : layers[j].at = Upcoming(b).at
  <1>1. /\ DOMAIN layers = 1 .. Len(layers)
        /\ \A j \in 1 .. Len(layers) : layers[i].at = layers[j].at => i = j
    BY FitLayer
  <1>2. h \in DOMAIN layers /\ layers[h].at = Upcoming(b).at BY <1>1
  <1>3. h = i BY <1>1, <1>2
  <1> QED BY <1>3 DEF Root

LEMMA GoodWalk ==
    ASSUME Basics, NEW b \in Builds, Good(b), Walk(b)
    PROVE  Good(b)'
  <1> DEFINE layers == build[b].layers  todo == build[b].todo  files == Context(b).files
             began == build[b].began
  <1>1. PICK item : item = Upcoming(b) OBVIOUS
  <1>2. build[b].pc = "staging" /\ todo # << >> BY DEF Walk, At
  <1>3. Fit(tree, gone, Declared(b), layers) /\ began \subseteq edited
    BY <1>2 DEF Good, Fits
  <1>4. Staging(tree, gone, layers, began, todo, files) BY <1>2 DEF Good, Stages
  <1>5. FileTree(tree) BY DEF Basics
  <1>6. item = Head(todo) BY <1>1 DEF Upcoming
  <1>7. CASE /\ Is(item.from, "link") /\ Followable(b) /\ contexts' = contexts
             /\ Walks(b, <<Item(tree[item.from].to, item.at, item.rel,
                                item.via \cup {tree[item.from].to})>> \o Tail(todo))
    <2>1. PICK to : to = tree[item.from].to OBVIOUS
    <2>2. item.from \notin gone /\ tree[item.from].type = "link" BY <1>7 DEF Is, There
    <2>3. to \in DOMAIN tree \ gone /\ IsPrefix(Root(b), to)
      BY <1>1, <1>7, <2>1 DEF Followable, There
    <2>4. PICK root : root = Root(b) OBVIOUS
    <2>5. \A i \in 1 .. Len(layers) : layers[i].at = item.at => root = layers[i].from
      BY <1>1, <1>3, <2>4, RootIs
    <2>6. PICK next : next = <<Item(to, item.at, item.rel, item.via \cup {to})>> \o Tail(todo)
      OBVIOUS
    <2>7. Staging(tree, gone, layers, began, next, files)
      BY <1>2, <1>3, <1>4, <1>5, <1>6, <2>1, <2>2, <2>3, <2>4, <2>5, <2>6, StagingLink
    <2>8. Walks(b, next) BY <1>7, <2>1, <2>6
    <2>9. Context(b)' = Context(b) BY <1>7, <2>8, InnerKeeps DEF Walks
    <2> QED BY <2>7, <2>8, <2>9, GoodWalks
  <1>8. CASE /\ Is(item.from, "dir") /\ contexts' = contexts
             /\ Walks(b, Entries(item, Walked(item.from), Tail(todo)))
    <2>1. item.from \notin gone /\ tree[item.from].type = "dir" BY <1>8 DEF Is, There
    <2>2. Walked(item.from) = Listed(tree, gone, item.from)
      <3>1. \A q \in DOMAIN tree \ gone : Is(q, "dir") <=> tree[q].type = "dir"
        BY DEF Is, There
      <3> QED BY <3>1 DEF Walked, Children, Listed
    <2>3. PICK next : next = Entries(item, Listed(tree, gone, item.from), Tail(todo)) OBVIOUS
    <2>4. Staging(tree, gone, layers, began, next, files)
      BY <1>2, <1>3, <1>4, <1>5, <1>6, <2>1, <2>3, StagingDirectory
    <2>5. Walks(b, next) BY <1>8, <2>2, <2>3
    <2>6. Context(b)' = Context(b) BY <1>8, <2>5, InnerKeeps DEF Walks
    <2> QED BY <2>4, <2>5, <2>6, GoodWalks
  <1>9. CASE /\ Is(item.from, "file") /\ Walks(b, Tail(todo))
             /\ Context(b)'.recipe = Context(b).recipe
             /\ Context(b)'.files = Put(Context(b).files, <<item.at, item.rel>>,
                        [of |-> item.from, rewritten |-> item.from \in edited])
    <2>1. item.from \notin gone /\ tree[item.from].type = "file" BY <1>9 DEF Is, There
    <2>2. PICK content : content = [of |-> item.from, rewritten |-> item.from \in edited]
      OBVIOUS
    <2>3. Staging(tree, gone, layers, began, Tail(todo), Put(files, <<item.at, item.rel>>, content))
      BY <1>2, <1>3, <1>4, <1>5, <1>6, <2>1, <2>2, StagingFile
    <2>4. Staging(tree, gone, layers, began, Tail(todo), Context(b)'.files) BY <1>9, <2>2, <2>3
    <2> QED BY <1>9, <2>4, GoodWalks
  <1>10. CASE Moves(b, "staging", "failed")
    <2>1. build'[b].pc = "failed" BY <1>10 DEF Moves
    <2> QED BY <2>1, GoodStops
  <1> QED BY <1>1, <1>7, <1>8, <1>9, <1>10, WalkDoes

LEMMA GoodStaged ==
    ASSUME Basics, NEW b \in Builds, Good(b), Staged(b)
    PROVE  Good(b)'
  <1>1. Moves(b, "staging", "building") /\ build[b].todo = << >> BY StagedDoes
  <1>2. /\ build[b].pc = "staging" /\ build'[b].pc = "building"
        /\ build'[b].layers = build[b].layers /\ build'[b].began = build[b].began
        /\ build'[b].todo = build[b].todo /\ Context(b)' = Context(b)
        /\ tree' = tree /\ gone' = gone /\ edited' = edited /\ Declared(b)' = Declared(b)
    BY <1>1, MovesKeeps
  <1>3. Stages(b)' BY <1>1, <1>2 DEF Good, Stages
  <1>4. Stands(b)' BY <1>2 DEF Good, Stands
  <1>5. Fits(b)' BY <1>2 DEF Good, Fits
  <1> QED BY <1>2, <1>3, <1>4, <1>5 DEF Good, Unstaged, Made

LEMMA GoodEngineReads ==
    ASSUME Basics, NEW b \in Builds, Good(b), EngineReads(b)
    PROVE  Good(b)'
  <1>1. CASE Moves(b, "building", "failed")
    <2>1. build'[b].pc = "failed" BY <1>1 DEF Moves
    <2> QED BY <2>1, GoodStops
  <1>2. CASE /\ Inner(b) /\ build[b].pc = "building" /\ build'[b].pc = "tagging"
             /\ build'[b].made.files = Filesystem(Context(b).recipe, Context(b).files)
             /\ \A x \in Parts \ {"pc", "made"} : build'[b][x] = build[b][x]
    <2>1. build'[b].layers = build[b].layers /\ build'[b].began = build[b].began
      BY <1>2 DEF Parts
    <2>2. /\ tree' = tree /\ gone' = gone /\ edited' = edited /\ Declared(b)' = Declared(b)
          /\ FileTree(tree)
      BY <1>2, InnerKeeps
    <2>3. Fit(tree, gone, Declared(b), build[b].layers) BY <1>2 DEF Good, Fits
    <2>4. /\ Context(b).recipe = Declared(b)
          /\ Staging(tree, gone, build[b].layers, build[b].began, << >>, Context(b).files)
      BY <1>2 DEF Good, Stages
    <2>5. PICK L : L = LayersIn(tree, gone, Declared(b)) OBVIOUS
    <2>6. Layers(Declared(b)) = L BY <2>5, LayersIs
    <2>7. Whole(tree, gone, build[b].layers, build[b].began, FilesIn(L, Context(b).files))
      BY <2>2, <2>3, <2>4, <2>5, WholeFirst
    <2>8. Filesystem(Declared(b), Context(b).files) = FilesIn(L, Context(b).files)
      BY <2>6 DEF Filesystem, FilesIn
    <2>9. Made(b)' BY <1>2, <2>1, <2>2, <2>4, <2>7, <2>8 DEF Made
    <2>10. Stands(b)' BY <1>2, <2>2 DEF Good, Stands
    <2>11. Fits(b)' BY <1>2, <2>1, <2>2 DEF Good, Fits
    <2> QED BY <1>2, <2>9, <2>10, <2>11 DEF Good, Unstaged, Stages
  <1> QED BY <1>1, <1>2, EngineReadsDoes

LEMMA GoodAdvances ==
    ASSUME Basics, NEW b \in Builds, Good(b), Advances(b) \/ Fails(b)
    PROVE  Good(b)'
  <1>1. CASE EngineTags(b) BY <1>1, EngineTagsDoes, GoodStops
  <1>2. CASE Inspect(b) BY <1>2, InspectDoes, GoodStops
  <1>3. CASE Fails(b)
    <2>1. build'[b].pc = "failed" BY <1>3, FailsDoes DEF Moves
    <2> QED BY <2>1, GoodStops
  <1> QED BY <1>1, <1>2, <1>3, GoodLoad, GoodPlan, GoodCheckBase, GoodStageRecipe, GoodWalk,
             GoodStaged, GoodEngineReads DEF Advances

\* A file is rewritten or removed while builds are under way.
LEMMA GoodWhenHost ==
    ASSUME Basics, NEW b \in Builds, Good(b), NEW p \in DOMAIN tree,
           HostEdits(p) \/ HostRemoves(p)
    PROVE  Good(b)'
  <1>1. /\ tree' = tree /\ build' = build /\ Declared(b)' = Declared(b)
        /\ Context(b)' = Context(b)
    BY HostDoes DEF Outside, Declared, Context, Place
  <1>2. Unstaged(b)' BY <1>1 DEF Good, Unstaged
  <1>3. CASE gone' = gone /\ edited' = edited \cup {p}
    <2>1. Stands(b)' BY <1>1, <1>3 DEF Good, Stands
    <2>2. Fits(b)' BY <1>1, <1>3 DEF Good, Fits
    <2>3. Stages(b)' BY <1>1, <1>3 DEF Good, Stages
    <2>4. Made(b)' BY <1>1, <1>3 DEF Good, Made
    <2> QED BY <1>2, <2>1, <2>2, <2>3, <2>4 DEF Good
  <1>4. CASE gone' = gone \cup {p} /\ edited' = edited
    <2>1. p \in FilesOf(tree) BY HostDoes DEF FilesOf, Is
    <2>2. FileTree(tree) /\ Written(Declared(b)) BY DEF Basics, Asked, Declared
    <2>3. Stands(b)' BY <1>1, <1>4, <2>1, <2>2, FitRemains DEF Good, Stands
    <2>4. Fits(b)'
      <3>1. Fits(b) /\ Stands(b) BY DEF Good
      <3> QED BY <1>1, <1>4, <2>1, <2>2, <3>1, FitRemains DEF Fits, Stands
    <2>5. Stages(b)' BY <1>1, <1>4, <2>1, <2>2, StagingRemains DEF Good, Stages
    <2>6. Made(b)'
      <3>1. Fits(b) /\ Made(b) BY DEF Good
      <3> QED BY <1>1, <1>4, <2>1, <2>2, <3>1, WholeRemains DEF Fits, Made
    <2> QED BY <1>2, <2>3, <2>4, <2>5, <2>6 DEF Good
  <1> QED BY <1>3, <1>4, HostDoes

LEMMA GoodAlike ==
    ASSUME NEW b \in Builds, Good(b), build'[b] = build[b], Context(b)' = Context(b),
           UNCHANGED <<tree, gone, edited, request>>
    PROVE  Good(b)'
  BY DEF Good, Unstaged, Stands, Fits, Stages, Made, Declared

LEMMA TreesStep ==
    ASSUME Basics, OwnTrees, [Next]_vars
    PROVE  OwnTrees'
  <1>1. CASE UNCHANGED vars
    <2>1. UNCHANGED <<tree, gone, edited, request, build, contexts>> BY <1>1 DEF vars
    <2>2. \A b \in Builds : Context(b)' = Context(b) /\ Place(b)' = Place(b)
      BY <2>1 DEF Context, Place
    <2> QED BY <2>1, <2>2, GoodAlike DEF OwnTrees
  <1>2. ASSUME NEW b \in Builds, Advances(b) \/ Fails(b) PROVE OwnTrees'
    <2>1. Inner(b) BY <1>2, AdvancesDoes
    <2>2. request' = request /\ UNCHANGED <<tree, gone, edited>> BY <2>1 DEF Inner
    <2> SUFFICES ASSUME NEW c \in Builds, Place(c) = c PROVE Good(c)'
      BY <2>2 DEF OwnTrees, Place
    <2>3. Good(c) BY DEF OwnTrees
    <2>4. CASE c = b BY <1>2, <2>3, <2>4, GoodAdvances
    <2>5. CASE c # b
      <3>1. build'[c] = build[c] BY <2>1, <2>5 DEF Inner, Others
      <3>2. Place(b) # c BY <2>5, PlaceIs
      <3>3. contexts'[c] = contexts[c] BY <2>1, <3>2 DEF Inner, ContextsElse
      <3>4. Context(c)' = Context(c) BY <2>2, <3>3 DEF Context, Place
      <3> QED BY <2>2, <2>3, <3>1, <3>4, GoodAlike
    <2> QED BY <2>4, <2>5
  <1>3. ASSUME NEW p \in DOMAIN tree, HostEdits(p) \/ HostRemoves(p) PROVE OwnTrees'
    <2>1. request' = request BY <1>3, HostDoes DEF Outside
    <2> SUFFICES ASSUME NEW c \in Builds, Place(c) = c PROVE Good(c)'
      BY <2>1 DEF OwnTrees, Place
    <2> QED BY <1>3, GoodWhenHost DEF OwnTrees
  <1>4. ASSUME NEW reference \in DOMAIN Held, ReferenceMoves(reference) PROVE OwnTrees'
    <2>1. UNCHANGED <<tree, gone, edited, request, build, contexts>>
      BY <1>4, ReferenceDoes DEF Outside
    <2>2. \A b \in Builds : Context(b)' = Context(b) /\ Place(b)' = Place(b)
      BY <2>1 DEF Context, Place
    <2> QED BY <2>1, <2>2, GoodAlike DEF OwnTrees
  <1> QED BY <1>1, <1>2, <1>3, <1>4 DEF Next

\* The layers that have a file for a place.
LEMMA DeclaringIs ==
    ASSUME FileTree(tree), NEW layers, NEW n, DOMAIN layers = 1 .. n, NEW t \in Seq(Names)
    PROVE  Declaring(layers, t) = {i \in 1 .. n : Declares(tree, gone, layers[i], t)}
  <1>1. ASSUME NEW i \in 1 .. n
        PROVE  LET p == Means(layers[i], Within(layers[i], t)) IN
               p # Nowhere /\ Is(p, "file") <=> Found(tree, gone, layers[i], Within(layers[i], t))
    <2>1. PICK p : p = Means(layers[i], Within(layers[i], t)) OBVIOUS
    <2>2. p = MeansIn(tree, gone, layers[i].from, Within(layers[i], t)) BY <2>1, MeansIs
    <2>3. p \in DOMAIN tree => p # Nowhere BY DEF FileTree
    <2>4. Found(tree, gone, layers[i], Within(layers[i], t))
            <=> p \in DOMAIN tree \ gone /\ tree[p].type = "file"
      BY <2>2 DEF Found, FilesOf
    <2> QED BY <2>1, <2>3, <2>4 DEF Is, There
  <1> QED BY <1>1 DEF Declaring, Declares

LEMMA RelsAreNames ==
    ASSUME FileTree(tree), NEW rel \in Rels
    PROVE  rel \in Seq(Names)
  <1> DEFINE S == {Last(p) : p \in DOMAIN tree \ {<< >>}}
  <1>1. S \subseteq Names BY FrontAndLast
  <1>2. rel \in BoundedSeq(S, MaxDepth) BY DEF Rels
  <1> HIDE DEF S
  <1>3. PICK k \in 0 .. MaxDepth : rel \in [1 .. k -> S] BY <1>2 DEF BoundedSeq, SeqOf
  <1>4. k \in Nat BY BuildAssumption
  <1>5. rel \in [1 .. k -> Names] BY <1>1, <1>3
  <1> QED BY <1>4, <1>5, SeqDef

\* Whatever links, .git directories and overlapping declarations the tree has, and
\* whichever files are rewritten or removed meanwhile, the engine makes an image
\* of exactly the files the declared sources and modules have (copyTree and the
\* COPY lines of containerfile), if nobody else assembles a context in the
\* directory the build stages in.
THEOREM ImagesAreTheTree == Spec => []ImageIsTheTree
  <1>1. Init => OwnTrees BY TreesAtFirst
  <1>2. Basics /\ OwnTrees /\ [Next]_vars => OwnTrees' BY TreesStep
  <1>3. ASSUME Basics, OwnTrees PROVE ImageIsTheTree
    <2> SUFFICES ASSUME NEW b \in Builds, OwnImage(b),
                        NEW layers, layers = build[b].layers,
                        NEW files, files = build[b].made.files
                 PROVE  /\ \A t \in DOMAIN files :
                            /\ files[t].of \in gone \/ \E i \in Declaring(layers, t) :
                                  /\ i = Max(Declaring(layers, t))
                                  /\ files[t].of = Means(layers[i], Within(layers[i], t))
                            /\ files[t].of \in build[b].began => files[t].rewritten
                        /\ \A i \in DOMAIN layers, rel \in Rels :
                            Declaring(layers, layers[i].to \o rel) # {}
                                => layers[i].to \o rel \in DOMAIN files
      BY DEF ImageIsTheTree
    <2>1. build[b].pc = "tagging" /\ Good(b) BY <1>3 DEF OwnTrees, OwnImage, At
    <2>2. FileTree(tree) BY <1>3 DEF Basics
    <2>3. Whole(tree, gone, layers, build[b].began, files) BY <2>1 DEF Good, Made
    <2>4. Fit(tree, gone, Declared(b), layers) BY <2>1 DEF Good, Fits
    <2>5. PICK n \in Nat : n = Len(layers) /\ DOMAIN layers = 1 .. n
      BY <2>4, LenProperties DEF Fit
    <2>6. ASSUME NEW t \in DOMAIN files
          PROVE  /\ files[t].of \in gone \/ \E i \in Declaring(layers, t) :
                        /\ i = Max(Declaring(layers, t))
                        /\ files[t].of = Means(layers[i], Within(layers[i], t))
                 /\ files[t].of \in build[b].began => files[t].rewritten
      <3>1. t \in Seq(Names) /\ (files[t].of \in build[b].began => files[t].rewritten)
        BY <2>3 DEF Whole
      <3>2. CASE files[t].of \in gone BY <3>1, <3>2
      <3>3. CASE files[t].of \notin gone
        <4>1. PICK i \in 1 .. n :
                /\ Declares(tree, gone, layers[i], t)
                /\ \A j \in 1 .. n : Declares(tree, gone, layers[j], t) => j <= i
                /\ files[t].of = MeansIn(tree, gone, layers[i].from, Within(layers[i], t))
          BY <2>3, <2>5, <3>3 DEF Whole
        <4>2. PICK I : I = Declaring(layers, t) OBVIOUS
        <4>3. I = {j \in 1 .. n : Declares(tree, gone, layers[j], t)}
          BY <2>2, <2>5, <3>1, <4>2, DeclaringIs
        <4>4. I \in SUBSET (1 .. n) /\ i \in I /\ \A j \in I : j <= i BY <4>1, <4>3
        <4>5. Max(I) \in I /\ \A j \in I : j <= Max(I) BY <4>4, MaxOf
        <4>6. i = Max(I)
          <5>1. Max(I) \in 1 .. n /\ Max(I) <= i /\ i <= Max(I) BY <4>4, <4>5
          <5> QED BY <5>1
        <4>7. files[t].of = Means(layers[i], Within(layers[i], t)) BY <4>1, MeansIs
        <4> QED BY <3>1, <4>2, <4>4, <4>6, <4>7
      <3> QED BY <3>2, <3>3
    <2>7. ASSUME NEW i \in DOMAIN layers, NEW rel \in Rels,
                 Declaring(layers, layers[i].to \o rel) # {}
          PROVE  layers[i].to \o rel \in DOMAIN files
      <3>1. PICK t : t = layers[i].to \o rel OBVIOUS
      <3>2. layers[i].to \in Seq(Names) /\ rel \in Seq(Names)
        <4>1. rel \in Seq(Names) BY <2>2, RelsAreNames
        <4>2. i \in 1 .. Len(layers) BY <2>5
        <4>3. layers[i].to \in Seq(Names) BY <2>4, <4>2, FitLayer
        <4> QED BY <4>1, <4>3
      <3>3. t \in Seq(Names) BY <3>1, <3>2, TargetOf
      <3>4. PICK j \in 1 .. n : Declares(tree, gone, layers[j], t)
        <4>1. Declaring(layers, t) = {j \in 1 .. n : Declares(tree, gone, layers[j], t)}
          BY <2>2, <2>5, <3>3, DeclaringIs
        <4>2. Declaring(layers, t) # {} BY <2>7, <3>1
        <4> QED BY <4>1, <4>2
      <3> QED BY <2>3, <2>5, <3>1, <3>4 DEF Whole
    <2> QED BY <2>6, <2>7
  <1> QED BY <1>1, <1>2, <1>3, AlwaysBasics, PTL DEF Spec
=============================================================================

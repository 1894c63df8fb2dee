----------------------- MODULE PayloadReceiver_proofs -----------------------
(***************************************************************************)
(* How a payload enters a session: type correctness, what may be left in   *)
(* the staging area and of which payloads, that a payload is shown whole   *)
(* or not at all, and that a receiver accepts, entry by     *)
(* entry, exactly the archives that are acceptable as a whole.  All of it  *)
(* for any receivers, names, archives, limits and number of faults.        *)
(*                                                                         *)
(* What was staged is what the entries read so far describe (WholeAt), and *)
(* those entries fit together (CheckedAt).  Bytes relate the two ends: as  *)
(* every entry has a header, a stream that is read to its end and is not   *)
(* longer than the limit has no entry left (EndIsTheEnd), and an entry     *)
(* that is refused where it stands makes the whole unacceptable            *)
(* (RefusedIsUnacceptable).                                                *)
(***************************************************************************)
EXTENDS PayloadReceiver, SequenceTheorems, WellFoundedInduction, TLAPS

(***************************************************************************)
(* Induction over the naturals, from the library's theorem that < is       *)
(* well-founded.                                                           *)
(***************************************************************************)
NatLess == {ss \in Nat \X Nat : ss[1] < ss[2]}

LEMMA Least ==
    ASSUME NEW T, T \subseteq Nat, T # {}
    PROVE  \E x \in T : \A y \in T : x <= y
  <1>1. IsWellFoundedOn(NatLess, Nat)
    BY NatLessThanWellFounded, Zenon DEF OpToRel, NatLess
  <1>2. \E x \in T : \A y \in T : <<y, x>> \notin NatLess
    BY <1>1, WFMin
  <1>3. PICK x \in T : \A y \in T : <<y, x>> \notin NatLess BY <1>2
  <1>4. ASSUME NEW y \in T PROVE x <= y
    <2>1. <<y, x>> \in Nat \X Nat /\ <<y, x>> \notin NatLess BY <1>3
    <2>2. ~(y < x) BY <2>1 DEF NatLess
    <2> QED BY <2>2
  <1> QED BY <1>4

LEMMA Induction ==
    ASSUME NEW S, 0 \in S, \A n \in Nat : n \in S => n + 1 \in S
    PROVE  Nat \subseteq S
  <1> DEFINE T == Nat \ S
  <1>1. SUFFICES ASSUME T # {} PROVE FALSE OBVIOUS
  <1>2. PICK x \in T : \A y \in T : x <= y BY <1>1, Least
  <1>3. x - 1 \in Nat BY <1>2
  <1> QED BY <1>2, <1>3

-----------------------------------------------------------------------------
(***************************************************************************)
(* What reading a number of entries adds up to.  The fold takes the largest *)
(* index of a set first, so its recursion is over the sets of indices.     *)
(***************************************************************************)
Folds(g, s, D) ==
    g = [I \in SUBSET D |-> IF I = {} THEN 0
                            ELSE g[I \ {Max(I)}] + Header(s[Max(I)])]

Weight(s) == FoldLeft(LAMBDA n, e : n + Header(e), 0, s)

LEMMA WeightFolds ==
    ASSUME NEW s, \E g : Folds(g, s, DOMAIN s)
    PROVE  \E g : Folds(g, s, DOMAIN s) /\ Weight(s) = g[DOMAIN s]
  <1> DEFINE f == CHOOSE g : Folds(g, s, DOMAIN s)
  <1>1. Folds(f, s, DOMAIN s) OBVIOUS
  <1>2. Weight(s) = f[DOMAIN s] BY DEF Weight, FoldLeft, MapThenFoldSet, Folds
  <1> HIDE DEF f
  <1> QED BY <1>1, <1>2

LEMMA MaxOfBounded ==
    ASSUME NEW k \in Nat, NEW I, I \subseteq 1 .. k + 1, k + 1 \in I
    PROVE  Max(I) = k + 1
  <1>1. \A y \in I : k + 1 >= y OBVIOUS
  <1>2. \A x \in I : (\A y \in I : x >= y) => x = k + 1 OBVIOUS
  <1> QED BY <1>1, <1>2 DEF Max

LEMMA FoldsExist ==
    ASSUME NEW s
    PROVE  \A k \in Nat : \E g : Folds(g, s, 1 .. k)
  <1> DEFINE S == {k \in Nat : \E g : Folds(g, s, 1 .. k)}
  <1>1. 0 \in S
    <2> DEFINE g == [I \in SUBSET (1 .. 0) |-> 0]
    <2>1. 1 .. 0 = {} OBVIOUS
    <2>2. \A I \in SUBSET (1 .. 0) : I = {} BY <2>1
    <2>3. g = [I \in SUBSET (1 .. 0) |-> IF I = {} THEN 0
                            ELSE g[I \ {Max(I)}] + Header(s[Max(I)])]
      BY <2>2
    <2> HIDE DEF g
    <2> QED BY <2>3 DEF Folds
  <1>2. ASSUME NEW k \in Nat, k \in S PROVE k + 1 \in S
    <2>1. PICK g : Folds(g, s, 1 .. k) BY <1>2
    <2> DEFINE h == [I \in SUBSET (1 .. k + 1) |->
                        IF k + 1 \in I THEN g[I \ {k + 1}] + Header(s[k + 1]) ELSE g[I]]
    <2>2. ASSUME NEW I \in SUBSET (1 .. k) PROVE h[I] = g[I] /\ I \in SUBSET (1 .. k + 1)
      OBVIOUS
    <2>3. ASSUME NEW I \in SUBSET (1 .. k + 1)
          PROVE  h[I] = IF I = {} THEN 0 ELSE h[I \ {Max(I)}] + Header(s[Max(I)])
      <3>1. CASE k + 1 \in I
        <4>1. Max(I) = k + 1 BY <3>1, MaxOfBounded
        <4>2. I \ {k + 1} \in SUBSET (1 .. k) OBVIOUS
        <4>3. h[I \ {k + 1}] = g[I \ {k + 1}] BY <2>2, <4>2
        <4>4. h[I] = g[I \ {k + 1}] + Header(s[k + 1]) BY <3>1
        <4>5. I # {} BY <3>1
        <4> HIDE DEF h
        <4> QED BY <4>1, <4>3, <4>4, <4>5
      <3>2. CASE k + 1 \notin I
        <4>1. I \in SUBSET (1 .. k) BY <3>2
        <4>2. h[I] = g[I] BY <2>2, <4>1
        <4>3. g[I] = IF I = {} THEN 0 ELSE g[I \ {Max(I)}] + Header(s[Max(I)])
          BY <2>1, <4>1 DEF Folds
        <4>4. I \ {Max(I)} \in SUBSET (1 .. k) BY <4>1
        <4>5. h[I \ {Max(I)}] = g[I \ {Max(I)}] BY <2>2, <4>4
        <4> HIDE DEF h
        <4> QED BY <4>2, <4>3, <4>5
      <3> QED BY <3>1, <3>2
    <2>4. h = [I \in SUBSET (1 .. k + 1) |-> h[I]] OBVIOUS
    <2> HIDE DEF h
    <2>5. Folds(h, s, 1 .. k + 1) BY <2>3, <2>4 DEF Folds
    <2> QED BY <2>5
  <1>3. Nat \subseteq S
    <2> HIDE DEF S
    <2> QED BY <1>1, <1>2, Induction
  <1> QED BY <1>3

\* The bytes of the first entries, of the first one more, and so on.
Sums(t, s) ==
    /\ t[0] = 0
    /\ \A k \in 1 .. Len(s) : t[k] = t[k - 1] + Header(s[k])

LEMMA FoldOfPrefix ==
    ASSUME NEW s, Len(s) \in Nat, NEW t, Sums(t, s),
           NEW k \in 0 .. Len(s), NEW r, NEW g, Folds(g, r, 1 .. k), \A i \in 1 .. k : r[i] = s[i]
    PROVE  g[1 .. k] = t[k]
  <1> DEFINE S == {n \in Nat : n <= k => g[1 .. n] = t[n]}
  <1>1. 0 \in S
    <2>1. 1 .. 0 = {} /\ {} \in SUBSET (1 .. k) OBVIOUS
    <2>2. g[{}] = 0 BY <2>1 DEF Folds
    <2> QED BY <2>1, <2>2 DEF Sums
  <1>2. ASSUME NEW n \in Nat, n \in S PROVE n + 1 \in S
    <2>1. SUFFICES ASSUME n + 1 <= k PROVE g[1 .. n + 1] = t[n + 1] OBVIOUS
    <2>2. 1 .. n + 1 \in SUBSET (1 .. k) /\ 1 .. n + 1 # {} BY <2>1
    <2>3. Max(1 .. n + 1) = n + 1 BY MaxOfBounded
    <2>4. (1 .. n + 1) \ {n + 1} = 1 .. n OBVIOUS
    <2>5. g[1 .. n + 1] = g[1 .. n] + Header(r[n + 1])
      <3>1. PICK I : I = 1 .. n + 1 OBVIOUS
      <3>2. I \in SUBSET (1 .. k) /\ I # {} BY <2>2, <3>1
      <3>3. g[I] = g[I \ {Max(I)}] + Header(r[Max(I)]) BY <3>2 DEF Folds
      <3> QED BY <2>3, <2>4, <3>1, <3>3
    <2>6. n + 1 \in 1 .. Len(s) /\ n + 1 \in 1 .. k /\ (n + 1) - 1 = n BY <2>1
    <2>7. t[n + 1] = t[n] + Header(s[n + 1]) BY <2>6 DEF Sums
    <2>8. g[1 .. n] = t[n] BY <1>2, <2>1
    <2>9. r[n + 1] = s[n + 1] BY <2>6
    <2> QED BY <2>5, <2>7, <2>8, <2>9
  <1>3. Nat \subseteq S
    <2> HIDE DEF S
    <2> QED BY <1>1, <1>2, Induction
  <1> QED BY <1>3

LEMMA SumsExist ==
    ASSUME NEW s, Len(s) \in Nat
    PROVE  \E t : Sums(t, s)
  <1>1. PICK g : Folds(g, s, 1 .. Len(s)) BY FoldsExist
  <1> DEFINE t == [k \in 0 .. Len(s) |-> g[1 .. k]]
  <1>2. t[0] = 0
    <2>1. 1 .. 0 = {} OBVIOUS
    <2>2. g[{}] = 0 BY <1>1 DEF Folds
    <2> QED BY <2>1, <2>2
  <1>3. ASSUME NEW k \in 1 .. Len(s) PROVE t[k] = t[k - 1] + Header(s[k])
    <2>1. 1 .. k \in SUBSET (1 .. Len(s)) /\ 1 .. k # {} /\ k - 1 \in Nat OBVIOUS
    <2>2. Max(1 .. k) = k
      <3>1. (k - 1) + 1 = k OBVIOUS
      <3> QED BY <2>1, <3>1, MaxOfBounded
    <2>3. (1 .. k) \ {k} = 1 .. k - 1 OBVIOUS
    <2>4. g[1 .. k] = g[1 .. k - 1] + Header(s[k]) BY <1>1, <2>1, <2>2, <2>3 DEF Folds
    <2> QED BY <2>4
  <1> HIDE DEF t
  <1> QED BY <1>2, <1>3 DEF Sums

LEMMA WeightOfPrefix ==
    ASSUME NEW S, NEW s \in Seq(S), NEW t, Sums(t, s), NEW k \in 0 .. Len(s)
    PROVE  Weight(SubSeq(s, 1, k)) = t[k]
  <1>1. PICK r : r = SubSeq(s, 1, k) OBVIOUS
  <1>2. DOMAIN r = 1 .. k /\ \A i \in 1 .. k : r[i] = s[i] BY <1>1
  <1>3. PICK g : Folds(g, r, 1 .. k) /\ Weight(r) = g[1 .. k]
    <2>1. k \in Nat OBVIOUS
    <2>2. DOMAIN r = 1 .. k BY <1>2
    <2>3. \E g : Folds(g, r, DOMAIN r) BY <2>1, <2>2, FoldsExist
    <2>4. \E g : Folds(g, r, DOMAIN r) /\ Weight(r) = g[DOMAIN r] BY <2>3, WeightFolds
    <2> QED BY <2>2, <2>4
  <1>4. Len(s) \in Nat OBVIOUS
  <1>5. g[1 .. k] = t[k]
    <2>1. \A i \in 1 .. k : r[i] = s[i] BY <1>2
    <2>2. Folds(g, r, 1 .. k) BY <1>3
    <2> QED BY <1>4, <2>1, <2>2, FoldOfPrefix
  <1> QED BY <1>1, <1>3, <1>5

\* The weight of the first k entries.
W(s, k) == Weight(SubSeq(s, 1, k))

LEMMA HeaderCounts ==
    ASSUME NEW e, e.size \in Nat
    PROVE  Header(e) \in Nat /\ Header(e) >= 1
  BY DEF Header

\* One entry after the other adds its own bytes, and no sum of more is smaller.
LEMMA WeightsAdd ==
    ASSUME NEW S, NEW s \in Seq(S), \A e \in S : e.size \in Nat
    PROVE  /\ W(s, 0) = 0 /\ Weight(s) = W(s, Len(s))
           /\ \A k \in 1 .. Len(s) : W(s, k) = W(s, k - 1) + Header(s[k])
           /\ \A k \in 0 .. Len(s) : W(s, k) \in Nat
           /\ \A k, m \in 0 .. Len(s) : k <= m => W(s, k) + (m - k) <= W(s, m)
  <1>1. Len(s) \in Nat OBVIOUS
  <1>2. PICK t : Sums(t, s) BY <1>1, SumsExist
  <1>3. \A k \in 0 .. Len(s) : W(s, k) = t[k] BY <1>2, WeightOfPrefix DEF W
  <1>4. W(s, 0) = 0 BY <1>1, <1>2, <1>3 DEF Sums
  <1>5. Weight(s) = W(s, Len(s))
    <2>1. SubSeq(s, 1, Len(s)) = s OBVIOUS
    <2> QED BY <2>1 DEF W
  <1>6. ASSUME NEW k \in 1 .. Len(s) PROVE W(s, k) = W(s, k - 1) + Header(s[k])
    <2>1. k \in 0 .. Len(s) /\ k - 1 \in 0 .. Len(s) BY <1>1
    <2>2. t[k] = t[k - 1] + Header(s[k]) BY <1>2 DEF Sums
    <2> QED BY <1>3, <2>1, <2>2
  <1>7. ASSUME NEW k \in 1 .. Len(s) PROVE Header(s[k]) \in Nat /\ Header(s[k]) >= 1
    <2>1. s[k] \in S OBVIOUS
    <2> QED BY <2>1, HeaderCounts
  <1> DEFINE P == {m \in Nat : m <= Len(s) =>
                       /\ W(s, m) \in Nat
                       /\ \A k \in 0 .. m : W(s, k) \in Nat /\ W(s, k) + (m - k) <= W(s, m)}
  <1>8. 0 \in P BY <1>4
  <1>9. ASSUME NEW m \in Nat, m \in P PROVE m + 1 \in P
    <2>1. SUFFICES ASSUME m + 1 <= Len(s)
                   PROVE  /\ W(s, m + 1) \in Nat
                          /\ \A k \in 0 .. m + 1 :
                                W(s, k) \in Nat /\ W(s, k) + ((m + 1) - k) <= W(s, m + 1)
      OBVIOUS
    <2>2. /\ W(s, m) \in Nat
              /\ \A k \in 0 .. m : W(s, k) \in Nat /\ W(s, k) + (m - k) <= W(s, m)
      BY <1>9, <2>1
    <2>3. m + 1 \in 1 .. Len(s) /\ (m + 1) - 1 = m BY <1>1, <2>1
    <2>4. W(s, m + 1) = W(s, m) + Header(s[m + 1]) BY <1>6, <2>3
    <2>5. Header(s[m + 1]) \in Nat /\ Header(s[m + 1]) >= 1 BY <1>7, <2>3
    <2>6. W(s, m + 1) \in Nat BY <2>2, <2>4, <2>5
    <2>7. ASSUME NEW k \in 0 .. m + 1
          PROVE  W(s, k) \in Nat /\ W(s, k) + ((m + 1) - k) <= W(s, m + 1)
      <3>1. CASE k = m + 1 BY <2>6, <3>1
      <3>2. CASE k \in 0 .. m
        <4>1. W(s, k) \in Nat /\ W(s, k) + (m - k) <= W(s, m) BY <2>2, <3>2
        <4> QED BY <2>2, <2>4, <2>5, <4>1
      <3> QED BY <3>1, <3>2
    <2> QED BY <2>6, <2>7
  <1>10. Nat \subseteq P
    <2> HIDE DEF P
    <2> QED BY <1>8, <1>9, Induction
  <1>11. ASSUME NEW m \in 0 .. Len(s)
         PROVE  W(s, m) \in Nat /\ \A k \in 0 .. m : W(s, k) + (m - k) <= W(s, m)
    <2>1. m \in Nat /\ m <= Len(s) BY <1>1
    <2> QED BY <1>10, <2>1
  <1> HIDE DEF P
  <1>12. ASSUME NEW k \in 0 .. Len(s), NEW m \in 0 .. Len(s), k <= m
         PROVE  W(s, k) + (m - k) <= W(s, m)
    <2>1. k \in 0 .. m BY <1>1, <1>12
    <2> QED BY <1>11, <2>1
  <1> QED BY <1>4, <1>5, <1>6, <1>11, <1>12

-----------------------------------------------------------------------------
(***************************************************************************)
(* Type correctness.                                                       *)
(***************************************************************************)
\* Every variable is a function on the receivers, or on the names; what is being
\* staged is a tree.
Shaped ==
    /\ sent \in Payloads
    /\ flow \in [Receivers -> Nat]
    /\ entry \in [Receivers -> Nat]
    /\ declared \in [Receivers -> Nat]
    /\ DOMAIN staging = Receivers
    /\ DOMAIN payload = Names
    /\ \A r \in Receivers : Working(r) => staging[r] \subseteq Node

TInv == TypeOK /\ Shaped

LEMMA SentSendable ==
    ASSUME sent \in Payloads, NEW r \in Receivers
    PROVE  /\ sent[r] \in Sendable
           /\ sent[r].kind \in Kinds /\ sent[r].name \in Names
           /\ sent[r].entries \in Seq(ArchiveEntry)
           /\ Len(sent[r].entries) \in Nat
           /\ sent[r].kind = "binary" => Len(sent[r].entries) = 1
  <1>1. /\ sent \in [Receivers -> Sendable]
        /\ sent[r].kind = "binary" => Len(sent[r].entries) = 1
    BY PayloadAssumption
  <1>2. sent[r] \in Sendable BY <1>1
  <1>3. /\ sent[r].kind \in Kinds /\ sent[r].name \in Names
        /\ sent[r].entries \in Seq(ArchiveEntry)
    BY <1>2 DEF Sendable
  <1>4. Len(sent[r].entries) \in Nat BY <1>3
  <1> QED BY <1>1, <1>2, <1>3, <1>4

LEMMA EntryTyped ==
    ASSUME sent \in Payloads, NEW r \in Receivers, NEW i \in 1 .. Len(sent[r].entries)
    PROVE  /\ sent[r].entries[i].path \in Seq(STRING)
           /\ sent[r].entries[i].type \in Types
           /\ sent[r].entries[i].size \in Nat
  <1>1. sent[r].entries[i] \in ArchiveEntry BY SentSendable
  <1> QED BY <1>1 DEF ArchiveEntry

\* The weights of what an injection sends.
LEMMA SentWeighs ==
    ASSUME sent \in Payloads, NEW r \in Receivers
    PROVE  LET s == sent[r].entries IN
           /\ W(s, 0) = 0 /\ Weight(s) = W(s, Len(s))
           /\ \A k \in 1 .. Len(s) : W(s, k) = W(s, k - 1) + Header(s[k])
           /\ \A k \in 0 .. Len(s) : W(s, k) \in Nat
           /\ \A k, m \in 0 .. Len(s) : k <= m => W(s, k) + (m - k) <= W(s, m)
  <1>1. PICK s : s = sent[r].entries OBVIOUS
  <1>2. s \in Seq(ArchiveEntry) BY <1>1, SentSendable
  <1>3. \A e \in ArchiveEntry : e.size \in Nat BY DEF ArchiveEntry
  <1>4. /\ W(s, 0) = 0 /\ Weight(s) = W(s, Len(s))
        /\ \A k \in 1 .. Len(s) : W(s, k) = W(s, k - 1) + Header(s[k])
        /\ \A k \in 0 .. Len(s) : W(s, k) \in Nat
        /\ \A k, m \in 0 .. Len(s) : k <= m => W(s, k) + (m - k) <= W(s, m)
    BY <1>2, <1>3, WeightsAdd
  <1> QED BY <1>1, <1>4

LEMMA BytesNatural ==
    ASSUME sent \in Payloads, NEW r \in Receivers
    PROVE  /\ Bytes(sent[r]) \in Nat
           /\ sent[r].kind = "tar" => Bytes(sent[r]) = W(sent[r].entries, Len(sent[r].entries))
           /\ sent[r].kind = "binary" => Bytes(sent[r]) = sent[r].entries[1].size
  <1>1. CASE sent[r].kind = "binary"
    <2>3. Len(sent[r].entries) = 1 BY <1>1, SentSendable
    <2>1. 1 \in 1 .. Len(sent[r].entries) BY <2>3
    <2>2. sent[r].entries[1].size \in Nat BY <2>1, EntryTyped
    <2> QED BY <1>1, <2>2 DEF Bytes
  <1>2. CASE sent[r].kind # "binary"
    <2>1. Bytes(sent[r]) = Weight(sent[r].entries) BY <1>2 DEF Bytes, Weight
    <2>2. Len(sent[r].entries) \in 0 .. Len(sent[r].entries) BY SentSendable
    <2> QED BY <1>2, <2>1, <2>2, SentWeighs
  <1> QED BY <1>1, <1>2

LEMMA ConsumedIsWeight ==
    ASSUME NEW r \in Receivers
    PROVE  Consumed(r) = W(sent[r].entries, entry[r])
  BY DEF Consumed, Before, W, Weight

LEMMA MinOfTwo ==
    ASSUME NEW a \in Nat, NEW b \in Nat
    PROVE  Min({a, b}) = IF a <= b THEN a ELSE b
  <1> DEFINE m == IF a <= b THEN a ELSE b
  <1>1. m \in {a, b} /\ \A y \in {a, b} : m =< y OBVIOUS
  <1>2. \A x \in {a, b} : (\A y \in {a, b} : x =< y) => x = m OBVIOUS
  <1> HIDE DEF m
  <1>3. Min({a, b}) = m BY <1>1, <1>2 DEF Min
  <1> QED BY <1>3 DEF m

LEMMA ReadableIs ==
    ASSUME TInv, NEW r \in Receivers
    PROVE  /\ Readable(r) = IF flow[r] <= MaxBytes + 1 THEN flow[r] ELSE MaxBytes + 1
           /\ Readable(r) \in Nat /\ Readable(r) <= flow[r]
  <1>1. flow[r] \in Nat /\ MaxBytes + 1 \in Nat /\ MaxBytes \in Nat
    BY PayloadAssumption DEF TInv, Shaped
  <1>2. Readable(r) = IF flow[r] <= MaxBytes + 1 THEN flow[r] ELSE MaxBytes + 1
    BY <1>1, MinOfTwo DEF Readable
  <1> QED BY <1>1, <1>2

LEMMA CreatedNodes ==
    ASSUME NEW e, e.path \in Seq(STRING)
    PROVE  Created(e) \subseteq Node
  <1>1. ASSUME NEW n \in 1 .. Len(e.path)
        PROVE  [path |-> SubSeq(e.path, 1, n), dir |-> n < Len(e.path) \/ e.type = "dir"] \in Node
    <2>1. SubSeq(e.path, 1, n) \in Seq(STRING) OBVIOUS
    <2>2. (n < Len(e.path) \/ e.type = "dir") \in BOOLEAN OBVIOUS
    <2> QED BY <2>1, <2>2, Zenon DEF Node
  <1> QED BY <1>1 DEF Created

LEMMA ToldType ==
    ASSUME TInv, NEW r \in Receivers, NEW answer \in {"stored", "refused"}, Told(r, answer)
    PROVE  host' \in [Receivers -> {"sending", "gone", "stored", "refused"}]
  BY DEF TInv, TypeOK, Told

LEMMA UpcomingIs ==
    ASSUME TInv, NEW r \in Receivers, entry[r] < Len(sent[r].entries)
    PROVE  /\ entry[r] \in Nat /\ entry[r] + 1 \in 1 .. Len(sent[r].entries)
           /\ Upcoming(r) = sent[r].entries[entry[r] + 1]
           /\ Upcoming(r).path \in Seq(STRING) /\ Upcoming(r).type \in Types
           /\ Upcoming(r).size \in Nat
  <1>1. sent \in Payloads /\ entry[r] \in Nat BY DEF TInv, Shaped
  <1>2. entry[r] + 1 \in 1 .. Len(sent[r].entries) BY <1>1, SentSendable
  <1> QED BY <1>1, <1>2, EntryTyped DEF Upcoming

LEMMA BinaryNode ==
    ASSUME TInv, NEW r \in Receivers
    PROVE  [path |-> <<sent[r].name>>, dir |-> FALSE] \in Node
  <1>1. sent[r].name \in STRING BY SentSendable, PayloadAssumption DEF TInv, Shaped
  <1>2. <<sent[r].name>> \in Seq(STRING) BY <1>1
  <1> QED BY <1>2, Zenon DEF Node

\* What is left of a staging directory is nodes, and nothing of an empty one once
\* the payload is complete.
LEMMA LeftoversAre ==
    ASSUME TInv, NEW r \in Receivers, Working(r), NEW left \in Leftovers(r)
    PROVE  /\ left \subseteq Node
           /\ at[r] # "staging" /\ staging[r] = {} => left = {}
  <1>1. left \subseteq staging[r] \cup InHand(r) BY DEF Leftovers
  <1>2. staging[r] \subseteq Node BY DEF TInv, Shaped
  <1>3. InHand(r) \subseteq Node
    <2>1. CASE entry[r] < Len(sent[r].entries)
      <3>1. Created(Upcoming(r)) \subseteq Node BY <2>1, UpcomingIs, CreatedNodes
      <3> QED BY <3>1, BinaryNode DEF InHand
    <2>2. CASE ~(entry[r] < Len(sent[r].entries))
      BY <2>2, BinaryNode DEF InHand
    <2> QED BY <2>1, <2>2
  <1>4. at[r] # "staging" => InHand(r) = {} BY DEF InHand
  <1> QED BY <1>1, <1>2, <1>3, <1>4

\* Where a refusal leaves the receiver and its staging directory.
Leaves(r, where, there, left) ==
    /\ there \in {where, "littered"}
    /\ at' = [at EXCEPT ![r] = there]
    /\ staging' = [staging EXCEPT ![r] = left]
    /\ there = "littered" \/ left = Nothing
    /\ left = Nothing \/ left \subseteq Node
    /\ at[r] # "staging" /\ staging[r] = {} => left \in {Nothing, {}}

LEMMA RejectsWhere ==
    ASSUME TInv, NEW r \in Receivers, Working(r), NEW where, Rejects(r, where)
    PROVE  \E there, left : Leaves(r, where, there, left)
  <1>1. CASE /\ at' = [at EXCEPT ![r] = where]
             /\ staging' = [staging EXCEPT ![r] = Nothing]
    <2>1. Leaves(r, where, where, Nothing) BY <1>1 DEF Leaves
    <2> QED BY <2>1
  <1>2. CASE /\ at' = [at EXCEPT ![r] = "littered"]
             /\ \E left \in Leftovers(r) : staging' = [staging EXCEPT ![r] = left]
    <2>1. PICK left \in Leftovers(r) : staging' = [staging EXCEPT ![r] = left] BY <1>2
    <2>2. Leaves(r, where, "littered", left) BY <1>2, <2>1, LeftoversAre DEF Leaves
    <2> QED BY <2>2
  <1> QED BY <1>1, <1>2 DEF Rejects

LEMMA RejectsType ==
    ASSUME TInv, NEW r \in Receivers, NEW where \in {"rejected", "broken"}, Working(r),
           Rejects(r, where)
    PROVE  TInv'
  <1>1. host' \in [Receivers -> {"sending", "gone", "stored", "refused"}]
    BY ToldType DEF Rejects
  <1>2. PICK there, left :
           /\ there \in {where, "littered"}
           /\ at' = [at EXCEPT ![r] = there]
           /\ staging' = [staging EXCEPT ![r] = left]
           /\ left = Nothing \/ left \subseteq Node
    BY RejectsWhere DEF Leaves
  <1>3. UNCHANGED <<sent, flow, entry, declared, payload>> BY DEF Rejects
  <1>4. TypeOK' BY <1>1, <1>2, <1>3 DEF TInv, TypeOK, Shaped
  <1>5. \A q \in Receivers : Working(q)' => q # r /\ Working(q)
    BY <1>2 DEF TInv, TypeOK, Working
  <1>6. Shaped' BY <1>2, <1>3, <1>5 DEF TInv, TypeOK, Shaped
  <1> QED BY <1>4, <1>6 DEF TInv

LEMMA TInvBegin ==
    ASSUME TInv, NEW r \in Receivers, Begin(r)
    PROVE  TInv'
  <1>1. TypeOK' BY DEF TInv, TypeOK, Shaped, Begin, Working
  <1>2. Shaped' BY DEF TInv, TypeOK, Shaped, Begin, Working
  <1> QED BY <1>1, <1>2 DEF TInv

LEMMA TInvBinary ==
    ASSUME TInv, NEW r \in Receivers, ReceiveBinary(r)
    PROVE  TInv'
  <1>0. Working(r) BY DEF ReceiveBinary, Working
  <1>1. CASE Rejects(r, "rejected") BY <1>0, <1>1, RejectsType
  <1>2. CASE ~Rejects(r, "rejected")
    <2>1. /\ ~OverLimit(r)
          /\ staging' = [staging EXCEPT ![r] = {[path |-> <<sent[r].name>>, dir |-> FALSE]}]
          /\ declared' = [declared EXCEPT ![r] = Readable(r)]
          /\ at' = [at EXCEPT ![r] = "staged"]
          /\ UNCHANGED <<sent, flow, host, entry, payload>>
      BY <1>2, Zenon DEF ReceiveBinary
    <2>2. Readable(r) \in Nat /\ Readable(r) <= MaxBytes
      BY <2>1, ReadableIs, PayloadAssumption DEF OverLimit
    <2>3. [path |-> <<sent[r].name>>, dir |-> FALSE] \in Node BY BinaryNode
    <2> DEFINE S == {[path |-> <<sent[r].name>>, dir |-> FALSE]}
    <2>4. S \subseteq Node BY <2>3
    <2>5. staging' = [staging EXCEPT ![r] = S] BY <2>1
    <2> HIDE DEF S
    <2>6. TypeOK'
      <3>1. \A q \in Receivers : declared'[q] <= MaxBytes BY <2>1, <2>2 DEF TInv, TypeOK, Shaped
      <3>2. \A q \in Receivers : staging'[q] # Nothing => staging'[q] \subseteq Node
        BY <2>4, <2>5 DEF TInv, TypeOK, Shaped
      <3> QED BY <2>1, <3>1, <3>2 DEF TInv, TypeOK
    <2>7. Shaped'
      <3>1. \A q \in Receivers : Working(q)' => q = r \/ Working(q)
        BY <2>1 DEF TInv, TypeOK, Working
      <3>2. \A q \in Receivers : Working(q)' => staging'[q] \subseteq Node
        BY <2>4, <2>5, <3>1 DEF TInv, Shaped
      <3> QED BY <2>1, <2>2, <3>2 DEF TInv, Shaped
    <2> QED BY <2>6, <2>7 DEF TInv
  <1> QED BY <1>1, <1>2

LEMMA TInvEntry ==
    ASSUME TInv, NEW r \in Receivers, ReceiveEntry(r)
    PROVE  TInv'
  <1>0. Working(r) BY DEF ReceiveEntry, Working
  <1>1. CASE Rejects(r, "rejected") BY <1>0, <1>1, RejectsType
  <1>2. CASE ~Rejects(r, "rejected")
    <2>1. PICK e : e = Upcoming(r) OBVIOUS
    <2>2. /\ entry[r] < Len(sent[r].entries) /\ ~RefusedHeader(r, e)
          /\ staging' = [staging EXCEPT ![r] = @ \cup Created(e)]
          /\ declared' = [declared EXCEPT ![r] = @ + (IF e.type = "file" THEN e.size ELSE 0)]
          /\ entry' = [entry EXCEPT ![r] = @ + 1]
          /\ UNCHANGED <<sent, flow, host, at, payload>>
          /\ at[r] = "staging"
      BY <1>2, <2>1, Zenon DEF ReceiveEntry
    <2>3. sent \in Payloads /\ entry[r] \in Nat /\ declared[r] \in Nat /\ declared[r] <= MaxBytes
      BY DEF TInv, Shaped, TypeOK
    <2>4. entry[r] + 1 \in 1 .. Len(sent[r].entries) BY <2>2, <2>3, SentSendable
    <2>5. e.path \in Seq(STRING) /\ e.type \in Types /\ e.size \in Nat
      BY <2>1, <2>3, <2>4, EntryTyped DEF Upcoming
    <2> DEFINE more == IF e.type = "file" THEN e.size ELSE 0
    <2>6. more \in Nat BY <2>5
    <2>7. declared[r] + more <= MaxBytes
      <3>1. e.type = "file" => ~(declared[r] + e.size > MaxBytes)
        BY <2>2 DEF RefusedHeader, IsRoot
      <3>2. MaxBytes \in Nat BY PayloadAssumption
      <3> QED BY <2>3, <2>5, <3>1, <3>2
    <2>8. declared' = [declared EXCEPT ![r] = @ + more] BY <2>2
    <2> HIDE DEF more
    <2>9. TypeOK'
      <3>1. \A q \in Receivers : declared'[q] <= MaxBytes
        BY <2>7, <2>8 DEF TInv, TypeOK, Shaped
      <3>2. \A q \in Receivers : staging'[q] # Nothing => staging'[q] \subseteq Node
        <4>1. staging[r] \cup Created(e) \subseteq Node
          BY <1>0, <2>5, CreatedNodes DEF TInv, Shaped
        <4> QED BY <2>2, <4>1 DEF TInv, TypeOK, Shaped
      <3>3. \A q \in Receivers : entry'[q] \in 0 .. Len(sent'[q].entries)
        BY <2>2, <2>3, <2>4 DEF TInv, TypeOK, Shaped
      <3> QED BY <2>2, <3>1, <3>2, <3>3 DEF TInv, TypeOK
    <2>10. Shaped'
      <3>1. \A q \in Receivers : Working(q)' => staging'[q] \subseteq Node
        <4>1. staging[r] \cup Created(e) \subseteq Node
          BY <1>0, <2>5, CreatedNodes DEF TInv, Shaped
        <4> QED BY <2>2, <4>1 DEF TInv, Shaped, Working
      <3> QED BY <2>2, <2>3, <2>6, <2>8, <3>1 DEF TInv, Shaped
    <2> QED BY <2>9, <2>10 DEF TInv
  <1> QED BY <1>1, <1>2

LEMMA TInvEndArchive ==
    ASSUME TInv, NEW r \in Receivers, EndArchive(r)
    PROVE  TInv'
  <1>0. Working(r) BY DEF EndArchive, Working
  <1>1. CASE Rejects(r, "rejected") BY <1>0, <1>1, RejectsType
  <1>2. CASE ~Rejects(r, "rejected")
    <2>1. /\ at' = [at EXCEPT ![r] = "staged"]
          /\ UNCHANGED <<sent, flow, host, entry, declared, staging, payload>>
      BY <1>2, Zenon DEF EndArchive
    <2>2. TypeOK' BY <2>1 DEF TInv, TypeOK
    <2>3. \A q \in Receivers : Working(q)' => Working(q)
      BY <1>0, <2>1 DEF TInv, TypeOK, Working
    <2>4. Shaped' BY <2>1, <2>3 DEF TInv, TypeOK, Shaped
    <2> QED BY <2>2, <2>4 DEF TInv
  <1> QED BY <1>1, <1>2

LEMMA TInvInstall ==
    ASSUME TInv, NEW r \in Receivers, Install(r)
    PROVE  TInv'
  <1>0. Working(r) BY DEF Install, Working
  <1>1. CASE Rejects(r, "rejected") BY <1>0, <1>1, RejectsType
  <1>2. CASE ~Rejects(r, "rejected")
    <2>1. /\ payload' = [payload EXCEPT ![sent[r].name] = Installed(r)]
          /\ UNCHANGED <<sent, flow, entry, declared>>
      BY <1>2, Zenon DEF Install
    <2>2. PICK where \in {"done", "tidying"}, left \in {Nothing, {}} :
             /\ at' = [at EXCEPT ![r] = where]
             /\ staging' = [staging EXCEPT ![r] = left]
             /\ where = "tidying" => left = {}
             /\ Told(r, "stored") \/ UNCHANGED host
      BY <1>2, Zenon DEF Install
    <2>3. host' \in [Receivers -> {"sending", "gone", "stored", "refused"}]
      BY <2>2, ToldType DEF TInv, TypeOK
    <2>4. \A n \in Names : payload'[n] # Nothing => payload'[n].from \in Receivers
      BY <2>1 DEF TInv, TypeOK, Shaped, Installed
    <2>5. \A q \in Receivers : staging'[q] # Nothing => staging'[q] \subseteq Node
      BY <2>2 DEF TInv, TypeOK, Shaped
    <2>6. TypeOK' BY <2>1, <2>2, <2>3, <2>4, <2>5 DEF TInv, TypeOK
    <2>7. \A q \in Receivers : Working(q)' => staging'[q] \subseteq Node
      <3>1. \A q \in Receivers : Working(q)' => Working(q)
        BY <1>0, <2>2 DEF TInv, TypeOK, Working
      <3> QED BY <2>2, <3>1 DEF TInv, TypeOK, Shaped, Working
    <2>8. Shaped' BY <2>1, <2>2, <2>7 DEF TInv, TypeOK, Shaped
    <2> QED BY <2>6, <2>8 DEF TInv
  <1> QED BY <1>1, <1>2

LEMMA TInvTidy ==
    ASSUME TInv, NEW r \in Receivers, Tidy(r)
    PROVE  TInv'
  <1>1. host' \in [Receivers -> {"sending", "gone", "stored", "refused"}]
    BY ToldType DEF Tidy
  <1>2. TypeOK' BY <1>1 DEF TInv, TypeOK, Shaped, Tidy
  <1>3. Shaped' BY DEF TInv, TypeOK, Shaped, Tidy, Working
  <1> QED BY <1>2, <1>3 DEF TInv

LEMMA TInvFileSystemFails ==
    ASSUME TInv, NEW r \in Receivers, FileSystemFails(r)
    PROVE  TInv'
  <1>1. CASE Working(r) /\ Rejects(r, "broken") BY <1>1, RejectsType
  <1>2. CASE ~(Working(r) /\ Rejects(r, "broken"))
    <2>1. /\ at' = [at EXCEPT ![r] = "broken"]
          /\ staging' = [staging EXCEPT ![r] = {}]
          /\ Told(r, "refused")
          /\ UNCHANGED <<sent, flow, entry, declared, payload>>
      BY <1>2, Zenon DEF FileSystemFails
    <2>2. host' \in [Receivers -> {"sending", "gone", "stored", "refused"}]
      BY <2>1, ToldType
    <2>3. TypeOK' BY <2>1, <2>2 DEF TInv, TypeOK, Shaped
    <2>4. Shaped' BY <2>1 DEF TInv, TypeOK, Shaped, Working
    <2> QED BY <2>3, <2>4 DEF TInv
  <1> QED BY <1>1, <1>2

LEMMA TInvReceiverDies ==
    ASSUME TInv, NEW r \in Receivers, ReceiverDies(r)
    PROVE  TInv'
  <1>1. host' \in [Receivers -> {"sending", "gone", "stored", "refused"}]
    BY ToldType DEF ReceiverDies
  <1>2. PICK left \in Leftovers(r) : staging' = [staging EXCEPT ![r] = left]
    BY DEF ReceiverDies
  <1>3. left \subseteq Node BY LeftoversAre DEF ReceiverDies
  <1>4. TypeOK' BY <1>1, <1>2, <1>3 DEF TInv, TypeOK, Shaped, ReceiverDies
  <1>5. Shaped' BY <1>2, <1>3 DEF TInv, TypeOK, Shaped, ReceiverDies, Working
  <1> QED BY <1>4, <1>5 DEF TInv

LEMMA TInvHostStops ==
    ASSUME TInv, NEW r \in Receivers, HostStops(r)
    PROVE  TInv'
  <1>1. sent \in Payloads /\ entry[r] \in 0 .. Len(sent[r].entries) /\ flow[r] \in Nat
    BY DEF TInv, TypeOK, Shaped
  <1>2. Consumed(r) \in Nat BY <1>1, ConsumedIsWeight, SentWeighs
  <1> DEFINE least == IF sent[r].kind = "tar" THEN Consumed(r) ELSE 0
  <1>3. least \in Nat BY <1>2
  <1>4. PICK n \in least .. flow[r] : flow' = [flow EXCEPT ![r] = n] BY DEF HostStops
  <1> HIDE DEF least
  <1>5. n \in Nat /\ n <= flow[r] BY <1>1, <1>3, <1>4
  <1>6. \A q \in Receivers : flow'[q] \in 0 .. Bytes(sent[q])
    BY <1>1, <1>4, <1>5, BytesNatural DEF TInv, TypeOK, Shaped
  <1>7. TypeOK' BY <1>6 DEF TInv, TypeOK, HostStops
  <1>8. Shaped' BY <1>4, <1>5 DEF TInv, Shaped, HostStops, Working
  <1> QED BY <1>7, <1>8 DEF TInv

\* What is sent, read, staged and shown keeps its type; beyond the types, an
\* archive is never read past its end, nor its files declared past the limit.
THEOREM PayloadTypes == Spec => []TInv
  <1>1. ASSUME Init PROVE TInv
    <2>1. sent \in Payloads BY <1>1 DEF Init
    <2>2. \A r \in Receivers : sent[r].kind \in Kinds /\ sent[r].name \in Names
                                 /\ Len(sent[r].entries) \in Nat /\ Bytes(sent[r]) \in Nat
      BY <2>1, SentSendable, BytesNatural
    <2>3. MaxBytes \in Nat BY PayloadAssumption
    <2>4. TypeOK BY <1>1, <2>2, <2>3 DEF Init, TypeOK
    <2>5. Shaped BY <1>1, <2>1, <2>2 DEF Init, Shaped, Working
    <2> QED BY <2>4, <2>5 DEF TInv
  <1>2. TInv /\ [Next]_vars => TInv'
    <2> SUFFICES ASSUME TInv, [Next]_vars PROVE TInv' OBVIOUS
    <2>1. CASE UNCHANGED vars BY <2>1 DEF vars, TInv, TypeOK, Shaped, Working
    <2>2. ASSUME NEW r \in Receivers,
                 \/ Begin(r) \/ ReceiveBinary(r) \/ ReceiveEntry(r) \/ EndArchive(r)
                 \/ Install(r) \/ Tidy(r)
                 \/ FileSystemFails(r) \/ ReceiverDies(r) \/ HostStops(r)
          PROVE  TInv'
      BY <2>2, TInvBegin, TInvBinary, TInvEntry, TInvEndArchive, TInvInstall, TInvTidy,
         TInvFileSystemFails, TInvReceiverDies, TInvHostStops
    <2> QED BY <2>1, <2>2 DEF Next
  <1> QED BY <1>1, <1>2, PTL DEF Spec

-----------------------------------------------------------------------------
(***************************************************************************)
(* The staging directories.                                                *)
(***************************************************************************)
\* Who holds a staging directory, and who is told that its payload is stored.
TidyAt(r) ==
    /\ staging[r] # Nothing =>
          \/ Working(r) \/ at[r] \in {"killed", "littered"}
          \/ at[r] = "broken" /\ staging[r] = {}
    /\ host[r] = "stored" => at[r] = "done" /\ staging[r] = Nothing

TidyInv == \A r \in Receivers : TidyAt(r)

LEMMA ToldOne ==
    ASSUME TInv, NEW r \in Receivers, NEW answer, Told(r, answer)
    PROVE  /\ \A q \in Receivers \ {r} : host'[q] = host[q]
           /\ host'[r] \in {host[r], answer}
  BY DEF TInv, TypeOK, Told

\* A step of one receiver, with what it leaves of its staging directory and what its
\* host is told.
LEMMA StepTidies ==
    ASSUME TInv, TidyInv, NEW r \in Receivers, at[r] # "done", NEW where, NEW left,
           at' = [at EXCEPT ![r] = where],
           staging' = [staging EXCEPT ![r] = left],
           \/ left = Nothing
           \/ where \in {"staging", "staged", "tidying", "killed", "littered"}
           \/ where = "broken" /\ left = {},
           \/ UNCHANGED host
           \/ Told(r, "refused")
           \/ Told(r, "stored") /\ where = "done" /\ left = Nothing
    PROVE  TidyInv'
  <1>1. /\ \A q \in Receivers \ {r} : host'[q] = host[q]
        /\ \/ host'[r] \in {host[r], "refused"}
           \/ host'[r] = "stored" /\ where = "done" /\ left = Nothing
    <2>1. CASE UNCHANGED host BY <2>1
    <2>2. CASE Told(r, "refused") BY <2>2, ToldOne
    <2>3. CASE Told(r, "stored") /\ where = "done" /\ left = Nothing
      BY <2>3, ToldOne
    <2> QED BY <2>1, <2>2, <2>3
  <1>2. at'[r] = where /\ staging'[r] = left BY DEF TInv, TypeOK, Shaped
  <1>3. \A q \in Receivers \ {r} : at'[q] = at[q] /\ staging'[q] = staging[q]
    BY DEF TInv, TypeOK, Shaped
  <1>4. host[r] # "stored" BY DEF TidyInv, TidyAt
  <1>5. TidyAt(r)' BY <1>1, <1>2, <1>4 DEF TidyAt, Working
  <1>6. ASSUME NEW q \in Receivers \ {r} PROVE TidyAt(q)'
    <2>1. TidyAt(q) BY DEF TidyInv
    <2> QED BY <1>1, <1>3, <2>1 DEF TidyAt, Working
  <1> QED BY <1>5, <1>6 DEF TidyInv

LEMMA RejectsTidies ==
    ASSUME TInv, TidyInv, NEW r \in Receivers, NEW where \in {"rejected", "broken"}, Working(r),
           Rejects(r, where)
    PROVE  TidyInv'
  <1>1. PICK there, left :
           /\ there \in {where, "littered"}
           /\ at' = [at EXCEPT ![r] = there]
           /\ staging' = [staging EXCEPT ![r] = left]
           /\ there = "littered" \/ left = Nothing
    BY RejectsWhere DEF Leaves
  <1>2. Told(r, "refused") BY DEF Rejects
  <1>3. at[r] # "done" BY DEF Working
  <1> QED BY <1>1, <1>2, <1>3, StepTidies

LEMMA StagingTidied == Spec => []TidyInv
  <1>1. Init => TidyInv BY DEF Init, TidyInv, TidyAt, Working
  <1>2. TInv /\ TidyInv /\ [Next]_vars => TidyInv'
    <2> SUFFICES ASSUME TInv, TidyInv, [Next]_vars PROVE TidyInv' OBVIOUS
    <2>1. CASE UNCHANGED vars BY <2>1 DEF vars, TidyInv, TidyAt, Working
    <2>2. ASSUME NEW r \in Receivers, Begin(r) PROVE TidyInv'
      BY <2>2, StepTidies DEF Begin
    <2>3. ASSUME NEW r \in Receivers, ReceiveBinary(r) PROVE TidyInv'
      <3>0. Working(r) /\ at[r] # "done" BY <2>3 DEF ReceiveBinary, Working
      <3>1. CASE Rejects(r, "rejected") BY <3>0, <3>1, RejectsTidies
      <3>2. CASE ~Rejects(r, "rejected")
        <4>1. /\ at' = [at EXCEPT ![r] = "staged"] /\ UNCHANGED host
              /\ \E left : staging' = [staging EXCEPT ![r] = left]
          BY <2>3, <3>2, Zenon DEF ReceiveBinary
        <4> QED BY <3>0, <4>1, StepTidies
      <3> QED BY <3>1, <3>2
    <2>4. ASSUME NEW r \in Receivers, ReceiveEntry(r) PROVE TidyInv'
      <3>0. Working(r) /\ at[r] # "done" BY <2>4 DEF ReceiveEntry, Working
      <3>1. CASE Rejects(r, "rejected") BY <3>0, <3>1, RejectsTidies
      <3>2. CASE ~Rejects(r, "rejected")
        <4>1. /\ at[r] = "staging" /\ at' = at /\ UNCHANGED host
              /\ \E left : staging' = [staging EXCEPT ![r] = left]
          BY <2>4, <3>2, Zenon DEF ReceiveEntry
        <4>2. at' = [at EXCEPT ![r] = "staging"] BY <4>1 DEF TInv, TypeOK
        <4> QED BY <3>0, <4>1, <4>2, StepTidies
      <3> QED BY <3>1, <3>2
    <2>5. ASSUME NEW r \in Receivers, EndArchive(r) PROVE TidyInv'
      <3>0. Working(r) /\ at[r] # "done" BY <2>5 DEF EndArchive, Working
      <3>1. CASE Rejects(r, "rejected") BY <3>0, <3>1, RejectsTidies
      <3>2. CASE ~Rejects(r, "rejected")
        <4>1. at' = [at EXCEPT ![r] = "staged"] /\ UNCHANGED <<host, staging>>
          BY <2>5, <3>2, Zenon DEF EndArchive
        <4> QED BY <3>0, <4>1 DEF TInv, TypeOK, TidyInv, TidyAt, Working
      <3> QED BY <3>1, <3>2
    <2>6. ASSUME NEW r \in Receivers, Install(r) PROVE TidyInv'
      <3>0. Working(r) /\ at[r] # "done" BY <2>6 DEF Install, Working
      <3>1. CASE Rejects(r, "rejected") BY <3>0, <3>1, RejectsTidies
      <3>2. CASE ~Rejects(r, "rejected")
        <4>1. \/ /\ at' = [at EXCEPT ![r] = "done"]
                 /\ staging' = [staging EXCEPT ![r] = Nothing] /\ Told(r, "stored")
              \/ /\ at' = [at EXCEPT ![r] = "tidying"]
                 /\ staging' = [staging EXCEPT ![r] = {}] /\ UNCHANGED host
          BY <2>6, <3>2, Zenon DEF Install
        <4> QED BY <3>0, <4>1, StepTidies
      <3> QED BY <3>1, <3>2
    <2>7. ASSUME NEW r \in Receivers, Tidy(r) PROVE TidyInv'
      BY <2>7, StepTidies DEF Tidy
    <2>8. ASSUME NEW r \in Receivers, FileSystemFails(r) PROVE TidyInv'
      <3>1. CASE Working(r) /\ Rejects(r, "broken") BY <3>1, RejectsTidies
      <3>2. CASE ~(Working(r) /\ Rejects(r, "broken"))
        <4>1. /\ at' = [at EXCEPT ![r] = "broken"] /\ staging' = [staging EXCEPT ![r] = {}]
              /\ Told(r, "refused") /\ at[r] \in {"new", "tidying"}
          BY <2>8, <3>2, Zenon DEF FileSystemFails
        <4>2. at[r] # "done" BY <4>1
        <4> QED BY <4>1, <4>2, StepTidies
      <3> QED BY <3>1, <3>2
    <2>9. ASSUME NEW r \in Receivers, ReceiverDies(r) PROVE TidyInv'
      <3>1. /\ at' = [at EXCEPT ![r] = "killed"] /\ Told(r, "refused")
            /\ \E left : staging' = [staging EXCEPT ![r] = left]
        BY <2>9 DEF ReceiverDies
      <3>2. at[r] # "done" BY <2>9 DEF ReceiverDies, Working
      <3> QED BY <3>1, <3>2, StepTidies
    <2>10. ASSUME NEW r \in Receivers, HostStops(r) PROVE TidyInv'
      <3>1. host' = [host EXCEPT ![r] = "gone"] /\ UNCHANGED <<at, staging>>
        BY <2>10 DEF HostStops
      <3> QED BY <3>1 DEF TInv, TypeOK, TidyInv, TidyAt, Working
    <2> QED BY <2>1, <2>2, <2>3, <2>4, <2>5, <2>6, <2>7, <2>8, <2>9, <2>10 DEF Next
  <1> QED BY <1>1, <1>2, PayloadTypes, PTL DEF Spec

-----------------------------------------------------------------------------
(***************************************************************************)
(* What is staged, what is shown, what is refused.                         *)
(***************************************************************************)
\* Its host has not stopped sending.
Heard(r) == host[r] # "gone"

\* What the first k entries of an archive create.
Grown(s, k) == UNION {Created(s[i]) : i \in 1 .. k}

\* A receiver reads all of what a host that does not stop sends, and what it has
\* staged is what it has read describes.
WholeAt(r) ==
    /\ Heard(r) => flow[r] = Bytes(sent[r])
    /\ at[r] = "new" => entry[r] = 0
    /\ sent[r].kind = "tar" /\ at[r] \in {"staging", "staged"}
          => staging[r] = Grown(sent[r].entries, entry[r])
    /\ sent[r].kind = "tar" /\ at[r] = "staged" /\ Heard(r) => entry[r] = Len(sent[r].entries)
    /\ sent[r].kind = "binary" /\ at[r] = "staged"
          => staging[r] = {[path |-> <<sent[r].name>>, dir |-> FALSE]}
    /\ sent[r].kind = "binary" /\ at[r] = "staged" /\ Heard(r) => declared[r] = Bytes(sent[r])

\* Two entries that may be of one archive.
Compatible(e, f, distinct) ==
    /\ e.type = "file" \/ e.type = "dir"
    /\ e.path = << >> => e.type = "dir"
    /\ distinct /\ e.path = f.path => e.path = << >>
    /\ e.type = "file" => ~IsStrictPrefix(e.path, f.path)

CompatibleTo(s, k) == \A i, j \in 1 .. k : Compatible(s[i], s[j], i # j)

\* The entries read so far are within the limits and compatible with each other.
CheckedAt(r) ==
    /\ entry[r] <= MaxFiles
    /\ sent[r].kind = "tar" => declared[r] <= W(sent[r].entries, entry[r])
    /\ CompatibleTo(sent[r].entries, entry[r])

\* What StagesExactlyTheAcceptable says of one receiver.
JudgedAt(r) ==
    Heard(r) =>
        /\ at[r] \in {"staged", "tidying", "done"} => Acceptable(sent[r])
        /\ at[r] = "rejected" =>
              ~Acceptable(sent[r]) \/ ~Renames(r)

\* Where a receiver is that has installed its payload: nothing is left to stage.
Past == {"tidying", "done", "broken", "littered", "killed"}
Spent(r) ==
    /\ at[r] \in Past
    /\ staging[r] \in {Nothing, {}}
    /\ at[r] = "tidying" => staging[r] = {}

\* What VisibleIsWhole says of one name; who installed it has nothing left to
\* stage, and sent it under that name.
ShownAt(n) ==
    payload[n] # Nothing =>
        LET p == payload[n] IN
        /\ sent[p.from].name = n
        /\ Spent(p.from)
        /\ Heard(p.from) => p.tree = Described(sent[p.from])
        /\ Heard(p.from) /\ p.kind = "binary" => p.size = Bytes(sent[p.from])

PInv ==
    /\ \A r \in Receivers : WholeAt(r) /\ CheckedAt(r) /\ JudgedAt(r)
    /\ \A n \in Names : ShownAt(n)

-----------------------------------------------------------------------------
LEMMA AcceptableIs ==
    ASSUME sent \in Payloads, NEW r \in Receivers
    PROVE  LET s == sent[r].entries IN
           Acceptable(sent[r]) <=>
               /\ Bytes(sent[r]) <= MaxBytes
               /\ sent[r].kind = "tar" => Len(s) <= MaxFiles /\ CompatibleTo(s, Len(s))
  <1>1. PICK s : s = sent[r].entries OBVIOUS
  <1>2. DOMAIN s = 1 .. Len(s) BY <1>1, SentSendable
  <1>3. CompatibleTo(s, Len(s)) <=>
            \A i, j \in DOMAIN s :
                LET e == s[i]  f == s[j] IN
                /\ e.type = "file" \/ e.type = "dir"
                /\ e.path = << >> => e.type = "dir"
                /\ i # j /\ e.path = f.path => e.path = << >>
                /\ e.type = "file" => ~IsStrictPrefix(e.path, f.path)
    BY <1>2, Zenon DEF CompatibleTo, Compatible
  <1> QED BY <1>1, <1>3 DEF Acceptable

\* A receiver that a step does not touch; its host may have stopped.
Same(r) ==
    /\ flow'[r] = flow[r] /\ at'[r] = at[r] /\ entry'[r] = entry[r]
    /\ declared'[r] = declared[r] /\ staging'[r] = staging[r]
    /\ host[r] = "gone" => host'[r] = "gone"

LEMMA SameKeeps ==
    ASSUME PInv, NEW r \in Receivers, sent' = sent, Same(r),
           payload' = payload \/ (Renames(r)' => Renames(r))
    PROVE  WholeAt(r)' /\ CheckedAt(r)' /\ JudgedAt(r)'
  <1>1. WholeAt(r) /\ CheckedAt(r) /\ JudgedAt(r) BY DEF PInv
  <1>2. WholeAt(r)' BY <1>1 DEF WholeAt, Same, Heard
  <1>3. CheckedAt(r)' BY <1>1 DEF CheckedAt, Same
  <1>4. Renames(r)' => Renames(r) BY DEF Renames, Holds
  <1>5. JudgedAt(r)' BY <1>1, <1>4 DEF JudgedAt, Same, Heard
  <1> QED BY <1>2, <1>3, <1>5

\* A name that a step does not touch.
LEMMA ShownKeeps ==
    ASSUME TInv, PInv, NEW n \in Names, sent' = sent, payload'[n] = payload[n],
           \A r \in Receivers : host[r] = "gone" => host'[r] = "gone",
           \A r \in Receivers : Spent(r) => Spent(r)'
    PROVE  ShownAt(n)'
  <1>1. ShownAt(n) BY DEF PInv
  <1>2. payload[n] # Nothing => payload[n].from \in Receivers BY DEF TInv, TypeOK
  <1> QED BY <1>1, <1>2 DEF ShownAt, Heard

LEMMA ToldKeepsGone ==
    ASSUME TInv, NEW r \in Receivers, NEW answer, Told(r, answer), NEW q \in Receivers
    PROVE  host[q] = "gone" => host'[q] = "gone"
  BY DEF TInv, TypeOK, Told

\* A refusal is justified, and nothing but the refused receiver changes.
LEMMA RejectsKeeps ==
    ASSUME TInv, PInv, NEW r \in Receivers, NEW where \in {"rejected", "broken"}, Working(r),
           Rejects(r, where),
           where = "rejected" => at[r] \in {"staging", "staged"},
           where = "rejected" /\ Heard(r) => ~Acceptable(sent[r]) \/ ~Renames(r)
    PROVE  PInv'
  <1>1. PICK there, left :
           /\ there \in {where, "littered"}
           /\ at' = [at EXCEPT ![r] = there]
           /\ staging' = [staging EXCEPT ![r] = left]
           /\ at[r] # "staging" /\ staging[r] = {} => left \in {Nothing, {}}
    BY RejectsWhere DEF Leaves
  <1>2. UNCHANGED <<sent, flow, entry, declared, payload>> BY DEF Rejects
  <1>3. \A q \in Receivers : host[q] = "gone" => host'[q] = "gone"
    BY ToldKeepsGone DEF Rejects
  <1>4. ASSUME NEW q \in Receivers, q # r PROVE WholeAt(q)' /\ CheckedAt(q)' /\ JudgedAt(q)'
    <2>1. Same(q) BY <1>1, <1>2, <1>3, <1>4 DEF Same
    <2> QED BY <1>2, <2>1, SameKeeps
  <1>5. at'[r] = there /\ staging'[r] = left BY <1>1 DEF TInv, TypeOK, Shaped
  <1>6. WholeAt(r) /\ CheckedAt(r) BY DEF PInv
  <1>7. WholeAt(r)'
    <2>1. there \notin {"new", "staging", "staged"} BY <1>1
    <2> QED BY <1>2, <1>3, <1>5, <1>6, <2>1 DEF WholeAt, Heard
  <1>8. CheckedAt(r)' BY <1>2, <1>6 DEF CheckedAt
  <1>9. JudgedAt(r)'
    <2>1. Renames(r)' => Renames(r) BY <1>2 DEF Renames, Holds
    <2>2. Heard(r)' => Heard(r) BY <1>2, <1>3 DEF Heard
    <2>3. at'[r] \in {"rejected", "broken", "littered"} /\ (at'[r] = "rejected" => where = "rejected")
      BY <1>1, <1>5
    <2>4. (Acceptable(sent[r]))' <=> Acceptable(sent[r]) BY <1>2
    <2> QED BY <2>1, <2>2, <2>3, <2>4 DEF JudgedAt
  <1>10. ASSUME NEW q \in Receivers, Spent(q) PROVE Spent(q)'
    <2>1. CASE q = r BY <1>1, <1>5, <1>10, <2>1 DEF Spent, Past, Working
    <2>2. CASE q # r BY <1>1, <1>10, <2>2 DEF Spent, Past, TInv, TypeOK, Shaped
    <2> QED BY <2>1, <2>2
  <1>11. ASSUME NEW n \in Names PROVE ShownAt(n)' BY <1>2, <1>3, <1>10, ShownKeeps
  <1> QED BY <1>4, <1>7, <1>8, <1>9, <1>11 DEF PInv

\* A receiver that has not installed anything is not spent by the step of one that
\* is at work.
LEMMA SpentStays ==
    ASSUME TInv, NEW r \in Receivers, at[r] \in {"new", "staging", "staged"},
           \A q \in Receivers \ {r} : at'[q] = at[q] /\ staging'[q] = staging[q]
    PROVE  \A q \in Receivers : Spent(q) => Spent(q)'
  BY DEF Spent, Past

-----------------------------------------------------------------------------
LEMMA PInvInit ==
    ASSUME Init
    PROVE  PInv
  <1>1. sent \in Payloads BY DEF Init
  <1>2. ASSUME NEW r \in Receivers PROVE WholeAt(r) /\ CheckedAt(r) /\ JudgedAt(r)
    <2>1. /\ flow[r] = Bytes(sent[r]) /\ at[r] = "new" /\ entry[r] = 0 /\ declared[r] = 0
      BY <1>2 DEF Init
    <2>2. WholeAt(r) BY <2>1 DEF WholeAt
    <2>3. W(sent[r].entries, 0) = 0 BY <1>1, SentWeighs
    <2>4. MaxFiles \in Nat BY PayloadAssumption
    <2>5. CompatibleTo(sent[r].entries, 0) BY DEF CompatibleTo
    <2>6. CheckedAt(r) BY <2>1, <2>3, <2>4, <2>5 DEF CheckedAt
    <2>7. JudgedAt(r) BY <2>1 DEF JudgedAt
    <2> QED BY <2>2, <2>6, <2>7
  <1>3. \A n \in Names : ShownAt(n) BY DEF Init, ShownAt
  <1> QED BY <1>2, <1>3 DEF PInv

LEMMA PInvBegin ==
    ASSUME TInv, PInv, NEW r \in Receivers, Begin(r)
    PROVE  PInv'
  <1>1. /\ at[r] = "new" /\ at' = [at EXCEPT ![r] = "staging"]
        /\ staging' = [staging EXCEPT ![r] = {}]
        /\ UNCHANGED <<sent, flow, host, entry, declared, payload>>
    BY DEF Begin
  <1>2. ASSUME NEW q \in Receivers, q # r PROVE WholeAt(q)' /\ CheckedAt(q)' /\ JudgedAt(q)'
    <2>1. Same(q) BY <1>1, <1>2 DEF Same
    <2> QED BY <1>1, <2>1, SameKeeps
  <1>3. at'[r] = "staging" /\ staging'[r] = {} BY <1>1 DEF TInv, TypeOK, Shaped
  <1>4. WholeAt(r) /\ CheckedAt(r) BY DEF PInv
  <1>5. WholeAt(r)'
    <2>1. entry[r] = 0 BY <1>1, <1>4 DEF WholeAt
    <2>2. Grown(sent[r].entries, 0) = {} BY DEF Grown
    <2> QED BY <1>1, <1>3, <1>4, <2>1, <2>2 DEF WholeAt, Heard
  <1>6. CheckedAt(r)' BY <1>1, <1>4 DEF CheckedAt
  <1>7. JudgedAt(r)' BY <1>3 DEF JudgedAt
  <1>8. ASSUME NEW n \in Names PROVE ShownAt(n)'
    <2>1. \A q \in Receivers : Spent(q) => Spent(q)'
      BY <1>1, SpentStays DEF TInv, TypeOK, Shaped
    <2> QED BY <1>1, <2>1, ShownKeeps
  <1> QED BY <1>2, <1>5, <1>6, <1>7, <1>8 DEF PInv

\* Beyond the limit, by the bytes of the stream.
LEMMA TooLong ==
    ASSUME TInv, PInv, NEW r \in Receivers, OverLimit(r), Heard(r)
    PROVE  ~Acceptable(sent[r])
  <1>1. flow[r] = Bytes(sent[r]) /\ sent \in Payloads
    BY DEF PInv, WholeAt, TInv, Shaped
  <1>2. Bytes(sent[r]) \in Nat BY <1>1, BytesNatural
  <1>3. MaxBytes \in Nat BY PayloadAssumption
  <1>4. Readable(r) \in Nat /\ Readable(r) <= flow[r] BY ReadableIs
  <1>5. ~(Bytes(sent[r]) <= MaxBytes) BY <1>1, <1>2, <1>3, <1>4 DEF OverLimit
  <1> QED BY <1>1, <1>5, AcceptableIs

\* Within the limit, what can be read is the whole stream.
LEMMA WithinLimit ==
    ASSUME TInv, NEW r \in Receivers, ~OverLimit(r)
    PROVE  Readable(r) = flow[r] /\ flow[r] <= MaxBytes
  <1>1. MaxBytes \in Nat /\ flow[r] \in Nat BY PayloadAssumption DEF TInv, Shaped
  <1>2. Readable(r) = IF flow[r] <= MaxBytes + 1 THEN flow[r] ELSE MaxBytes + 1 BY ReadableIs
  <1> QED BY <1>1, <1>2 DEF OverLimit

LEMMA PInvBinary ==
    ASSUME TInv, PInv, NEW r \in Receivers, ReceiveBinary(r)
    PROVE  PInv'
  <1>1. CASE OverLimit(r)
    <2>1. Rejects(r, "rejected") /\ at[r] = "staging" BY <1>1, Zenon DEF ReceiveBinary
    <2>2. Heard(r) => ~Acceptable(sent[r]) BY <1>1, TooLong
    <2> QED BY <2>1, <2>2, RejectsKeeps DEF Working
  <1>2. CASE ~OverLimit(r)
    <2> DEFINE S == {[path |-> <<sent[r].name>>, dir |-> FALSE]}
    <2>1. /\ sent[r].kind = "binary" /\ at[r] = "staging"
          /\ staging' = [staging EXCEPT ![r] = S]
          /\ declared' = [declared EXCEPT ![r] = Readable(r)]
          /\ at' = [at EXCEPT ![r] = "staged"]
          /\ UNCHANGED <<sent, flow, host, entry, payload>>
      BY <1>2, Zenon DEF ReceiveBinary
    <2>2. S = {[path |-> <<sent[r].name>>, dir |-> FALSE]} OBVIOUS
    <2> HIDE DEF S
    <2>3. ASSUME NEW q \in Receivers, q # r PROVE WholeAt(q)' /\ CheckedAt(q)' /\ JudgedAt(q)'
      <3>1. Same(q) BY <2>1, <2>3 DEF Same
      <3> QED BY <2>1, <3>1, SameKeeps
    <2>4. at'[r] = "staged" /\ staging'[r] = S /\ declared'[r] = Readable(r)
      BY <2>1 DEF TInv, TypeOK, Shaped
    <2>5. Readable(r) = flow[r] /\ flow[r] <= MaxBytes BY <1>2, WithinLimit
    <2>6. WholeAt(r) /\ CheckedAt(r) BY DEF PInv
    <2>7. WholeAt(r)' BY <2>1, <2>2, <2>4, <2>5, <2>6 DEF WholeAt, Heard
    <2>8. CheckedAt(r)' BY <2>1, <2>6 DEF CheckedAt
    <2>9. JudgedAt(r)'
      <3>1. Heard(r) => Acceptable(sent[r])
        <4>1. sent \in Payloads BY DEF TInv, Shaped
        <4>2. Heard(r) => Bytes(sent[r]) <= MaxBytes BY <2>5, <2>6 DEF WholeAt
        <4>3. sent[r].kind # "tar" BY <2>1
        <4> QED BY <4>1, <4>2, <4>3, AcceptableIs
      <3> QED BY <2>1, <2>4, <3>1 DEF JudgedAt, Heard
    <2>10. ASSUME NEW n \in Names PROVE ShownAt(n)'
      <3>1. \A q \in Receivers : Spent(q) => Spent(q)'
        BY <2>1, SpentStays DEF TInv, TypeOK, Shaped
      <3> QED BY <2>1, <3>1, ShownKeeps
    <2> QED BY <2>3, <2>7, <2>8, <2>9, <2>10 DEF PInv
  <1> QED BY <1>1, <1>2

LEMMA PrefixOfNothing ==
    ASSUME NEW p \in Seq(STRING), NEW q
    PROVE  ~IsStrictPrefix(p, << >>) /\ ~IsStrictPrefix(q, q)
  BY DEF IsStrictPrefix, IsPrefix

LEMMA BeforeIs ==
    ASSUME TInv, NEW r \in Receivers, NEW i \in 1 .. entry[r]
    PROVE  /\ Before(r)[i] = sent[r].entries[i]
           /\ sent[r].entries[i].path \in Seq(STRING) /\ sent[r].entries[i].type \in Types
  <1>1. sent \in Payloads /\ entry[r] \in 0 .. Len(sent[r].entries) /\ entry[r] \in Nat
    BY DEF TInv, TypeOK, Shaped
  <1>2. sent[r].entries \in Seq(ArchiveEntry) /\ Len(sent[r].entries) \in Nat
    BY <1>1, SentSendable
  <1>3. i \in 1 .. Len(sent[r].entries) BY <1>1, <1>2
  <1>4. Before(r)[i] = sent[r].entries[i] BY <1>1, <1>2, <1>3 DEF Before
  <1> QED BY <1>1, <1>3, <1>4, EntryTyped

\* No acceptable archive has an entry that is refused where it stands.
LEMMA RefusedIsUnacceptable ==
    ASSUME TInv, PInv, NEW r \in Receivers, Heard(r), sent[r].kind = "tar",
           entry[r] < Len(sent[r].entries),
           RefusedHeader(r, Upcoming(r)) \/ ~BodyArrives(r)
    PROVE  ~Acceptable(sent[r])
  <1> DEFINE s == sent[r].entries
             k == entry[r]
             e == Upcoming(r)
  <1>1. sent \in Payloads /\ k \in Nat /\ k + 1 \in 1 .. Len(s) /\ e = s[k + 1]
    BY UpcomingIs DEF TInv, Shaped
  <1>2. e.path \in Seq(STRING) /\ e.type \in Types /\ e.size \in Nat BY UpcomingIs
  <1>3. Len(s) \in Nat BY <1>1, SentSendable
  <1>4. flow[r] = Bytes(sent[r]) /\ declared[r] <= W(s, k) /\ declared[r] \in Nat
    BY DEF PInv, WholeAt, CheckedAt, TInv, Shaped
  <1>5. Bytes(sent[r]) = W(s, Len(s)) BY <1>1, BytesNatural
  <1>6. k \in 0 .. Len(s) /\ k + 1 \in 0 .. Len(s) /\ Len(s) \in 0 .. Len(s) /\ (k + 1) - 1 = k
    BY <1>1, <1>3
  <1>7. W(s, k) \in Nat /\ W(s, k + 1) \in Nat /\ W(s, Len(s)) \in Nat
    BY <1>1, <1>6, SentWeighs
  <1>8. W(s, k + 1) = W(s, k) + Header(e)
    <2>1. W(s, k + 1) = W(s, (k + 1) - 1) + Header(s[k + 1]) BY <1>1, SentWeighs
    <2> QED BY <1>1, <1>6, <2>1
  <1>9. W(s, k + 1) <= W(s, Len(s))
    <2>1. \A a, b \in 0 .. Len(s) : a <= b => W(s, a) + (b - a) <= W(s, b)
      BY <1>1, SentWeighs
    <2>2. k + 1 <= Len(s) BY <1>1, <1>3
    <2>3. W(s, k + 1) + (Len(s) - (k + 1)) <= W(s, Len(s))
      <3> HIDE DEF s, k
      <3> QED BY <1>6, <2>1, <2>2
    <2> QED BY <1>1, <1>3, <1>7, <2>3
  <1>10. SUFFICES ASSUME Acceptable(sent[r]) PROVE FALSE OBVIOUS
  <1>11. Bytes(sent[r]) <= MaxBytes /\ Len(s) <= MaxFiles /\ CompatibleTo(s, Len(s))
    BY <1>1, <1>10, AcceptableIs
  <1>12. MaxBytes \in Nat /\ MaxFiles \in Nat BY PayloadAssumption
  <1>13. BodyArrives(r)
    <2>1. Readable(r) = flow[r]
      <3>1. Readable(r) = IF flow[r] <= MaxBytes + 1 THEN flow[r] ELSE MaxBytes + 1
        BY ReadableIs
      <3> QED BY <1>4, <1>5, <1>7, <1>11, <1>12, <3>1
    <2>2. Consumed(r) = W(s, k) BY ConsumedIsWeight
    <2>3. Header(e) \in Nat BY <1>2, HeaderCounts
    <2> QED BY <1>4, <1>5, <1>7, <1>8, <1>9, <2>1, <2>2, <2>3 DEF BodyArrives
  <1>14. ~RefusedHeader(r, e)
    <2>1. \A i \in 1 .. k : Compatible(s[i], e, TRUE) /\ Compatible(e, s[i], TRUE)
      <3>1. ASSUME NEW i \in 1 .. k PROVE Compatible(s[i], e, TRUE) /\ Compatible(e, s[i], TRUE)
        <4>1. i \in 1 .. Len(s) /\ (i # k + 1) = TRUE /\ (k + 1 # i) = TRUE BY <1>1, <1>3
        <4>2. Compatible(s[i], s[k + 1], i # k + 1) /\ Compatible(s[k + 1], s[i], k + 1 # i)
          BY <1>1, <1>11, <4>1 DEF CompatibleTo
        <4> QED BY <1>1, <4>1, <4>2
      <3> QED BY <3>1
    <2>2. (e.type = "file" \/ e.type = "dir") /\ (e.path = << >> => e.type = "dir")
      BY <1>1, <1>11 DEF CompatibleTo, Compatible
    <2>3. ~(k + 1 > MaxFiles) BY <1>1, <1>3, <1>11, <1>12
    <2>4. e.type = "file" => ~(declared[r] + e.size > MaxBytes)
      <3>1. e.type = "file" => Header(e) = 1 + e.size BY DEF Header
      <3> QED BY <1>2, <1>4, <1>5, <1>7, <1>8, <1>9, <1>11, <1>12, <3>1
    <2>5. ~Conflicts(r, e)
      <3>1. \A i \in 1 .. k : Before(r)[i] = s[i] BY BeforeIs
      <3> HIDE DEF s, k, e
      <3> QED BY <2>1, <2>2, <3>1 DEF Conflicts, Compatible, k
    <2> HIDE DEF e, s
    <2> QED BY <2>2, <2>3, <2>4, <2>5 DEF RefusedHeader, IsRoot, k
  <1> QED BY <1>13, <1>14

\* An entry that is taken fits the ones before it.
LEMMA TakenIsCompatible ==
    ASSUME TInv, PInv, NEW r \in Receivers, entry[r] < Len(sent[r].entries),
           ~RefusedHeader(r, Upcoming(r))
    PROVE  CompatibleTo(sent[r].entries, entry[r] + 1)
  <1> DEFINE s == sent[r].entries
             k == entry[r]
             e == Upcoming(r)
  <1>1. k \in Nat /\ k + 1 \in 1 .. Len(s) /\ e = s[k + 1] BY UpcomingIs
  <1>2. e.path \in Seq(STRING) /\ e.type \in Types BY UpcomingIs
  <1>3. CompatibleTo(s, k) BY DEF PInv, CheckedAt
  <1>4. \/ e.path = << >> /\ e.type = "dir"
        \/ e.path # << >> /\ e.type # "other" /\ ~Conflicts(r, e)
    BY DEF RefusedHeader, IsRoot
  <1>5. e.type = "file" \/ e.type = "dir" BY <1>2, <1>4 DEF Types
  <1>6. Compatible(e, e, FALSE)
    <2>1. ~IsStrictPrefix(e.path, e.path) BY <1>2, PrefixOfNothing
    <2> HIDE DEF e
    <2> QED BY <1>4, <1>5, <2>1 DEF Compatible
  <1>7. ASSUME NEW i \in 1 .. k PROVE Compatible(s[i], e, TRUE) /\ Compatible(e, s[i], TRUE)
    <2>1. PICK f : f = s[i] OBVIOUS
    <2>2. f = Before(r)[i] /\ f.path \in Seq(STRING) /\ f.type \in Types
      BY <2>1, BeforeIs
    <2>3. Compatible(f, f, FALSE)
      <3>1. (i # i) = FALSE OBVIOUS
      <3>2. Compatible(s[i], s[i], i # i) BY <1>3 DEF CompatibleTo
      <3> QED BY <2>1, <3>1, <3>2
    <2>4. (f.type = "file" \/ f.type = "dir") /\ (f.path = << >> => f.type = "dir")
      BY <2>3 DEF Compatible
    <2>5. ~Conflicts(r, e) => ~( /\ f.path # << >>
                                 /\ \/ f.path = e.path
                                    \/ f.type = "file" /\ IsStrictPrefix(f.path, e.path)
                                    \/ e.type = "file" /\ IsStrictPrefix(e.path, f.path) )
      BY <2>2 DEF Conflicts
    <2>6. ~IsStrictPrefix(f.path, << >>) /\ ~IsStrictPrefix(e.path, << >>)
      BY <1>2, <2>2, PrefixOfNothing
    <2> HIDE DEF e, s, k
    <2>7. Compatible(f, e, TRUE) BY <1>4, <1>5, <2>4, <2>5, <2>6 DEF Compatible
    <2>8. Compatible(e, f, TRUE) BY <1>4, <1>5, <2>4, <2>5, <2>6 DEF Compatible
    <2> QED BY <2>1, <2>7, <2>8
  <1>8. ASSUME NEW i \in 1 .. k + 1, NEW j \in 1 .. k + 1
        PROVE  Compatible(s[i], s[j], i # j)
    <2>1. CASE i = k + 1 /\ j = k + 1
      <3>1. (i # j) = FALSE BY <2>1
      <3> QED BY <1>1, <1>6, <2>1, <3>1
    <2>2. CASE i = k + 1 /\ j # k + 1
      <3>1. (i # j) = TRUE /\ j \in 1 .. k BY <1>1, <2>2
      <3> QED BY <1>1, <1>7, <2>2, <3>1
    <2>3. CASE i # k + 1 /\ j = k + 1
      <3>1. (i # j) = TRUE /\ i \in 1 .. k BY <1>1, <2>3
      <3> QED BY <1>1, <1>7, <2>3, <3>1
    <2>4. CASE i # k + 1 /\ j # k + 1
      <3>1. i \in 1 .. k /\ j \in 1 .. k BY <1>1, <2>4
      <3> QED BY <1>3, <3>1 DEF CompatibleTo
    <2> QED BY <2>1, <2>2, <2>3, <2>4
  <1> QED BY <1>8 DEF CompatibleTo

LEMMA GrownByOne ==
    ASSUME NEW s, NEW k \in Nat
    PROVE  Grown(s, k + 1) = Grown(s, k) \cup Created(s[k + 1])
  <1>1. 1 .. k + 1 = (1 .. k) \cup {k + 1} OBVIOUS
  <1> QED BY <1>1 DEF Grown

LEMMA PInvEntry ==
    ASSUME TInv, PInv, NEW r \in Receivers, ReceiveEntry(r)
    PROVE  PInv'
  <1>1. /\ at[r] = "staging" /\ sent[r].kind = "tar" /\ entry[r] < Len(sent[r].entries)
    BY DEF ReceiveEntry
  <1>2. CASE RefusedHeader(r, Upcoming(r)) \/ ~BodyArrives(r)
    <2>1. Rejects(r, "rejected") BY <1>2, Zenon DEF ReceiveEntry
    <2>2. Heard(r) => ~Acceptable(sent[r]) BY <1>1, <1>2, RefusedIsUnacceptable
    <2> QED BY <1>1, <2>1, <2>2, RejectsKeeps DEF Working
  <1>3. CASE ~(RefusedHeader(r, Upcoming(r)) \/ ~BodyArrives(r))
    <2>1. PICK e : e = Upcoming(r) OBVIOUS
    <2> DEFINE more == IF e.type = "file" THEN e.size ELSE 0
    <2>2. /\ staging' = [staging EXCEPT ![r] = @ \cup Created(e)]
          /\ declared' = [declared EXCEPT ![r] = @ + more]
          /\ entry' = [entry EXCEPT ![r] = @ + 1]
          /\ UNCHANGED <<sent, flow, host, at, payload>>
      BY <1>3, <2>1, Zenon DEF ReceiveEntry
    <2>3. ASSUME NEW q \in Receivers, q # r PROVE WholeAt(q)' /\ CheckedAt(q)' /\ JudgedAt(q)'
      <3>1. Same(q) BY <2>2, <2>3 DEF Same
      <3> QED BY <2>2, <3>1, SameKeeps
    <2>4. more \in Nat /\ more <= Header(e) /\ Header(e) \in Nat
      <3>1. e.size \in Nat BY <1>1, <2>1, UpcomingIs
      <3> QED BY <3>1 DEF Header
    <2> HIDE DEF more
    <2>5. entry[r] \in Nat /\ entry[r] + 1 \in 1 .. Len(sent[r].entries)
            /\ e = sent[r].entries[entry[r] + 1]
      BY <1>1, <2>1, UpcomingIs
    <2>6. /\ staging'[r] = staging[r] \cup Created(e)
          /\ declared'[r] = declared[r] + more
          /\ entry'[r] = entry[r] + 1
      BY <2>2 DEF TInv, Shaped
    <2>7. WholeAt(r) /\ CheckedAt(r) /\ JudgedAt(r) BY DEF PInv
    <2>8. WholeAt(r)'
      <3>1. staging[r] = Grown(sent[r].entries, entry[r]) BY <1>1, <2>7 DEF WholeAt
      <3>2. staging'[r] = Grown(sent[r].entries, entry[r] + 1)
        BY <2>5, <2>6, <3>1, GrownByOne
      <3> QED BY <1>1, <2>2, <2>6, <2>7, <3>2 DEF WholeAt, Heard
    <2>9. CheckedAt(r)'
      <3>1. entry[r] + 1 <= MaxFiles
        <4>1. ~(entry[r] + 1 > MaxFiles) BY <1>3 DEF RefusedHeader
        <4> QED BY <2>5, <4>1, PayloadAssumption
      <3>2. declared[r] + more <= W(sent[r].entries, entry[r] + 1)
        <4> DEFINE s == sent[r].entries
                   k == entry[r]
        <4>1. sent \in Payloads /\ declared[r] \in Nat /\ declared[r] <= W(s, k)
          BY <1>1, <2>7 DEF CheckedAt, TInv, Shaped
        <4>2. (k + 1) - 1 = k /\ k \in 0 .. Len(s) BY <2>5, <4>1, SentSendable
        <4>3. W(s, k + 1) = W(s, (k + 1) - 1) + Header(s[k + 1]) BY <2>5, <4>1, SentWeighs
        <4>4. W(s, k) \in Nat BY <4>1, <4>2, SentWeighs
        <4> HIDE DEF s, k
        <4>5. W(s, k + 1) = W(s, k) + Header(e) BY <2>5, <4>2, <4>3 DEF s, k
        <4>6. declared[r] + more <= W(s, k + 1) BY <2>4, <4>1, <4>4, <4>5
        <4> QED BY <4>6 DEF s, k
      <3>3. CompatibleTo(sent[r].entries, entry[r] + 1) BY <1>1, <1>3, TakenIsCompatible
      <3> QED BY <2>2, <2>6, <3>1, <3>2, <3>3 DEF CheckedAt
    <2>10. JudgedAt(r)' BY <1>1, <2>2 DEF JudgedAt
    <2>11. ASSUME NEW n \in Names PROVE ShownAt(n)'
      <3>1. \A q \in Receivers : Spent(q) => Spent(q)'
        BY <1>1, <2>2, SpentStays DEF TInv, TypeOK, Shaped
      <3> QED BY <2>2, <3>1, ShownKeeps
    <2> QED BY <2>3, <2>8, <2>9, <2>10, <2>11 DEF PInv
  <1> QED BY <1>2, <1>3

\* An archive that is read to the end of a stream within the limit is complete.
LEMMA EndIsTheEnd ==
    ASSUME TInv, PInv, NEW r \in Receivers, sent[r].kind = "tar", Heard(r),
           entry[r] = Len(sent[r].entries) \/ ~HeaderArrives(r), ~OverLimit(r)
    PROVE  /\ entry[r] = Len(sent[r].entries)
           /\ Acceptable(sent[r])
  <1> DEFINE s == sent[r].entries
             k == entry[r]
  <1>1. sent \in Payloads /\ k \in 0 .. Len(s) /\ k \in Nat /\ flow[r] \in Nat
    BY DEF TInv, TypeOK, Shaped
  <1>2. Len(s) \in Nat /\ Len(s) \in 0 .. Len(s) BY <1>1, SentSendable
  <1>3. flow[r] = Bytes(sent[r]) /\ k <= MaxFiles /\ CompatibleTo(s, k)
    BY DEF PInv, WholeAt, CheckedAt
  <1>4. Bytes(sent[r]) = W(s, Len(s)) BY <1>1, BytesNatural
  <1>5. Readable(r) = flow[r] /\ flow[r] <= MaxBytes BY WithinLimit
  <1>6. k = Len(s)
    <2>1. SUFFICES ASSUME k # Len(s) PROVE FALSE OBVIOUS
    <2>2. ~(Readable(r) > W(s, k)) BY <2>1, ConsumedIsWeight DEF HeaderArrives
    <2>3. W(s, k) \in Nat /\ W(s, Len(s)) \in Nat BY <1>1, <1>2, SentWeighs
    <2>4. \A a, b \in 0 .. Len(s) : a <= b => W(s, a) + (b - a) <= W(s, b)
      BY <1>1, SentWeighs
    <2>5. k <= Len(s) /\ Len(s) - k \in Nat \ {0} BY <1>1, <1>2, <2>1
    <2> HIDE DEF s, k
    <2>6. W(s, k) + (Len(s) - k) <= W(s, Len(s)) BY <1>1, <1>2, <2>4, <2>5
    <2> QED BY <1>3, <1>4, <1>5, <2>2, <2>3, <2>5, <2>6
  <1>7. Acceptable(sent[r]) BY <1>1, <1>3, <1>5, <1>6, AcceptableIs
  <1> QED BY <1>6, <1>7

LEMMA PInvEndArchive ==
    ASSUME TInv, PInv, NEW r \in Receivers, EndArchive(r)
    PROVE  PInv'
  <1>1. at[r] = "staging" /\ sent[r].kind = "tar"
          /\ (entry[r] = Len(sent[r].entries) \/ ~HeaderArrives(r))
    BY DEF EndArchive
  <1>2. CASE OverLimit(r)
    <2>1. Rejects(r, "rejected") BY <1>2, Zenon DEF EndArchive
    <2>2. Heard(r) => ~Acceptable(sent[r]) BY <1>2, TooLong
    <2> QED BY <1>1, <2>1, <2>2, RejectsKeeps DEF Working
  <1>3. CASE ~OverLimit(r)
    <2>1. /\ at' = [at EXCEPT ![r] = "staged"]
          /\ UNCHANGED <<sent, flow, host, entry, declared, staging, payload>>
      BY <1>3, Zenon DEF EndArchive
    <2>2. ASSUME NEW q \in Receivers, q # r PROVE WholeAt(q)' /\ CheckedAt(q)' /\ JudgedAt(q)'
      <3>1. Same(q) BY <2>1, <2>2 DEF Same
      <3> QED BY <2>1, <3>1, SameKeeps
    <2>3. at'[r] = "staged" BY <2>1 DEF TInv, TypeOK
    <2>4. WholeAt(r) /\ CheckedAt(r) BY DEF PInv
    <2>5. Heard(r) => entry[r] = Len(sent[r].entries) /\ Acceptable(sent[r])
      BY <1>1, <1>3, EndIsTheEnd
    <2>6. WholeAt(r)' BY <1>1, <2>1, <2>3, <2>4, <2>5 DEF WholeAt, Heard
    <2>7. CheckedAt(r)' BY <2>1, <2>4 DEF CheckedAt
    <2>8. JudgedAt(r)' BY <2>1, <2>3, <2>5 DEF JudgedAt, Heard
    <2>9. ASSUME NEW n \in Names PROVE ShownAt(n)'
      <3>1. \A q \in Receivers : Spent(q) => Spent(q)'
        BY <1>1, <2>1, SpentStays DEF TInv, TypeOK, Shaped
      <3> QED BY <2>1, <3>1, ShownKeeps
    <2> QED BY <2>2, <2>6, <2>7, <2>8, <2>9 DEF PInv
  <1> QED BY <1>2, <1>3

\* What is staged, read to the end, is what was sent.
LEMMA StagedIsDescribed ==
    ASSUME TInv, PInv, NEW r \in Receivers, at[r] = "staged", Heard(r)
    PROVE  /\ staging[r] = Described(sent[r])
           /\ sent[r].kind = "binary" => declared[r] = Bytes(sent[r])
  <1>1. sent \in Payloads /\ WholeAt(r) BY DEF PInv, TInv, Shaped
  <1>2. sent[r].kind = "binary" \/ sent[r].kind = "tar" BY <1>1, SentSendable DEF Kinds
  <1>3. CASE sent[r].kind = "binary" BY <1>1, <1>3 DEF WholeAt, Described
  <1>4. CASE sent[r].kind = "tar"
    <2>1. staging[r] = Grown(sent[r].entries, Len(sent[r].entries)) BY <1>1, <1>4 DEF WholeAt
    <2>2. DOMAIN sent[r].entries = 1 .. Len(sent[r].entries) BY <1>1, SentSendable
    <2> QED BY <1>4, <2>1, <2>2 DEF Described, Grown
  <1> QED BY <1>2, <1>3, <1>4

\* A name that is taken for a receiver stays taken: what replaces a payload is of
\* its kind.
LEMMA TakenStays ==
    ASSUME TInv, NEW o \in Receivers, at[o] = "staged", Renames(o), sent' = sent,
           payload' = [payload EXCEPT ![sent[o].name] = Installed(o)], NEW r \in Receivers
    PROVE  Renames(r)' => Renames(r)
  <1> DEFINE m == sent[o].name
  <1>1. m \in Names /\ sent[o].kind \in Kinds /\ sent[r].name \in Names
    BY SentSendable DEF TInv, Shaped
  <1>2. Installed(o) # Nothing
    <2>1. staging[o] \subseteq Node /\ declared[o] \in 0 .. MaxBytes
      BY PayloadAssumption DEF TInv, TypeOK, Shaped, Working
    <2>2. Installed(o) \in Installable BY <1>1, <2>1 DEF Installed, Installable
    <2> QED BY <2>2, PayloadAssumption
  <1>3. CASE sent[r].name # m
    <2>1. payload'[sent[r].name] = payload[sent[r].name] BY <1>3 DEF TInv, Shaped
    <2> QED BY <2>1 DEF Renames, Holds
  <1>4. CASE sent[r].name = m
    <2>1. payload'[m] = Installed(o) BY <1>1 DEF TInv, Shaped
    <2>2. Installed(o).kind = sent[o].kind BY DEF Installed
    <2>3. PICK p : p = Installed(o) OBVIOUS
    <2> QED BY <1>2, <1>4, <2>1, <2>2, <2>3 DEF Renames, Holds
  <1> QED BY <1>3, <1>4

LEMMA PInvInstall ==
    ASSUME TInv, PInv, NEW r \in Receivers, Install(r)
    PROVE  PInv'
  <1> DEFINE m == sent[r].name
  <1>1. at[r] = "staged" BY DEF Install
  <1>2. sent \in Payloads /\ m \in Names BY SentSendable DEF TInv, Shaped
  <1>3. CASE ~Renames(r)
    <2>1. Rejects(r, "rejected") BY <1>3, Zenon DEF Install
    <2> QED BY <1>1, <1>3, <2>1, RejectsKeeps DEF Working
  <1>4. CASE Renames(r)
    <2>1. /\ payload' = [payload EXCEPT ![m] = Installed(r)]
          /\ UNCHANGED <<sent, flow, entry, declared>>
      BY <1>4, Zenon DEF Install
    <2>2. PICK where \in {"done", "tidying"} :
             /\ at' = [at EXCEPT ![r] = where]
             /\ \E left \in {Nothing, {}} :
                   /\ staging' = [staging EXCEPT ![r] = left]
                   /\ where = "tidying" => left = {}
             /\ Told(r, "stored") \/ UNCHANGED host
      BY <1>4, Zenon DEF Install
    <2>3. \A q \in Receivers : host[q] = "gone" => host'[q] = "gone" BY <2>2, ToldKeepsGone
    <2>4. ASSUME NEW q \in Receivers, q # r PROVE WholeAt(q)' /\ CheckedAt(q)' /\ JudgedAt(q)'
      <3>1. Same(q) BY <2>1, <2>2, <2>3, <2>4 DEF Same
      <3>2. Renames(q)' => Renames(q) BY <1>1, <1>4, <2>1, TakenStays
      <3> QED BY <2>1, <3>1, <3>2, SameKeeps
    <2>5. at'[r] = where BY <2>2 DEF TInv, TypeOK
    <2>6. WholeAt(r) /\ CheckedAt(r) /\ JudgedAt(r) BY DEF PInv
    <2>7. WholeAt(r)' BY <2>1, <2>3, <2>5, <2>6 DEF WholeAt, Heard
    <2>8. CheckedAt(r)' BY <2>1, <2>6 DEF CheckedAt
    <2>9. JudgedAt(r)' BY <1>1, <2>1, <2>3, <2>5, <2>6 DEF JudgedAt, Heard
    <2>10. \A q \in Receivers : Spent(q) => Spent(q)'
      BY <1>1, <2>2, SpentStays DEF TInv, TypeOK, Shaped
    <2>11. ASSUME NEW n \in Names, n # m PROVE ShownAt(n)'
      BY <2>1, <2>3, <2>10, <2>11, ShownKeeps
    <2>12. ASSUME NEW n \in Names, n = m PROVE ShownAt(n)'
      <3>1. payload'[m] = Installed(r) BY <1>2, <2>1 DEF TInv, Shaped
      <3>2. /\ Installed(r).from = r /\ Installed(r).kind = sent[r].kind
            /\ Installed(r).tree = staging[r] /\ Installed(r).size = declared[r]
        BY DEF Installed
      <3>3. PICK p : p = Installed(r) OBVIOUS
      <3>4. Heard(r)' => Heard(r) BY <2>3 DEF Heard
      <3>5. Heard(r) => /\ p.tree = Described(sent[r])
                        /\ p.kind = "binary" => p.size = Bytes(sent[r])
        BY <1>1, <3>2, <3>3, StagedIsDescribed
      <3>6. p.from = r /\ payload'[n] = p /\ sent' = sent BY <2>1, <2>12, <3>1, <3>2, <3>3
      <3>7. Spent(r)' BY <2>2, <2>5 DEF Spent, Past, TInv, Shaped
      <3> QED BY <2>12, <3>4, <3>5, <3>6, <3>7 DEF ShownAt, Heard
    <2> QED BY <2>4, <2>7, <2>8, <2>9, <2>11, <2>12 DEF PInv
  <1> QED BY <1>3, <1>4

\* A receiver that leaves: done, or failed, or killed.
LEMMA LeavesKeeps ==
    ASSUME TInv, PInv, NEW r \in Receivers, NEW where \in {"done", "broken", "killed"}, NEW left,
           at' = [at EXCEPT ![r] = where],
           staging' = [staging EXCEPT ![r] = left],
           where = "done" => at[r] = "tidying",
           Spent(r) => left \in {Nothing, {}},
           \A q \in Receivers : host[q] = "gone" => host'[q] = "gone",
           UNCHANGED <<sent, flow, entry, declared, payload>>
    PROVE  PInv'
  <1>1. ASSUME NEW q \in Receivers, q # r PROVE WholeAt(q)' /\ CheckedAt(q)' /\ JudgedAt(q)'
    <2>1. Same(q) BY <1>1 DEF Same
    <2> QED BY <2>1, SameKeeps
  <1>2. at'[r] = where /\ staging'[r] = left BY DEF TInv, TypeOK, Shaped
  <1>3. WholeAt(r) /\ CheckedAt(r) /\ JudgedAt(r) BY DEF PInv
  <1>4. WholeAt(r)' BY <1>2, <1>3 DEF WholeAt, Heard
  <1>5. CheckedAt(r)' BY <1>3 DEF CheckedAt
  <1>6. JudgedAt(r)' BY <1>2, <1>3 DEF JudgedAt, Heard
  <1>7. ASSUME NEW q \in Receivers, Spent(q) PROVE Spent(q)'
    <2>1. CASE q = r BY <1>2, <1>7, <2>1 DEF Spent, Past
    <2>2. CASE q # r BY <1>7, <2>2 DEF Spent, Past, TInv, TypeOK, Shaped
    <2> QED BY <2>1, <2>2
  <1>8. ASSUME NEW n \in Names PROVE ShownAt(n)' BY <1>7, ShownKeeps
  <1> QED BY <1>1, <1>4, <1>5, <1>6, <1>8 DEF PInv

LEMMA PInvTidy ==
    ASSUME TInv, PInv, NEW r \in Receivers, Tidy(r)
    PROVE  PInv'
  <1>1. /\ at[r] = "tidying" /\ at' = [at EXCEPT ![r] = "done"]
        /\ staging' = [staging EXCEPT ![r] = Nothing] /\ Told(r, "stored")
        /\ UNCHANGED <<sent, flow, entry, declared, payload>>
    BY DEF Tidy
  <1>2. \A q \in Receivers : host[q] = "gone" => host'[q] = "gone" BY <1>1, ToldKeepsGone
  <1> QED BY <1>1, <1>2, LeavesKeeps

LEMMA PInvFileSystemFails ==
    ASSUME TInv, PInv, NEW r \in Receivers, FileSystemFails(r)
    PROVE  PInv'
  <1>1. CASE Working(r) /\ Rejects(r, "broken") BY <1>1, RejectsKeeps
  <1>2. CASE ~(Working(r) /\ Rejects(r, "broken"))
    <2>1. /\ at' = [at EXCEPT ![r] = "broken"]
          /\ staging' = [staging EXCEPT ![r] = {}]
          /\ Told(r, "refused")
          /\ UNCHANGED <<sent, flow, entry, declared, payload>>
      BY <1>2, Zenon DEF FileSystemFails
    <2>2. \A q \in Receivers : host[q] = "gone" => host'[q] = "gone" BY <2>1, ToldKeepsGone
    <2> QED BY <2>1, <2>2, LeavesKeeps
  <1> QED BY <1>1, <1>2

LEMMA PInvReceiverDies ==
    ASSUME TInv, PInv, NEW r \in Receivers, ReceiverDies(r)
    PROVE  PInv'
  <1>1. /\ at' = [at EXCEPT ![r] = "killed"] /\ Told(r, "refused")
        /\ UNCHANGED <<sent, flow, entry, declared, payload>>
    BY DEF ReceiverDies
  <1>2. \A q \in Receivers : host[q] = "gone" => host'[q] = "gone" BY <1>1, ToldKeepsGone
  <1>3. PICK left \in Leftovers(r) : staging' = [staging EXCEPT ![r] = left]
    BY DEF ReceiverDies
  <1>4. Working(r) BY DEF ReceiverDies
  <1>5. Spent(r) => left \in {Nothing, {}} BY <1>4, LeftoversAre DEF Spent, Past, Working
  <1> QED BY <1>1, <1>2, <1>3, <1>5, LeavesKeeps

LEMMA PInvHostStops ==
    ASSUME TInv, PInv, NEW r \in Receivers, HostStops(r)
    PROVE  PInv'
  <1>1. /\ host' = [host EXCEPT ![r] = "gone"]
        /\ \E n : flow' = [flow EXCEPT ![r] = n]
        /\ UNCHANGED <<sent, at, entry, declared, staging, payload>>
    BY DEF HostStops
  <1>2. \A q \in Receivers : host[q] = "gone" => host'[q] = "gone" BY <1>1 DEF TInv, TypeOK
  <1>3. ASSUME NEW q \in Receivers, q # r PROVE WholeAt(q)' /\ CheckedAt(q)' /\ JudgedAt(q)'
    <2>1. Same(q) BY <1>1, <1>2, <1>3 DEF Same
    <2> QED BY <1>1, <2>1, SameKeeps
  <1>4. ~Heard(r)' BY <1>1 DEF TInv, TypeOK, Heard
  <1>5. WholeAt(r) /\ CheckedAt(r) BY DEF PInv
  <1>6. WholeAt(r)' BY <1>1, <1>4, <1>5 DEF WholeAt
  <1>7. CheckedAt(r)' BY <1>1, <1>5 DEF CheckedAt
  <1>8. JudgedAt(r)' BY <1>4 DEF JudgedAt
  <1>9. ASSUME NEW n \in Names PROVE ShownAt(n)'
    <2>1. \A q \in Receivers : Spent(q) => Spent(q)' BY <1>1 DEF Spent, Past
    <2> QED BY <1>1, <1>2, <2>1, ShownKeeps
  <1> QED BY <1>3, <1>6, <1>7, <1>8, <1>9 DEF PInv

LEMMA PayloadsInvariant == Spec => [](TInv /\ PInv)
  <1>1. TInv /\ PInv /\ [Next]_vars => PInv'
    <2> SUFFICES ASSUME TInv, PInv, [Next]_vars PROVE PInv' OBVIOUS
    <2>1. CASE UNCHANGED vars
      <3>1. ASSUME NEW r \in Receivers PROVE WholeAt(r)' /\ CheckedAt(r)' /\ JudgedAt(r)'
        <4>1. Same(r) BY <2>1 DEF vars, Same
        <4> QED BY <2>1, <4>1, SameKeeps DEF vars
      <3>2. ASSUME NEW n \in Names PROVE ShownAt(n)'
        BY <2>1, ShownKeeps DEF vars, Spent, Past
      <3> QED BY <3>1, <3>2 DEF PInv
    <2>2. ASSUME NEW r \in Receivers,
                 \/ Begin(r) \/ ReceiveBinary(r) \/ ReceiveEntry(r) \/ EndArchive(r)
                 \/ Install(r) \/ Tidy(r)
                 \/ FileSystemFails(r) \/ ReceiverDies(r) \/ HostStops(r)
          PROVE  PInv'
      BY <2>2, PInvBegin, PInvBinary, PInvEntry, PInvEndArchive, PInvInstall, PInvTidy,
         PInvFileSystemFails, PInvReceiverDies, PInvHostStops
    <2> QED BY <2>1, <2>2 DEF Next
  <1> QED BY <1>1, PInvInit, PayloadTypes, PTL DEF Spec

\* What may be left of a payload in the staging area, whatever fails, dies or
\* competes: only what a receiver staged that was killed or could not remove it, or an
\* empty directory; nothing once its host was told that it is stored, and never files
\* of a payload that was installed.
THEOREM NothingIsLeft == Spec => []NoStagingIsLeft
  <1>1. TInv /\ PInv /\ TidyInv => NoStagingIsLeft
    <2> SUFFICES ASSUME PInv, TidyInv, NEW r \in Receivers
                 PROVE  /\ TidyAt(r)
                        /\ staging[r] \notin {Nothing, {}} =>
                              \A n \in Names : payload[n] # Nothing => payload[n].from # r
      BY DEF NoStagingIsLeft, TidyAt
    <2> QED BY DEF PInv, ShownAt, Spent, TidyInv
  <1> QED BY <1>1, StagingTidied, PayloadsInvariant, PTL

\* Whatever fails, dies or competes for the name: what the payload directory shows
\* is all of one payload, unless its own host stopped sending.
THEOREM VisibleAreWhole == Spec => []VisibleIsWhole
  <1>1. TInv /\ PInv => VisibleIsWhole
    BY DEF PInv, ShownAt, VisibleIsWhole, Heard
  <1> QED BY <1>1, PayloadsInvariant, PTL

\* For archives of any length and entries in any order: what a receiver accepts
\* entry by entry is acceptable as a whole, and it refuses nothing else, unless the
\* name holds what a rename cannot replace.
THEOREM AcceptableAreStaged == Spec => []StagesExactlyTheAcceptable
  <1>1. TInv /\ PInv => StagesExactlyTheAcceptable
    BY DEF PInv, JudgedAt, StagesExactlyTheAcceptable, Heard
  <1> QED BY <1>1, PayloadsInvariant, PTL

=============================================================================

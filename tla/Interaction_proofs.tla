------------------------- MODULE Interaction_proofs -------------------------
(***************************************************************************)
(* Proofs about the window and input commands: their type invariant, that  *)
(* an operation acts at the revision its user named, that a click, tap or  *)
(* text that succeeds leaves nothing held, and that a text is typed as it  *)
(* was given unless another command meddles with its shift - for any       *)
(* commands, keys, text, bounds and number of faults.                      *)
(***************************************************************************)
EXTENDS Interaction, SequenceTheorems, WellFoundedInduction, TLAPS

(***************************************************************************)
(* Induction over the naturals, from the library's theorem that < is       *)
(* well-founded.                                                           *)
(***************************************************************************)
NatLess == {ss \in Nat \X Nat : ss[1] < ss[2]}

LEMMA Least ==
    ASSUME NEW T, T \subseteq Nat, T # {}
    PROVE  \E x \in T : \A y \in T : x <= y
  <1>1. IsWellFoundedOn(NatLess, Nat)
    BY NatLessThanWellFounded, Zenon DEF OpToRel, NatLess
  <1>2. \E x \in T : \A y \in T : <<y, x>> \notin NatLess
    BY <1>1, WFMin
  <1>3. PICK x \in T : \A y \in T : <<y, x>> \notin NatLess BY <1>2
  <1>4. ASSUME NEW y \in T PROVE x <= y
    <2>1. <<y, x>> \in Nat \X Nat /\ <<y, x>> \notin NatLess BY <1>3
    <2>2. ~(y < x) BY <2>1 DEF NatLess
    <2> QED BY <2>2
  <1> QED BY <1>4

LEMMA Induction ==
    ASSUME NEW S, 0 \in S, \A n \in Nat : n \in S => n + 1 \in S
    PROVE  Nat \subseteq S
  <1> DEFINE T == Nat \ S
  <1>1. SUFFICES ASSUME T # {} PROVE FALSE OBVIOUS
  <1>2. PICK x \in T : \A y \in T : x <= y BY <1>1, Least
  <1>3. x - 1 \in Nat BY <1>2
  <1> QED BY <1>2, <1>3

-----------------------------------------------------------------------------
(***************************************************************************)
(* What FlattenSeq does, for a sequence of any length.                     *)
(***************************************************************************)
LEMMA LengthIsNatural ==
    ASSUME NEW S, NEW s \in Seq(S)
    PROVE  Len(s) \in Nat /\ DOMAIN s = 1 .. Len(s)
  OBVIOUS

LEMMA ConcatenationAt ==
    ASSUME NEW S, NEW s \in Seq(S), NEW t \in Seq(S)
    PROVE  /\ s \o t \in Seq(S)
           /\ Len(s \o t) = Len(s) + Len(t)
           /\ \A j \in 1 .. Len(s) : (s \o t)[j] = s[j]
           /\ \A j \in 1 .. Len(t) : (s \o t)[Len(s) + j] = t[j]
  OBVIOUS

Unfolds(f, s, n) ==
    f = [i \in 1 .. n |-> IF i = 1 THEN s[i] ELSE f[i - 1] \o s[i]]

LEMMA UnfoldingExists ==
    ASSUME NEW s
    PROVE  \A n \in Nat : \E f : Unfolds(f, s, n)
  <1> DEFINE S == {n \in Nat : \E f : Unfolds(f, s, n)}
  <1>1. 0 \in S
    <2>1. Unfolds([i \in 1 .. 0 |-> 0], s, 0) BY DEF Unfolds
    <2> QED BY <2>1
  <1>2. ASSUME NEW n \in Nat, n \in S PROVE n + 1 \in S
    <2>1. PICK f : Unfolds(f, s, n) BY <1>2
    <2> DEFINE g == [i \in 1 .. n + 1 |-> IF i = 1 THEN s[i] ELSE f[i - 1] \o s[i]]
    <2>2. ASSUME NEW i \in 1 .. n PROVE g[i] = f[i]
      <3>1. i \in 1 .. n + 1 OBVIOUS
      <3>2. g[i] = IF i = 1 THEN s[i] ELSE f[i - 1] \o s[i] BY <3>1
      <3>3. f[i] = IF i = 1 THEN s[i] ELSE f[i - 1] \o s[i] BY <2>1 DEF Unfolds
      <3> QED BY <3>2, <3>3
    <2>3. ASSUME NEW i \in 1 .. n + 1, i # 1 PROVE g[i] = g[i - 1] \o s[i]
      <3>1. i - 1 \in 1 .. n BY <2>3
      <3>2. g[i] = f[i - 1] \o s[i] BY <2>3
      <3> QED BY <3>1, <3>2, <2>2
    <2>4. g = [i \in 1 .. n + 1 |-> IF i = 1 THEN s[i] ELSE g[i - 1] \o s[i]]
      <3>1. \A i \in 1 .. n + 1 : i = 1 => g[i] = s[i] OBVIOUS
      <3>2. g = [i \in 1 .. n + 1 |-> g[i]] OBVIOUS
      <3> HIDE DEF g
      <3> QED BY <2>3, <3>1, <3>2
    <2> HIDE DEF g
    <2>5. Unfolds(g, s, n + 1) BY <2>4 DEF Unfolds
    <2> QED BY <2>5
  <1>3. Nat \subseteq S
    <2> HIDE DEF S
    <2> QED BY <1>1, <1>2, Induction
  <1> QED BY <1>3

LEMMA FlattenUnfolds ==
    ASSUME NEW s, Len(s) \in Nat \ {0}
    PROVE  \E f : Unfolds(f, s, Len(s)) /\ FlattenSeq(s) = f[Len(s)]
  <1> DEFINE f == CHOOSE f : Unfolds(f, s, Len(s))
  <1>1. Unfolds(f, s, Len(s)) BY UnfoldingExists
  <1>2. FlattenSeq(s) = f[Len(s)] BY DEF FlattenSeq, Unfolds
  <1> HIDE DEF f
  <1> QED BY <1>1, <1>2

\* What holds of the first part, and of each next one appended, holds of all.
LEMMA FlattenInduction ==
    ASSUME NEW s, Len(s) \in Nat \ {0}, NEW R,
           <<1, s[1]>> \in R,
           \A k \in 1 .. Len(s) - 1 : \A x : <<k, x>> \in R => <<k + 1, x \o s[k + 1]>> \in R
    PROVE  <<Len(s), FlattenSeq(s)>> \in R
  <1> DEFINE n == Len(s)
  <1>1. PICK f : Unfolds(f, s, n) /\ FlattenSeq(s) = f[n] BY FlattenUnfolds
  <1>2. \A i \in 1 .. n : f[i] = IF i = 1 THEN s[i] ELSE f[i - 1] \o s[i]
    BY <1>1 DEF Unfolds
  <1> DEFINE S == {k \in Nat : k \in 1 .. n => <<k, f[k]>> \in R}
  <1>3. n \in Nat \ {0} OBVIOUS
  <1>4. /\ <<1, s[1]>> \in R
        /\ \A k \in 1 .. n - 1 : \A x : <<k, x>> \in R => <<k + 1, x \o s[k + 1]>> \in R
    OBVIOUS
  <1> HIDE DEF n
  <1>5. 0 \in S OBVIOUS
  <1>6. ASSUME NEW k \in Nat, k \in S PROVE k + 1 \in S
    <2> SUFFICES ASSUME k + 1 \in 1 .. n PROVE <<k + 1, f[k + 1]>> \in R OBVIOUS
    <2>1. CASE k = 0
      <3>1. k + 1 = 1 /\ f[1] = s[1] BY <1>2, <1>3, <2>1
      <3> QED BY <1>4, <3>1
    <2>2. CASE k # 0
      <3>1. k \in 1 .. n /\ k \in 1 .. n - 1 /\ k + 1 # 1 /\ (k + 1) - 1 = k BY <1>3, <2>2
      <3>2. f[k + 1] = f[k] \o s[k + 1] BY <1>2, <3>1
      <3>3. <<k, f[k]>> \in R BY <1>6, <3>1
      <3> QED BY <1>4, <3>1, <3>2, <3>3
    <2> QED BY <2>1, <2>2
  <1>7. Nat \subseteq S
    <2> HIDE DEF S
    <2> QED BY <1>5, <1>6, Induction
  <1>8. <<n, f[n]>> \in R BY <1>3, <1>7
  <1> QED BY <1>1, <1>8 DEF n

-----------------------------------------------------------------------------
(***************************************************************************)
(* What a sequence of calls does to the keys that are down and to the text *)
(* they have produced, when each call does what it asks.                   *)
(***************************************************************************)
\* No element twice.
Once(s) == \A a, b \in 1 .. Len(s) : s[a] = s[b] => a = b

Effect == [down : {s \in Seq(Keys \cup {Shift}) : Once(s)}, text : Seq(Keys \X BOOLEAN)]

\* A key that is not down goes down; the last to go down is released.
Does(r, a, b) ==
    CASE r.op = "press" ->
            /\ r.key \notin Range(a.down) /\ b.down = Append(a.down, r.key)
            /\ b.text = IF r.key = Shift THEN a.text
                        ELSE Append(a.text, <<r.key, Shift \in Range(a.down)>>)
      [] r.op = "release" ->
            /\ a.down # << >> /\ Last(a.down) = r.key
            /\ b.down = Front(a.down) /\ b.text = a.text
      [] OTHER -> b = a /\ (r.op = "snapshot" => a.down = << >>)

Leads(todo, a, b) ==
    \E p \in [0 .. Len(todo) -> Effect] :
        /\ p[0] = a /\ p[Len(todo)] = b
        /\ \A j \in 1 .. Len(todo) : Does(todo[j], p[j - 1], p[j])

LEMMA LeadsNowhere ==
    ASSUME NEW a \in Effect, NEW b
    PROVE  Leads(<< >>, a, b) <=> a = b
  <1>1. Len(<< >>) = 0 OBVIOUS
  <1>2. Leads(<< >>, a, b) => a = b BY <1>1 DEF Leads
  <1>3. ASSUME a = b PROVE Leads(<< >>, a, b)
    <2> DEFINE p == [j \in 0 .. 0 |-> a]
    <2>1. p \in [0 .. Len(<< >>) -> Effect] /\ p[0] = a BY <1>1
    <2> HIDE DEF p
    <2> QED BY <1>1, <1>3, <2>1 DEF Leads
  <1> QED BY <1>2, <1>3

LEMMA LeadsOne ==
    ASSUME NEW r, NEW a \in Effect, NEW b \in Effect, Does(r, a, b)
    PROVE  Leads(<<r>>, a, b)
  <1> DEFINE p == [j \in 0 .. 1 |-> IF j = 0 THEN a ELSE b]
  <1>1. Len(<<r>>) = 1 /\ <<r>>[1] = r OBVIOUS
  <1>2. p \in [0 .. 1 -> Effect] /\ p[0] = a /\ p[1] = b OBVIOUS
  <1> HIDE DEF p
  <1>3. \A j \in 1 .. 1 : Does(<<r>>[j], p[j - 1], p[j]) BY <1>1, <1>2
  <1> QED BY <1>1, <1>2, <1>3 DEF Leads

LEMMA LeadsOn ==
    ASSUME NEW T, NEW s \in Seq(T), NEW t \in Seq(T), NEW a, NEW b, NEW c,
           Leads(s, a, b), Leads(t, b, c)
    PROVE  Leads(s \o t, a, c)
  <1> DEFINE n == Len(s)
             m == Len(t)
             both == s \o t
  <1>1. PICK p \in [0 .. n -> Effect] :
          /\ p[0] = a /\ p[n] = b /\ \A j \in 1 .. n : Does(s[j], p[j - 1], p[j])
    BY DEF Leads
  <1>2. PICK q \in [0 .. m -> Effect] :
          /\ q[0] = b /\ q[m] = c /\ \A j \in 1 .. m : Does(t[j], q[j - 1], q[j])
    BY DEF Leads
  <1>3. n \in Nat /\ m \in Nat BY LengthIsNatural
  <1>4. /\ Len(both) = n + m /\ \A j \in 1 .. n : both[j] = s[j]
        /\ \A j \in 1 .. m : both[n + j] = t[j]
    BY ConcatenationAt
  <1> HIDE DEF n, m, both
  <1> DEFINE r == [j \in 0 .. n + m |-> IF j <= n THEN p[j] ELSE q[j - n]]
  <1>5. r \in [0 .. n + m -> Effect]
    <2>1. ASSUME NEW j \in 0 .. n + m PROVE (IF j <= n THEN p[j] ELSE q[j - n]) \in Effect
      <3>1. CASE j <= n BY <3>1, <1>3
      <3>2. CASE ~(j <= n)
        <4>1. j - n \in 0 .. m BY <3>2, <1>3
        <4> QED BY <3>2, <4>1
      <3> QED BY <3>1, <3>2
    <2> QED BY <2>1
  <1>6. \A j \in 0 .. n : r[j] = p[j] BY <1>3
  <1>7. \A j \in 0 .. m : r[n + j] = q[j]
    <2>1. ASSUME NEW j \in 0 .. m PROVE r[n + j] = q[j]
      <3>1. n + j \in 0 .. n + m /\ (n + j) - n = j BY <1>3
      <3>2. CASE j = 0 BY <1>1, <1>2, <1>3, <1>6, <3>2
      <3>3. CASE j # 0
        <4>1. ~(n + j <= n) BY <1>3, <3>3
        <4> QED BY <3>1, <4>1
      <3> QED BY <3>2, <3>3
    <2> QED BY <2>1
  <1> HIDE DEF r
  <1>8. r[0] = a /\ r[n + m] = c BY <1>1, <1>2, <1>3, <1>6, <1>7
  <1>9. ASSUME NEW j \in 1 .. n + m PROVE Does(both[j], r[j - 1], r[j])
    <2>1. CASE j <= n
      <3>1. j \in 1 .. n /\ j - 1 \in 0 .. n /\ j \in 0 .. n BY <2>1, <1>3
      <3> QED BY <1>1, <1>4, <1>6, <3>1
    <2>2. CASE ~(j <= n)
      <3> DEFINE i == j - n
      <3>1. i \in 1 .. m /\ i - 1 \in 0 .. m /\ i \in 0 .. m BY <2>2, <1>3
      <3>2. n + i = j /\ n + (i - 1) = j - 1 BY <1>3
      <3> HIDE DEF i
      <3>3. both[j] = t[i] /\ r[j - 1] = q[i - 1] /\ r[j] = q[i]
        BY <1>4, <1>7, <3>1, <3>2
      <3> QED BY <1>2, <3>1, <3>3
    <2> QED BY <2>1, <2>2
  <1> QED BY <1>4, <1>5, <1>8, <1>9 DEF Leads, both

\* The first call, then the others.
LEMMA LeadsFirst ==
    ASSUME NEW T, NEW s \in Seq(T), s # << >>, NEW a, NEW b, Leads(s, a, b)
    PROVE  a \in Effect /\ \E c \in Effect : Does(Head(s), a, c) /\ Leads(Tail(s), c, b)
  <1> DEFINE n == Len(s)
             rest == Tail(s)
  <1>1. PICK p \in [0 .. n -> Effect] :
          /\ p[0] = a /\ p[n] = b /\ \A j \in 1 .. n : Does(s[j], p[j - 1], p[j])
    BY DEF Leads
  <1>2. n \in Nat \ {0} /\ Head(s) = s[1]
    <2>1. n \in Nat /\ Head(s) = s[1] BY LengthIsNatural
    <2> QED BY <2>1
  <1>3. Len(rest) = n - 1 /\ \A j \in 1 .. n - 1 : rest[j] = s[j + 1]
    BY <1>2
  <1> HIDE DEF n, rest
  <1> DEFINE q == [j \in 0 .. n - 1 |-> p[j + 1]]
  <1>4. \A j \in 0 .. n - 1 : q[j] = p[j + 1] /\ j + 1 \in 0 .. n BY <1>2
  <1>5. q \in [0 .. n - 1 -> Effect] BY <1>4
  <1> HIDE DEF q
  <1>6. q[0] = p[1] /\ q[n - 1] = b
    <2>1. q[0] = p[1] BY <1>2, <1>4
    <2>2. n - 1 \in 0 .. n - 1 /\ (n - 1) + 1 = n BY <1>2
    <2>3. q[n - 1] = p[n] BY <1>4, <2>2
    <2> QED BY <1>1, <2>1, <2>3
  <1>7. ASSUME NEW j \in 1 .. n - 1 PROVE Does(rest[j], q[j - 1], q[j])
    <2>1. /\ j + 1 \in 1 .. n /\ j - 1 \in 0 .. n - 1 /\ j \in 0 .. n - 1
          /\ (j + 1) - 1 = j /\ (j - 1) + 1 = j
      BY <1>2
    <2>2. q[j - 1] = p[j] /\ q[j] = p[j + 1] /\ rest[j] = s[j + 1] BY <1>3, <1>4, <2>1
    <2> QED BY <1>1, <2>1, <2>2
  <1>8. Leads(rest, q[0], b) BY <1>3, <1>5, <1>6, <1>7 DEF Leads
  <1>9. 1 \in 1 .. n /\ 1 - 1 = 0 /\ 0 \in 0 .. n /\ 1 \in 0 .. n BY <1>2
  <1>10. Does(s[1], p[0], p[1]) /\ p[0] \in Effect /\ p[1] \in Effect BY <1>1, <1>9
  <1> QED BY <1>1, <1>2, <1>6, <1>8, <1>10 DEF rest

-----------------------------------------------------------------------------
(***************************************************************************)
(* The calls of a text type it, and leave nothing down.                    *)
(***************************************************************************)
Characters == Seq(Keys \X BOOLEAN)
Strokes(C) == FlattenSeq([i \in DOMAIN C |-> Stroke(C[i])])
SeatRequest == {r \in Request : r.op \in {"press", "release"}}

LEMMA AppendQueue ==
    ASSUME NEW S, NEW q \in Seq(S), NEW x \in S
    PROVE  /\ Append(q, x) \in Seq(S)
           /\ Append(q, x) # << >>
           /\ Range(Append(q, x)) = Range(q) \cup {x}
           /\ Once(q) /\ x \notin Range(q) => Once(Append(q, x))
           /\ q # << >> => Head(Append(q, x)) = Head(q)
           /\ Last(Append(q, x)) = x /\ Front(Append(q, x)) = q
  <1>1. /\ Append(q, x) \in Seq(S) /\ Len(Append(q, x)) = Len(q) + 1
        /\ \A j \in 1 .. Len(q) : Append(q, x)[j] = q[j]
        /\ Append(q, x)[Len(q) + 1] = x
    OBVIOUS
  <1>2. Len(q) \in Nat /\ DOMAIN q = 1 .. Len(q) /\ DOMAIN Append(q, x) = 1 .. Len(q) + 1
    BY <1>1
  <1>3. Range(Append(q, x)) = Range(q) \cup {x} BY <1>1, <1>2 DEF Range
  <1>4. Once(q) /\ x \notin Range(q) => Once(Append(q, x)) BY <1>1, <1>2 DEF Range, Once
  <1>5. q # << >> => Head(Append(q, x)) = Head(q) OBVIOUS
  <1>6. Append(q, x) # << >>
    <2>1. Len(Append(q, x)) # 0 BY <1>1, <1>2
    <2>2. Len(<< >>) = 0 OBVIOUS
    <2> QED BY <2>1, <2>2, Zenon
  <1>7. Last(Append(q, x)) = x BY <1>1, <1>2 DEF Last
  <1>8. Front(Append(q, x)) = q
    <2> DEFINE longer == Append(q, x)
               front == SubSeq(longer, 1, Len(q))
    <2>1. Len(longer) - 1 = Len(q) BY <1>1, <1>2
    <2>2. \A j \in 1 .. Len(q) : longer[j] \in S /\ longer[j] = q[j] BY <1>1, <1>2
    <2> HIDE DEF longer
    <2>3. front \in Seq(S) /\ Len(front) = Len(q)
          /\ \A j \in 1 .. Len(q) : front[j] = longer[j]
      BY <1>2, <2>2, SubSeqProperties
    <2>4. Front(longer) = front BY <2>1 DEF Front
    <2> HIDE DEF front
    <2>5. front = q BY <2>2, <2>3, SeqEqual
    <2> QED BY <2>4, <2>5 DEF longer
  <1> QED BY <1>1, <1>3, <1>4, <1>5, <1>6, <1>7, <1>8

LEMMA Single ==
    ASSUME NEW S, NEW x \in S
    PROVE  /\ <<x>> \in Seq(S) /\ Once(<<x>>) /\ Range(<<x>>) = {x} /\ <<x>> # << >>
           /\ Last(<<x>>) = x /\ Front(<<x>>) = << >>
  <1>1. << >> \in Seq(S) /\ Append(<< >>, x) = <<x>> OBVIOUS
  <1>2. Once(<< >>) /\ Range(<< >>) = {} BY DEF Once, Range
  <1>3. /\ Append(<< >>, x) \in Seq(S) /\ Append(<< >>, x) # << >>
        /\ Range(Append(<< >>, x)) = Range(<< >>) \cup {x}
        /\ Once(<< >>) /\ x \notin Range(<< >>) => Once(Append(<< >>, x))
        /\ Last(Append(<< >>, x)) = x /\ Front(Append(<< >>, x)) = << >>
    BY <1>1, AppendQueue
  <1>4. Range(<<x>>) = {x} /\ Once(<<x>>) BY <1>1, <1>2, <1>3
  <1> QED BY <1>1, <1>3, <1>4

LEMMA Nothing ==
    ASSUME NEW S, NEW x \in S
    PROVE  /\ << >> \in Seq(S) /\ Once(<< >>) /\ Range(<< >>) = {}
           /\ Append(<< >>, x) = <<x>>
  BY DEF Once, Range

\* A key pressed and released with `below` down, and what it produces.
LEMMA PressReleaseLeads ==
    ASSUME NEW key \in Keys \cup {Shift}, NEW below \in {<< >>, <<Shift>>},
           below = <<Shift>> => key # Shift, NEW t \in Characters
    PROVE  /\ <<Press(key), Release(key)>> \in Seq(SeatRequest)
           /\ LET u == IF key = Shift THEN t ELSE Append(t, <<key, Shift \in Range(below)>>)
              IN Leads(<<Press(key), Release(key)>>,
                       [down |-> below, text |-> t], [down |-> below, text |-> u])
  <1> DEFINE u == IF key = Shift THEN t ELSE Append(t, <<key, Shift \in Range(below)>>)
             a == [down |-> below, text |-> t]
             b == [down |-> Append(below, key), text |-> u]
             c == [down |-> below, text |-> u]
  <1>1. Press(key) \in SeatRequest /\ Release(key) \in SeatRequest
    BY DEF Press, Release, Request, SeatRequest
  <1>2. u \in Characters
    <2> DEFINE shifted == Shift \in Range(below)
    <2>1. shifted \in BOOLEAN OBVIOUS
    <2> HIDE DEF shifted
    <2>2. key # Shift => <<key, shifted>> \in Keys \X BOOLEAN BY <2>1
    <2>3. u = IF key = Shift THEN t ELSE Append(t, <<key, shifted>>) BY DEF shifted
    <2> HIDE DEF u
    <2> QED BY <2>2, <2>3 DEF Characters
  <1>3. /\ below \in Seq(Keys \cup {Shift}) /\ Once(below) /\ key \notin Range(below)
        /\ Append(below, key) \in Seq(Keys \cup {Shift}) /\ Once(Append(below, key))
        /\ Last(Append(below, key)) = key /\ Front(Append(below, key)) = below
        /\ Append(below, key) # << >>
    <2>1. /\ << >> \in Seq(Keys \cup {Shift}) /\ Once(<< >>) /\ Range(<< >>) = {}
          /\ Append(<< >>, Shift) = <<Shift>>
      BY Nothing
    <2>2. /\ <<Shift>> \in Seq(Keys \cup {Shift}) /\ Once(<<Shift>>)
          /\ Range(<<Shift>>) = {Shift}
      <3>1. Shift \in Keys \cup {Shift} OBVIOUS
      <3> QED BY <3>1, Single
    <2>3. /\ below \in Seq(Keys \cup {Shift}) /\ Once(below) /\ key \notin Range(below)
      BY <2>1, <2>2
    <2> QED BY <2>3, AppendQueue
  <1>4. a \in Effect /\ b \in Effect /\ c \in Effect
    <2> HIDE DEF u
    <2> QED BY <1>2, <1>3 DEF Effect, Characters
  <1>5. Does(Press(key), a, b) BY <1>3 DEF Does, Press
  <1>6. Does(Release(key), b, c) BY <1>3 DEF Does, Release
  <1>7. Leads(<<Press(key)>>, a, b) /\ Leads(<<Release(key)>>, b, c)
    BY <1>4, <1>5, <1>6, LeadsOne
  <1>8. /\ <<Press(key)>> \in Seq(SeatRequest) /\ <<Release(key)>> \in Seq(SeatRequest)
        /\ <<Press(key), Release(key)>> = <<Press(key)>> \o <<Release(key)>>
        /\ <<Press(key), Release(key)>> \in Seq(SeatRequest)
    BY <1>1
  <1> HIDE DEF a, b, c
  <1>9. Leads(<<Press(key), Release(key)>>, a, c) BY <1>7, <1>8, LeadsOn
  <1> QED BY <1>8, <1>9 DEF a, c

LEMMA StrokeLeads ==
    ASSUME NEW c \in Keys \X BOOLEAN, NEW t \in Characters
    PROVE  /\ Stroke(c) \in Seq(SeatRequest)
           /\ Leads(Stroke(c), [down |-> << >>, text |-> t],
                               [down |-> << >>, text |-> Append(t, c)])
  <1> DEFINE key == c[1]
             a == [down |-> << >>, text |-> t]
             b == [down |-> <<Shift>>, text |-> t]
             e == [down |-> <<Shift>>, text |-> Append(t, c)]
             z == [down |-> << >>, text |-> Append(t, c)]
  <1>1. key \in Keys /\ key # Shift /\ c[2] \in BOOLEAN BY CallsAssumption
  <1>2. Append(t, c) \in Characters BY DEF Characters
  <1>3. /\ << >> \in Seq(Keys \cup {Shift}) /\ Once(<< >>) /\ Range(<< >>) = {}
        /\ Append(<< >>, Shift) = <<Shift>>
    BY Nothing
  <1>4. /\ <<Shift>> \in Seq(Keys \cup {Shift}) /\ Once(<<Shift>>)
        /\ Range(<<Shift>>) = {Shift} /\ <<Shift>> # << >>
        /\ Last(<<Shift>>) = Shift /\ Front(<<Shift>>) = << >>
    <2>1. Shift \in Keys \cup {Shift} OBVIOUS
    <2> QED BY <2>1, Single
  <1>5. c = <<key, c[2]>> OBVIOUS
  <1>6. CASE ~c[2]
    <2>1. Stroke(c) = <<Press(key), Release(key)>> BY <1>6 DEF Stroke
    <2>2. c = <<key, Shift \in Range(<< >>)>>
      <3>1. (Shift \in Range(<< >>)) = FALSE BY <1>3
      <3>2. c[2] = FALSE BY <1>1, <1>6
      <3> QED BY <1>5, <3>1, <3>2
    <2> HIDE DEF key
    <2> QED BY <1>1, <2>1, <2>2, PressReleaseLeads
  <1>7. CASE c[2]
    <2>1. Stroke(c) = <<Press(Shift), Press(key), Release(key), Release(Shift)>>
      BY <1>7 DEF Stroke
    <2>2. c = <<key, Shift \in Range(<<Shift>>)>>
      <3>1. (Shift \in Range(<<Shift>>)) = TRUE BY <1>4
      <3>2. c[2] = TRUE BY <1>1, <1>7
      <3> QED BY <1>5, <3>1, <3>2
    <2> HIDE DEF key
    <2>3. /\ <<Press(key), Release(key)>> \in Seq(SeatRequest)
          /\ Leads(<<Press(key), Release(key)>>, b, e)
      BY <1>1, <2>2, PressReleaseLeads
    <2>4. Press(Shift) \in SeatRequest /\ Release(Shift) \in SeatRequest
      BY DEF Press, Release, Request, SeatRequest
    <2>5. a \in Effect /\ b \in Effect /\ e \in Effect /\ z \in Effect
      BY <1>2, <1>3, <1>4 DEF Effect, Characters
    <2>6. Does(Press(Shift), a, b) BY <1>3 DEF Does, Press
    <2>7. Does(Release(Shift), e, z) BY <1>4 DEF Does, Release
    <2>8. Leads(<<Press(Shift)>>, a, b) /\ Leads(<<Release(Shift)>>, e, z)
      BY <2>5, <2>6, <2>7, LeadsOne
    <2> DEFINE mid == <<Press(key), Release(key)>>
    <2>9. /\ <<Press(Shift)>> \in Seq(SeatRequest) /\ <<Release(Shift)>> \in Seq(SeatRequest)
          /\ Stroke(c) = (<<Press(Shift)>> \o mid) \o <<Release(Shift)>>
      BY <2>1, <2>4
    <2> HIDE DEF a, b, e, z, mid
    <2>10. <<Press(Shift)>> \o mid \in Seq(SeatRequest) /\ Leads(<<Press(Shift)>> \o mid, a, e)
      <3>1. mid \in Seq(SeatRequest) /\ Leads(mid, b, e) BY <2>3 DEF mid
      <3> QED BY <2>8, <2>9, <3>1, LeadsOn, ConcatenationAt
    <2>11. Stroke(c) \in Seq(SeatRequest) /\ Leads(Stroke(c), a, z)
      BY <2>8, <2>9, <2>10, LeadsOn, ConcatenationAt
    <2> QED BY <2>11 DEF a, z
  <1> QED BY <1>6, <1>7, <1>1

LEMMA TextLeads ==
    ASSUME NEW C \in Characters, C # << >>
    PROVE  /\ Strokes(C) \in Seq(SeatRequest) /\ Strokes(C) # << >>
           /\ Leads(Strokes(C), [down |-> << >>, text |-> << >>], [down |-> << >>, text |-> C])
  <1> DEFINE n == Len(C)
             s == [i \in DOMAIN C |-> Stroke(C[i])]
             a == [down |-> << >>, text |-> << >>]
             upto(k) == [down |-> << >>, text |-> SubSeq(C, 1, k)]
             R == {kx \in (1 .. n) \X Seq(SeatRequest) : Leads(kx[2], a, upto(kx[1]))}
  <1>1. n \in Nat \ {0} /\ DOMAIN C = 1 .. n BY DEF Characters
  <1>2. \A i \in 1 .. n : C[i] \in Keys \X BOOLEAN BY DEF Characters
  <1>3. Len(s) = n /\ \A i \in 1 .. n : s[i] = Stroke(C[i])
    <2>1. << >> \in Characters BY DEF Characters
    <2>2. \A i \in 1 .. n : Stroke(C[i]) \in Seq(SeatRequest) BY <1>2, <2>1, StrokeLeads
    <2>3. s \in Seq(Seq(SeatRequest)) BY <1>1, <2>2
    <2> QED BY <1>1, <2>3
  <1>4. << >> \in Characters BY DEF Characters
  <1>5. ASSUME NEW k \in 1 .. n, NEW x \in Seq(SeatRequest), Leads(x, a, upto(k))
         PROVE  <<k, x>> \in R
    <2> DEFINE kx == <<k, x>>
    <2>1. kx \in (1 .. n) \X Seq(SeatRequest) /\ kx[1] = k /\ kx[2] = x OBVIOUS
    <2>2. Leads(kx[2], a, upto(kx[1]))
      <3> HIDE DEF kx, a
      <3> QED BY <1>5, <2>1
    <2> HIDE DEF kx, upto, a, n
    <2> QED BY <2>1, <2>2 DEF kx
  <1>6. <<1, s[1]>> \in R
    <2>1. 1 \in 1 .. n BY <1>1
    <2>2. SubSeq(C, 1, 1) = Append(<< >>, C[1])
      <3>1. SubSeq(C, 1, 1) = SubSeq(C, 1, 1 - 1) \o <<C[1]>>
        BY <2>1, SubSeqRecursiveSecond DEF Characters
      <3>2. SubSeq(C, 1, 1 - 1) = << >> BY SubSeqEmpty
      <3>3. Append(<< >>, C[1]) = << >> \o <<C[1]>>
        BY <1>2, <1>4, <2>1, AppendIsConcat DEF Characters
      <3> QED BY <3>1, <3>2, <3>3
    <2>3. /\ Stroke(C[1]) \in Seq(SeatRequest)
          /\ Leads(Stroke(C[1]), [down |-> << >>, text |-> << >>],
                   [down |-> << >>, text |-> Append(<< >>, C[1])])
      BY <1>2, <1>4, <2>1, StrokeLeads
    <2>4. s[1] = Stroke(C[1]) BY <1>3, <2>1
    <2>5. s[1] \in Seq(SeatRequest) /\ Leads(s[1], a, upto(1))
      <3> HIDE DEF s
      <3> QED BY <2>2, <2>3, <2>4
    <2> HIDE DEF s, n, a, upto, R
    <2> QED BY <1>5, <2>1, <2>5
  <1>7. ASSUME NEW k \in 1 .. n - 1, NEW x, <<k, x>> \in R
        PROVE  <<k + 1, x \o s[k + 1]>> \in R
    <2> DEFINE q == k + 1
    <2>1. q \in 1 .. n /\ k \in 1 .. n BY <1>1
    <2>2. x \in Seq(SeatRequest) /\ Leads(x, a, upto(k)) BY <1>7
    <2>3. SubSeq(C, 1, k) \in Characters BY <1>1, <2>1 DEF Characters
    <2>4. SubSeq(C, 1, q) = Append(SubSeq(C, 1, k), C[q]) BY <1>1, <2>1 DEF Characters
    <2> HIDE DEF q
    <2>5. s[q] \in Seq(SeatRequest) /\ Leads(s[q], upto(k), upto(q))
      BY <1>2, <1>3, <2>1, <2>3, <2>4, StrokeLeads
    <2>6. x \o s[q] \in Seq(SeatRequest) /\ Leads(x \o s[q], a, upto(q))
      <3> HIDE DEF upto, a, s
      <3>1. Leads(x \o s[q], a, upto(q)) BY <2>2, <2>5, LeadsOn
      <3>2. x \o s[q] \in Seq(SeatRequest) BY <2>2, <2>5
      <3> QED BY <3>1, <3>2
    <2>7. <<q, x \o s[q]>> \in R
      <3> HIDE DEF s, n, a, upto, R
      <3> QED BY <1>5, <2>1, <2>6
    <2> QED BY <2>7 DEF q
  <1>8. <<n, FlattenSeq(s)>> \in R
    <2> HIDE DEF s, R, n
    <2> QED BY <1>1, <1>3, <1>6, <1>7, FlattenInduction
  <1>9. upto(n) = [down |-> << >>, text |-> C]
    <2>1. SubSeq(C, 1, n) = C BY DEF Characters
    <2> QED BY <2>1
  <1>10. Strokes(C) \in Seq(SeatRequest) /\ Leads(Strokes(C), a, [down |-> << >>, text |-> C])
    BY <1>8, <1>9 DEF Strokes
  <1>11. Strokes(C) # << >>
    <2> SUFFICES ASSUME Strokes(C) = << >> PROVE FALSE OBVIOUS
    <2>1. a \in Effect
      <3>1. << >> \in Seq(Keys \cup {Shift}) /\ Once(<< >>) BY Nothing
      <3> QED BY <1>4, <3>1 DEF Effect, Characters
    <2>2. a = [down |-> << >>, text |-> C]
      <3> HIDE DEF a
      <3> QED BY <1>10, <2>1, LeadsNowhere
    <2>3. a.text = << >> OBVIOUS
    <2> QED BY <2>2, <2>3
  <1> QED BY <1>10, <1>11

-----------------------------------------------------------------------------
(***************************************************************************)
(* The inductive invariant: the calls and the commands that made them.     *)
(***************************************************************************)
\* A connection is queued once, and what the agent has begun to serve had sent
\* its request.
ServesTheFirst ==
    /\ Once(queue)
    /\ stage # "read" => queue # << >> /\ calls[Head(queue)].at \in {"sent", "abandoned"}
    /\ stage = "resize" => calls[Head(queue)].request.op = "resize"

\* A command that waits has its call under way, with a caller that lives.
WaitsForItsCall(m) ==
    host[m].pc = "waiting" =>
        /\ Current(m) \in DOMAIN calls
        /\ CallerAlive(Current(m))
        /\ calls[Current(m)].request = Head(host[m].todo)

\* Nothing has gone wrong for m so far.
Unharmed(m) == host[m].ok /\ host[m].pc # "killed"

CommandSound(m) ==
    /\ host[m].pc = "idle" => host[m] = Idle(host[m].kind) /\ acted[m] = 0
    /\ host[m].pc \in {"ready", "waiting"} => host[m].todo # << >>
    /\ WaitsForItsCall(m)

\* Calls are numbered, and only a command that failed leaves one behind.
CallSound(i) ==
    /\ i[2] \in 1 .. host[i[1]].n
    /\ Unharmed(i[1]) => Waits(i)

\* Every window operation still to be made, or under way, carries the revision
\* its user named.
CarriesNamed(request, named) ==
    named # 0 /\ request.op \in WindowOps => request.rev = named

TodoNamed(h) == \A j \in 1 .. Len(h.todo) : CarriesNamed(h.todo[j], h.named)

NamedRevision(m) ==
    /\ TodoNamed(host[m])
    /\ host[m].named # 0 => acted[m] \in {0, host[m].named}

CallsInv ==
    /\ TypeOK
    /\ ServesTheFirst
    /\ \A m \in Commands : CommandSound(m) /\ NamedRevision(m)
    /\ \A i \in DOMAIN calls : CallSound(i) /\ CarriesNamed(calls[i].request, host[i[1]].named)

-----------------------------------------------------------------------------
(***************************************************************************)
(* Lemmas about queues, requests and what an answer does to a command.     *)
(***************************************************************************)
LEMMA TailQueue ==
    ASSUME NEW S, NEW q \in Seq(S), q # << >>, Once(q)
    PROVE  /\ Tail(q) \in Seq(S)
           /\ Head(q) \in Range(q) /\ Head(q) \in S
           /\ Range(Tail(q)) = Range(q) \ {Head(q)}
           /\ Once(Tail(q))
  <1>1. /\ Tail(q) \in Seq(S) /\ Len(Tail(q)) = Len(q) - 1 /\ Len(q) \in Nat \ {0}
        /\ \A j \in 1 .. Len(q) - 1 : Tail(q)[j] = q[j + 1]
        /\ Head(q) = q[1]
    OBVIOUS
  <1>2. DOMAIN q = 1 .. Len(q) /\ DOMAIN Tail(q) = 1 .. Len(q) - 1 BY <1>1
  <1>3. Once(Tail(q)) BY <1>1, <1>2 DEF Once
  <1>4. Head(q) \in Range(q) BY <1>1, <1>2 DEF Range
  <1>5. ASSUME NEW x PROVE x \in Range(Tail(q)) <=> x \in Range(q) \ {Head(q)}
    <2>1. ASSUME x \in Range(Tail(q)) PROVE x \in Range(q) \ {Head(q)}
      <3>1. PICK j \in 1 .. Len(q) - 1 : x = q[j + 1] BY <1>1, <1>2, <2>1 DEF Range
      <3>2. j + 1 \in 1 .. Len(q) /\ 1 \in 1 .. Len(q) /\ j + 1 # 1 BY <1>1
      <3> QED BY <1>1, <1>2, <3>1, <3>2 DEF Range, Once
    <2>2. ASSUME x \in Range(q) \ {Head(q)} PROVE x \in Range(Tail(q))
      <3>1. PICK j \in 1 .. Len(q) : x = q[j] BY <1>2, <2>2 DEF Range
      <3>2. j # 1 BY <1>1, <2>2, <3>1
      <3>3. j - 1 \in 1 .. Len(q) - 1 /\ (j - 1) + 1 = j BY <1>1, <3>2
      <3>4. Tail(q)[j - 1] = x BY <1>1, <3>1, <3>3
      <3> QED BY <1>2, <3>3, <3>4 DEF Range
    <2> QED BY <2>1, <2>2
  <1>6. Head(q) \in S BY <1>1
  <1> QED BY <1>1, <1>3, <1>4, <1>5, <1>6

LEMMA RequestFields ==
    ASSUME NEW r \in Request
    PROVE  /\ r.op \in {"snapshot", "motion", "press", "release"} \cup WindowOps
           /\ r.op \in WindowOps => r.window \in Nat /\ r.rev \in Nat
           /\ r.op \in {"press", "release"} => r.key \in Keys \cup {Shift}
  BY DEF Request, WindowOps

LEMMA ReleasesType ==
    ASSUME NEW keys \in Seq(Keys \cup {Shift})
    PROVE  /\ Releases(keys) \in Seq(Request)
           /\ \A j \in 1 .. Len(Releases(keys)) : Releases(keys)[j].op = "release"
  <1>1. DOMAIN keys = 1 .. Len(keys) /\ Len(keys) \in Nat BY LengthIsNatural
  <1>2. \A j \in 1 .. Len(keys) : Release(keys[j]) \in Request BY DEF Release, Request
  <1>3. Releases(keys) \in Seq(Request) /\ Len(Releases(keys)) = Len(keys)
    BY <1>1, <1>2 DEF Releases
  <1>4. \A j \in 1 .. Len(keys) : Releases(keys)[j].op = "release"
    BY <1>1 DEF Releases, Release
  <1> QED BY <1>3, <1>4

\* What a command may become when an answer arrives: it has its identity, and
\* either goes on with calls of its own or is done.
Follows(h, g) ==
    /\ g \in Command
    /\ g.n = h.n /\ g.kind = h.kind /\ g.key = h.key
    /\ g.window = h.window /\ g.named = h.named
    /\ g.pc = (IF g.todo = << >> THEN "done" ELSE "ready")
    /\ g.ok => h.ok

LEMMA ContinueFields ==
    ASSUME NEW h \in Command, NEW todo \in Seq(Request)
    PROVE  /\ Follows(h, Continue(h, todo))
           /\ Continue(h, todo).todo = todo
           /\ Continue(h, todo).pressed = h.pressed
           /\ Continue(h, todo).ok = h.ok
           /\ Continue(h, todo).cleaning = h.cleaning
           /\ Continue(h, todo).released = h.released
  BY DEF Continue, Command, Follows

LEMMA FailsFollows ==
    ASSUME NEW h \in Command, h.todo # << >>, TodoNamed(h)
    PROVE  Follows(h, Fails(h)) /\ ~Fails(h).ok /\ TodoNamed(Fails(h))
  <1> DEFINE next == AfterFailure(h)
             g == Continue(h, next)
  <1>0. h.todo \in Seq(Request) /\ h.pressed \in Seq(Keys \cup {Shift}) BY DEF Command
  <1>1. Tail(h.todo) \in Seq(Request) BY <1>0
  <1>2. Releases(h.pressed) \in Seq(Request) BY <1>0, ReleasesType
  <1>3. next = Tail(h.todo) \/ next = << >> \/ next = Releases(h.pressed) BY DEF AfterFailure
  <1>4. next \in Seq(Request)
    <2> HIDE DEF next
    <2>1. << >> \in Seq(Request) OBVIOUS
    <2> QED BY <1>1, <1>2, <1>3, <2>1
  <1>5. \A j \in 1 .. Len(next) : CarriesNamed(next[j], h.named)
    <2>1. CASE next = Tail(h.todo)
      <3>1. ASSUME NEW j \in 1 .. Len(Tail(h.todo))
            PROVE  Tail(h.todo)[j] = h.todo[j + 1] /\ j + 1 \in 1 .. Len(h.todo)
        BY <1>0, HeadTailProperties, LenProperties
      <3> QED BY <2>1, <3>1 DEF TodoNamed
    <2>2. CASE next = << >> BY <2>2
    <2>3. CASE next = Releases(h.pressed)
      <3>1. \A j \in 1 .. Len(Releases(h.pressed)) : Releases(h.pressed)[j].op = "release"
        BY <1>0, ReleasesType
      <3> QED BY <2>3, <3>1 DEF CarriesNamed, WindowOps
    <2> QED BY <1>3, <2>1, <2>2, <2>3
  <1>6. /\ Follows(h, g) /\ g.todo = next BY <1>4, ContinueFields
  <1>7. Fails(h) = [g EXCEPT !.ok = FALSE, !.cleaning = TRUE] BY DEF Fails
  <1> HIDE DEF g, next
  <1>8. Follows(h, Fails(h)) /\ ~Fails(h).ok /\ Fails(h).todo = g.todo /\ Fails(h).named = h.named
    BY <1>6, <1>7 DEF Follows, Command
  <1> QED BY <1>5, <1>6, <1>8 DEF TodoNamed

LEMMA SucceedsFollows ==
    ASSUME NEW h \in Command, h.todo # << >>, TodoNamed(h), NEW answer \in Answer
    PROVE  Follows(h, Succeeds(h, answer)) /\ TodoNamed(Succeeds(h, answer))
  <1>0. /\ h.todo \in Seq(Request) /\ h.pressed \in Seq(Keys \cup {Shift})
        /\ Tail(h.todo) \in Seq(Request) /\ << >> \in Seq(Request)
    BY DEF Command
  <1>1. TodoNamed(Continue(h, Tail(h.todo)))
    <2>1. /\ Continue(h, Tail(h.todo)).todo = Tail(h.todo)
          /\ Continue(h, Tail(h.todo)).named = h.named
      BY <1>0, ContinueFields DEF Follows
    <2>2. ASSUME NEW j \in 1 .. Len(Tail(h.todo))
          PROVE  Tail(h.todo)[j] = h.todo[j + 1] /\ j + 1 \in 1 .. Len(h.todo)
      BY <1>0, HeadTailProperties, LenProperties
    <2> QED BY <2>1, <2>2 DEF TodoNamed
  <1>2. CASE Head(h.todo).op = "snapshot" /\ h.kind \in Resolving
    <2>1. Succeeds(h, answer) = Resolve(h, answer) BY <1>2 DEF Succeeds
    <2>2. CASE h.window \in answer.live /\ h.named \in {0, answer.rev}
      <3> DEFINE next == ResolvedCalls(h, answer.rev)
      <3>1. /\ h.key \in Keys \cup {Shift} /\ h.window \in Nat /\ answer.rev \in Nat
        BY DEF Command, Answer
      <3>2. next \in Seq(Request) /\ \A j \in 1 .. Len(next) : CarriesNamed(next[j], h.named)
        <4>1. CASE h.kind = "click"
          <5>1. next = <<[op |-> "motion"], Press(h.key), Release(h.key)>>
            BY <4>1 DEF ResolvedCalls
          <5>2. /\ [op |-> "motion"] \in Request /\ Press(h.key) \in Request
                /\ Release(h.key) \in Request
            BY <3>1 DEF Press, Release, Request
          <5> HIDE DEF next
          <5> QED BY <5>1, <5>2 DEF CarriesNamed, WindowOps, Press, Release
        <4>2. CASE h.kind # "click"
          <5>1. h.kind \in WindowOps BY <1>2, <4>2 DEF Resolving
          <5>2. next = <<[op |-> h.kind, window |-> h.window, rev |-> answer.rev]>>
            BY <4>2 DEF ResolvedCalls
          <5>3. [op |-> h.kind, window |-> h.window, rev |-> answer.rev] \in Request
            BY <3>1, <5>1 DEF Request
          <5> HIDE DEF next
          <5> QED BY <2>2, <5>2, <5>3 DEF CarriesNamed
        <4> QED BY <4>1, <4>2
      <3>3. Resolve(h, answer) = Continue(h, next) BY <2>2 DEF Resolve
      <3> HIDE DEF next
      <3> QED BY <2>1, <3>2, <3>3, ContinueFields DEF Follows, TodoNamed
    <2>3. CASE ~(h.window \in answer.live /\ h.named \in {0, answer.rev})
      <3> DEFINE g == Continue(h, << >>)
      <3>1. Follows(h, g) /\ g.todo = << >> BY <1>0, ContinueFields
      <3>2. Resolve(h, answer) = [g EXCEPT !.ok = FALSE] BY <2>3 DEF Resolve
      <3> HIDE DEF g
      <3> DEFINE r == Succeeds(h, answer)
      <3>3. r = [g EXCEPT !.ok = FALSE] BY <2>1, <3>2
      <3> HIDE DEF r
      <3>4. g \in Command BY <3>1 DEF Follows
      <3>5. r \in Command BY <3>3, <3>4 DEF Command
      <3>6. /\ r.n = g.n /\ r.kind = g.kind /\ r.key = g.key /\ r.window = g.window
            /\ r.named = g.named /\ r.pc = g.pc /\ r.todo = g.todo /\ ~r.ok
        BY <3>3, <3>4 DEF Command
      <3>7. Follows(h, r) /\ r.todo = << >> BY <3>1, <3>5, <3>6 DEF Follows
      <3> QED BY <3>7 DEF TodoNamed, r
    <2> QED BY <2>2, <2>3
  <1>3. CASE Head(h.todo).op = "release"
    <2> DEFINE g == Continue(h, Tail(h.todo))
    <2>1. Succeeds(h, answer) = [g EXCEPT !.pressed = Front(@), !.released = TRUE]
      BY <1>3 DEF Succeeds
    <2>2. Follows(h, g) /\ g.pressed = h.pressed BY <1>0, ContinueFields
    <2>3. Front(h.pressed) \in Seq(Keys \cup {Shift})
      <3>1. Len(h.pressed) \in Nat BY <1>0, LenProperties
      <3> QED BY <1>0, <3>1 DEF Front
    <2>4. TodoNamed(g) BY <1>1
    <2> HIDE DEF g
    <2> DEFINE r == Succeeds(h, answer)
    <2>5. r = [g EXCEPT !.pressed = Front(@), !.released = TRUE] BY <2>1
    <2> HIDE DEF r
    <2>6. g \in Command BY <2>2 DEF Follows
    <2>7. Front(g.pressed) \in Seq(Keys \cup {Shift}) BY <2>2, <2>3
    <2>8. r \in Command BY <2>5, <2>6, <2>7 DEF Command
    <2>9. /\ r.n = g.n /\ r.kind = g.kind /\ r.key = g.key /\ r.window = g.window
          /\ r.named = g.named /\ r.pc = g.pc /\ r.todo = g.todo /\ r.ok = g.ok
      BY <2>5, <2>6 DEF Command
    <2>10. Follows(h, r) BY <2>2, <2>8, <2>9 DEF Follows
    <2> QED BY <2>4, <2>9, <2>10 DEF TodoNamed, r
  <1>4. CASE /\ ~(Head(h.todo).op = "snapshot" /\ h.kind \in Resolving)
             /\ Head(h.todo).op # "release"
    <2>1. Succeeds(h, answer) = Continue(h, Tail(h.todo)) BY <1>4 DEF Succeeds
    <2> QED BY <1>0, <1>1, <2>1, ContinueFields
  <1> QED BY <1>2, <1>3, <1>4

-----------------------------------------------------------------------------
(***************************************************************************)
(* Steps in which a call moves on or leaves, and steps in which a command  *)
(* hears of it.                                                            *)
(***************************************************************************)
ACall == [request : Request, at : Points]
Connected == {j \in DOMAIN calls : calls[j].at \notin {"starting", "closed"}}

\* Only call i changes, and at most where it is; or it is over.
CallLeaves(i) ==
    /\ DOMAIN calls' \subseteq DOMAIN calls
    /\ \A j \in DOMAIN calls : j # i => j \in DOMAIN calls' /\ calls'[j] = calls[j]
    /\ \A j \in DOMAIN calls' : calls'[j] \in ACall /\ calls'[j].request = calls[j].request

\* Only the command that made call i changes, if it waits for it.
HostMoves(i) ==
    /\ host' \in [Commands -> Command]
    /\ \A m \in Commands : m # i[1] => host'[m] = host[m]
    /\ IF Waits(i) THEN Follows(host[i[1]], host'[i[1]]) /\ TodoNamed(host'[i[1]])
       ELSE host'[i[1]] = host[i[1]]

LEMMA CallIdentity ==
    ASSUME CallsInv, NEW i \in DOMAIN calls
    PROVE  /\ i[1] \in Commands /\ i[2] \in Nat /\ i = <<i[1], i[2]>>
           /\ calls[i] \in ACall /\ host[i[1]] \in Command
           /\ Waits(i) => i = Current(i[1]) /\ host[i[1]].todo # << >>
  <1>1. i \in Commands \X Nat BY DEF CallsInv, TypeOK, CallsTypeOK, Calls
  <1>2. calls[i] \in ACall BY DEF CallsInv, TypeOK, CallsTypeOK, ACall
  <1>3. host[i[1]] \in Command BY <1>1 DEF CallsInv, TypeOK
  <1>4. Waits(i) => i = Current(i[1]) /\ host[i[1]].todo # << >>
    BY <1>1 DEF Waits, Current, CallsInv, CommandSound
  <1> QED BY <1>1, <1>2, <1>3, <1>4

LEMMA WaitingIsAlive ==
    ASSUME CallsInv, NEW i \in DOMAIN calls, Waits(i)
    PROVE  CallerAlive(i)
  BY CallIdentity DEF CallsInv, CommandSound, WaitsForItsCall, Waits, Current

LEMMA HearsMoves ==
    ASSUME CallsInv, NEW i \in DOMAIN calls, NEW answer \in Answer, Waits(i),
           Hears(i[1], answer)
    PROVE  HostMoves(i) /\ (~answer.ok => ~host'[i[1]].ok)
  <1> DEFINE m == i[1]
             g == IF answer.ok THEN Succeeds(host[m], answer) ELSE Fails(host[m])
  <1>1. /\ m \in Commands /\ host[m] \in Command /\ host[m].todo # << >> BY CallIdentity
  <1>2. TodoNamed(host[m]) BY <1>1 DEF CallsInv, NamedRevision
  <1>3. Follows(host[m], g) /\ TodoNamed(g) /\ (~answer.ok => ~g.ok)
    BY <1>1, <1>2, FailsFollows, SucceedsFollows
  <1>4. host' = [host EXCEPT ![m] = g] BY DEF Hears
  <1>5. host \in [Commands -> Command] BY DEF CallsInv, TypeOK
  <1> HIDE DEF g
  <1>6. g \in Command BY <1>3 DEF Follows
  <1>7. /\ host' \in [Commands -> Command] /\ host'[m] = g
        /\ \A c \in Commands : c # m => host'[c] = host[c]
    BY <1>1, <1>4, <1>5, <1>6
  <1> QED BY <1>3, <1>7 DEF HostMoves

LEMMA ReportedMoves ==
    ASSUME CallsInv, NEW i \in DOMAIN calls, NEW answer \in Answer, Reported(i, answer)
    PROVE  HostMoves(i) /\ (Waits(i) /\ ~answer.ok => ~host'[i[1]].ok)
  <1>1. CASE Waits(i) BY <1>1, HearsMoves DEF Reported
  <1>2. CASE ~Waits(i)
    <2>1. host' = host BY <1>2 DEF Reported
    <2> QED BY <1>2, <2>1 DEF HostMoves, CallsInv, TypeOK
  <1> QED BY <1>1, <1>2

LEMMA LeavingKeeps ==
    ASSUME CallsInv, NEW i \in DOMAIN calls, CallLeaves(i), HostMoves(i),
           CallsTypeOK', ServesTheFirst', UNCHANGED acted,
           i \in DOMAIN calls' /\ Waits(i) => ~host'[i[1]].ok
    PROVE  CallsInv'
  <1>1. i[1] \in Commands /\ host[i[1]] \in Command
    BY CallIdentity
  <1>2. TypeOK' BY DEF TypeOK, HostMoves
  <1>3. ASSUME NEW m \in Commands PROVE CommandSound(m)' /\ NamedRevision(m)'
    <2>0. CommandSound(m) /\ NamedRevision(m) BY DEF CallsInv
    <2>1. CASE m = i[1] /\ Waits(i)
      <3>1. /\ Follows(host[m], host'[m]) /\ TodoNamed(host'[m]) BY <2>1 DEF HostMoves
      <3>2. CommandSound(m)'
        BY <3>1 DEF CommandSound, WaitsForItsCall, Follows
      <3> QED BY <3>1, <3>2, <2>0 DEF NamedRevision, Follows
    <2>2. CASE ~(m = i[1] /\ Waits(i))
      <3>1. host'[m] = host[m] BY <2>2 DEF HostMoves
      <3>2. WaitsForItsCall(m)'
        <4> SUFFICES ASSUME host[m].pc = "waiting"
                     PROVE  /\ Current(m)' \in DOMAIN calls' /\ CallerAlive(Current(m))'
                            /\ calls'[Current(m)'].request = Head(host'[m].todo)
          BY <3>1 DEF WaitsForItsCall
        <4>1. /\ Current(m) \in DOMAIN calls /\ CallerAlive(Current(m))
              /\ calls[Current(m)].request = Head(host[m].todo)
          BY <2>0 DEF CommandSound, WaitsForItsCall
        <4>2. Current(m)' = Current(m) BY <3>1 DEF Current
        <4>3. Current(m) # i BY <2>2 DEF Current, Waits
        <4>4. Current(m) \in DOMAIN calls' /\ calls'[Current(m)] = calls[Current(m)]
          BY <4>1, <4>3 DEF CallLeaves
        <4> QED BY <3>1, <4>1, <4>2, <4>4 DEF CallerAlive
      <3> QED BY <2>0, <3>1, <3>2 DEF CommandSound, NamedRevision
    <2> QED BY <2>1, <2>2
  <1>4. ASSUME NEW j \in DOMAIN calls'
        PROVE  CallSound(j)' /\ CarriesNamed(calls'[j].request, host'[j[1]].named)
    <2>1. j \in DOMAIN calls /\ calls'[j].request = calls[j].request BY DEF CallLeaves
    <2>2. /\ CallSound(j) /\ CarriesNamed(calls[j].request, host[j[1]].named)
      BY <2>1 DEF CallsInv
    <2>3. j[1] \in Commands /\ j = <<j[1], j[2]>> BY <2>1, CallIdentity
    <2>4. CASE j[1] = i[1] /\ Waits(i)
      <3>1. Follows(host[j[1]], host'[j[1]]) BY <2>4 DEF HostMoves
      <3>2. CASE j = i
        <4>1. ~host'[j[1]].ok BY <3>2, <2>4
        <4> QED BY <2>1, <2>2, <3>1, <4>1 DEF CallSound, Follows, Unharmed
      <3>3. CASE j # i
        <4>1. ~Unharmed(j[1])
          <5>1. i = <<i[1], i[2]>> BY CallIdentity
          <5>2. ~Waits(j) BY <2>3, <2>4, <3>3, <5>1 DEF Waits
          <5> QED BY <2>2, <5>2 DEF CallSound
        <4>2. ~host[j[1]].ok BY <4>1, <2>4 DEF Unharmed, Waits
        <4>3. ~host'[j[1]].ok BY <3>1, <4>2 DEF Follows
        <4> QED BY <2>1, <2>2, <3>1, <4>3 DEF CallSound, Follows, Unharmed
      <3> QED BY <3>2, <3>3
    <2>5. CASE ~(j[1] = i[1] /\ Waits(i))
      <3>1. host'[j[1]] = host[j[1]] BY <2>3, <2>5 DEF HostMoves
      <3> QED BY <2>1, <2>2, <3>1 DEF CallSound, Unharmed, Waits
    <2> QED BY <2>4, <2>5
  <1> QED BY <1>2, <1>3, <1>4 DEF CallsInv

LEMMA HeadInDomain ==
    ASSUME CallsTypeOK, queue # << >>
    PROVE  /\ Head(queue) \in DOMAIN calls /\ Head(queue) \in Range(queue)
           /\ Head(queue) \in Calls
  <1>1. queue \in Seq(Calls) BY DEF CallsTypeOK
  <1>2. Len(queue) \in Nat \ {0} /\ Head(queue) = queue[1] /\ DOMAIN queue = 1 .. Len(queue)
    BY <1>1
  <1>3. Head(queue) \in Range(queue) BY <1>2 DEF Range
  <1> QED BY <1>3, <1>1, <1>2 DEF CallsTypeOK

LEMMA ForgetLeaves ==
    ASSUME CallsInv, NEW i \in DOMAIN calls, Forget(i)
    PROVE  /\ CallLeaves(i) /\ DOMAIN calls' = DOMAIN calls \ {i}
           /\ Connected' = Connected \ {i}
  <1>1. calls' = [j \in DOMAIN calls \ {i} |-> calls[j]] BY DEF Forget, Restrict
  <1>2. /\ DOMAIN calls' = DOMAIN calls \ {i}
        /\ \A j \in DOMAIN calls' : calls'[j] = calls[j] /\ calls[j] \in ACall
    BY <1>1, CallIdentity
  <1>3. CallLeaves(i) BY <1>2 DEF CallLeaves
  <1>4. Connected' = Connected \ {i} BY <1>2 DEF Connected
  <1> QED BY <1>2, <1>3, <1>4

LEMMA ReachesLeaves ==
    ASSUME CallsInv, NEW i \in DOMAIN calls, NEW point \in Points, Reaches(i, point)
    PROVE  /\ CallLeaves(i) /\ DOMAIN calls' = DOMAIN calls
           /\ calls'[i].at = point /\ calls'[i].request = calls[i].request
           /\ Connected' = IF point \in {"starting", "closed"} THEN Connected \ {i}
                           ELSE Connected \cup {i}
  <1>1. calls[i] \in ACall BY CallIdentity
  <1>2. calls' = [calls EXCEPT ![i].at = point] BY DEF Reaches
  <1>3. /\ DOMAIN calls' = DOMAIN calls
        /\ \A j \in DOMAIN calls : j # i => calls'[j] = calls[j]
        /\ calls'[i] = [calls[i] EXCEPT !.at = point]
    BY <1>2
  <1>4. calls'[i] \in ACall /\ calls'[i].at = point /\ calls'[i].request = calls[i].request
    BY <1>1, <1>3 DEF ACall
  <1>5. \A j \in DOMAIN calls : j # i => calls[j] \in ACall BY CallIdentity
  <1>6. CallLeaves(i) BY <1>3, <1>4, <1>5 DEF CallLeaves
  <1>7. Connected' = IF point \in {"starting", "closed"} THEN Connected \ {i}
                     ELSE Connected \cup {i}
    BY <1>3, <1>4 DEF Connected
  <1> QED BY <1>3, <1>4, <1>6, <1>7

\* What the types of the calls come to once a call moved on or left.
LEMMA LeavingType ==
    ASSUME CallsInv, NEW i \in DOMAIN calls, CallLeaves(i),
           queue' \in Seq(Calls), Range(queue') = Connected',
           stage' \in {"read", "resize", "respond"}, outcome' \in Answer,
           UNCHANGED <<sessionVars, seatVars>>, faults' \in 0 .. MaxFaults
    PROVE  CallsTypeOK'
  <1>1. CallsTypeOK BY DEF CallsInv, TypeOK
  <1>2. DOMAIN calls' \subseteq Calls BY <1>1 DEF CallLeaves, CallsTypeOK
  <1>3. \A j \in DOMAIN calls' : calls'[j] \in [request : Request, at : Points]
    BY DEF CallLeaves, ACall
  <1>4. Range(queue') = {j \in DOMAIN calls' : calls'[j].at \notin {"starting", "closed"}}
    BY DEF Connected
  <1> QED BY <1>1, <1>2, <1>3, <1>4 DEF CallsTypeOK, sessionVars, seatVars

LEMMA FaultType ==
    ASSUME CallsInv, Fault
    PROVE  faults' \in 0 .. MaxFaults
  BY CallsAssumption DEF CallsInv, TypeOK, CallsTypeOK, Fault

LEMMA OrphanedLeaves ==
    ASSUME CallsInv, NEW i \in DOMAIN calls, CallerAlive(i), Orphaned(i),
           UNCHANGED <<queue, stage>>
    PROVE  CallLeaves(i) /\ Range(queue') = Connected' /\ ServesTheFirst'
  <1>1. Range(queue) = Connected /\ ServesTheFirst
    BY DEF CallsInv, TypeOK, CallsTypeOK, Connected
  <1>2. calls[i].at \in Points BY CallIdentity DEF ACall
  <1>3. CASE calls[i].at \in {"starting", "closed"}
    <2>1. Forget(i) BY <1>3 DEF Orphaned
    <2>2. CallLeaves(i) /\ Connected' = Connected BY <1>3, <2>1, ForgetLeaves DEF Connected
    <2>3. stage # "read" => Head(queue) # i BY <1>1, <1>3 DEF ServesTheFirst
    <2>4. stage # "read" => Head(queue) \in DOMAIN calls
      BY HeadInDomain DEF CallsInv, TypeOK, CallsTypeOK, ServesTheFirst
    <2>5. ServesTheFirst' BY <1>1, <2>2, <2>3, <2>4 DEF ServesTheFirst, CallLeaves
    <2> QED BY <1>1, <2>2, <2>5
  <1>4. CASE calls[i].at \notin {"starting", "closed"}
    <2>1. PICK point \in {"hungup", "abandoned"} :
            Reaches(i, point) /\ (calls[i].at = "sent" => point = "abandoned")
      <3>1. CASE calls[i].at = "dialed"
        <4>1. Reaches(i, "hungup") BY <3>1 DEF Orphaned
        <4> QED BY <3>1, <4>1
      <3>2. CASE calls[i].at # "dialed"
        <4>1. Reaches(i, "abandoned") BY <3>2, <1>4 DEF Orphaned
        <4> QED BY <4>1
      <3> QED BY <3>1, <3>2
    <2>2. point \in Points BY DEF Points
    <2>3. /\ CallLeaves(i) /\ calls'[i].at = point /\ calls'[i].request = calls[i].request
          /\ Connected' = Connected \cup {i}
      BY <2>1, <2>2, ReachesLeaves
    <2>4. Connected' = Connected BY <1>4, <2>3 DEF Connected
    <2>5. stage # "read" => Head(queue) \in DOMAIN calls
      BY HeadInDomain DEF CallsInv, TypeOK, CallsTypeOK, ServesTheFirst
    <2>6. stage # "read" /\ Head(queue) = i => point = "abandoned"
      BY <1>1, <2>1 DEF ServesTheFirst, CallerAlive
    <2>7. ServesTheFirst' BY <1>1, <2>3, <2>5, <2>6 DEF ServesTheFirst, CallLeaves
    <2> QED BY <1>1, <2>3, <2>4, <2>7
  <1> QED BY <1>3, <1>4

LEMMA AdvancingKeeps ==
    ASSUME CallsInv, NEW i \in DOMAIN calls, NEW point \in {"dialed", "sent", "closed"},
           Reaches(i, point), UNCHANGED <<host, acted>>, CallsTypeOK', ServesTheFirst'
    PROVE  CallsInv'
  <1>1. point \in Points BY DEF Points
  <1>2. CallLeaves(i) /\ DOMAIN calls' = DOMAIN calls /\ calls'[i].at = point
    BY <1>1, ReachesLeaves
  <1>3. TypeOK' BY DEF CallsInv, TypeOK
  <1>4. ASSUME NEW m \in Commands PROVE CommandSound(m)' /\ NamedRevision(m)'
    <2>1. CommandSound(m) /\ NamedRevision(m) /\ Current(m)' = Current(m)
      BY DEF CallsInv, Current
    <2>2. WaitsForItsCall(m)'
      <3> SUFFICES ASSUME host[m].pc = "waiting"
                   PROVE  /\ Current(m) \in DOMAIN calls' /\ CallerAlive(Current(m))'
                          /\ calls'[Current(m)].request = Head(host[m].todo)
        BY <2>1 DEF WaitsForItsCall
      <3>1. /\ Current(m) \in DOMAIN calls /\ CallerAlive(Current(m))
            /\ calls[Current(m)].request = Head(host[m].todo)
        BY <2>1 DEF CommandSound, WaitsForItsCall
      <3>2. calls'[Current(m)].at \notin {"hungup", "abandoned"}
        BY <1>2, <3>1 DEF CallLeaves, CallerAlive
      <3> QED BY <1>2, <2>1, <3>1, <3>2 DEF CallLeaves, CallerAlive
    <2> QED BY <2>1, <2>2 DEF CommandSound, NamedRevision
  <1>5. ASSUME NEW j \in DOMAIN calls'
        PROVE  CallSound(j)' /\ CarriesNamed(calls'[j].request, host'[j[1]].named)
    <2>1. j \in DOMAIN calls /\ calls'[j].request = calls[j].request BY <1>2 DEF CallLeaves
    <2>2. CallSound(j) /\ CarriesNamed(calls[j].request, host[j[1]].named)
      BY <2>1 DEF CallsInv
    <2> QED BY <2>1, <2>2 DEF CallSound, Unharmed, Waits
  <1> QED BY <1>3, <1>4, <1>5 DEF CallsInv

LEMMA DialKeeps ==
    ASSUME CallsInv, NEW i \in DOMAIN calls, Dial(i),
           UNCHANGED <<sessionVars, seatVars, faults, host>>
    PROVE  CallsInv'
  <1>1. /\ CallsTypeOK /\ ServesTheFirst /\ Range(queue) = Connected /\ i \in Calls
        /\ queue \in Seq(Calls)
    BY CallIdentity DEF CallsInv, TypeOK, CallsTypeOK, Connected, Calls
  <1>2. Reaches(i, "dialed") /\ calls[i].at = "starting" /\ queue' = Append(queue, i)
    BY DEF Dial
  <1>3. i \notin Range(queue) BY <1>1, <1>2 DEF Connected
  <1>4. /\ CallLeaves(i) /\ Connected' = Connected \cup {i}
        /\ calls'[i].at = "dialed" /\ DOMAIN calls' = DOMAIN calls
    BY <1>2, ReachesLeaves DEF Points
  <1>5. /\ queue' \in Seq(Calls) /\ Range(queue') = Connected' /\ queue' # << >>
        /\ Once(queue') /\ (queue # << >> => Head(queue') = Head(queue))
    BY <1>1, <1>2, <1>3, <1>4, AppendQueue DEF ServesTheFirst
  <1>6. CallsTypeOK'
    <2>1. stage' \in {"read", "resize", "respond"} /\ outcome' \in Answer /\ faults' \in 0 .. MaxFaults
      BY <1>1 DEF CallsTypeOK, Dial
    <2> QED BY <1>4, <1>5, <2>1, LeavingType
  <1>7. ServesTheFirst'
    <2>1. stage # "read" => Head(queue) \in Range(queue) BY <1>1, HeadInDomain DEF ServesTheFirst
    <2>2. stage # "read" => Head(queue) \in DOMAIN calls /\ Head(queue) # i
      BY <1>1, <1>3, <2>1, HeadInDomain DEF ServesTheFirst
    <2>3. stage' = stage BY DEF Dial
    <2> QED BY <1>1, <1>4, <1>5, <2>2, <2>3 DEF ServesTheFirst, CallLeaves
  <1> QED BY <1>2, <1>6, <1>7, AdvancingKeeps DEF seatVars

LEMMA WriteRequestKeeps ==
    ASSUME CallsInv, NEW i \in DOMAIN calls, WriteRequest(i),
           UNCHANGED <<sessionVars, seatVars, faults, host>>
    PROVE  CallsInv'
  <1>1. /\ CallsTypeOK /\ ServesTheFirst /\ Range(queue) = Connected /\ queue \in Seq(Calls)
    BY DEF CallsInv, TypeOK, CallsTypeOK, Connected
  <1>2. Reaches(i, "sent") /\ calls[i].at = "dialed" /\ UNCHANGED <<queue, stage, outcome>>
    BY DEF WriteRequest
  <1>3. /\ CallLeaves(i) /\ Connected' = Connected
        /\ calls'[i].at = "sent" /\ DOMAIN calls' = DOMAIN calls
    BY <1>2, ReachesLeaves DEF Points, Connected
  <1>4. CallsTypeOK' BY <1>1, <1>2, <1>3, LeavingType DEF CallsTypeOK
  <1>5. ServesTheFirst'
    <2>1. stage # "read" => Head(queue) \in DOMAIN calls /\ Head(queue) # i
      BY <1>1, <1>2, HeadInDomain DEF ServesTheFirst
    <2> QED BY <1>1, <1>2, <1>3, <2>1 DEF ServesTheFirst, CallLeaves
  <1> QED BY <1>2, <1>4, <1>5, AdvancingKeeps DEF seatVars

LEMMA CallerReadsEndKeeps ==
    ASSUME CallsInv, NEW i \in DOMAIN calls, CallerReadsEnd(i)
    PROVE  CallsInv'
  <1>1. /\ CallsTypeOK /\ ServesTheFirst /\ Range(queue) = Connected /\ queue \in Seq(Calls)
    BY DEF CallsInv, TypeOK, CallsTypeOK, Connected
  <1>2. /\ Forget(i) /\ calls[i].at = "closed" /\ Reported(i, Failure)
        /\ UNCHANGED <<sessionVars, queue, stage, outcome, seatVars, faults>>
    BY DEF CallerReadsEnd
  <1>3. /\ CallLeaves(i) /\ Connected' = Connected /\ i \notin DOMAIN calls'
    BY <1>2, ForgetLeaves DEF Connected
  <1>4. CallsTypeOK' BY <1>1, <1>2, <1>3, LeavingType DEF CallsTypeOK
  <1>5. ServesTheFirst'
    <2>1. stage # "read" => Head(queue) \in DOMAIN calls /\ Head(queue) # i
      BY <1>1, <1>2, HeadInDomain DEF ServesTheFirst
    <2> QED BY <1>1, <1>2, <1>3, <2>1 DEF ServesTheFirst, CallLeaves
  <1>6. Failure \in Answer BY DEF Failure, Answer
  <1>7. HostMoves(i) BY <1>2, <1>6, ReportedMoves
  <1> QED BY <1>2, <1>3, <1>4, <1>5, <1>7, LeavingKeeps DEF seatVars

LEMMA CallerGivesUpKeeps ==
    ASSUME CallsInv, NEW i \in DOMAIN calls, CallerGivesUp(i)
    PROVE  CallsInv'
  <1>1. CallsTypeOK BY DEF CallsInv, TypeOK
  <1>2. /\ Fault /\ CallerAlive(i) /\ Orphaned(i) /\ Reported(i, Failure)
        /\ UNCHANGED <<sessionVars, queue, stage, outcome, seatVars>>
    BY DEF CallerGivesUp
  <1>3. CallLeaves(i) /\ Range(queue') = Connected' /\ ServesTheFirst'
    BY <1>2, OrphanedLeaves
  <1>4. faults' \in 0 .. MaxFaults BY <1>2, FaultType
  <1>5. CallsTypeOK' BY <1>1, <1>2, <1>3, <1>4, LeavingType DEF CallsTypeOK
  <1>6. Failure \in Answer /\ ~Failure.ok BY DEF Failure, Answer
  <1>7. HostMoves(i) /\ (Waits(i) => ~host'[i[1]].ok) BY <1>2, <1>6, ReportedMoves
  <1> QED BY <1>2, <1>3, <1>5, <1>7, LeavingKeeps DEF seatVars

LEMMA HostGivesUpKeeps ==
    ASSUME CallsInv, NEW m \in Commands, HostGivesUp(m)
    PROVE  CallsInv'
  <1> DEFINE i == Current(m)
             h == host[m]
             g == IF h.cleaning THEN [Continue(h, << >>) EXCEPT !.ok = FALSE] ELSE Fails(h)
  <1>1. /\ CallsTypeOK /\ ServesTheFirst /\ Range(queue) = Connected
        /\ host \in [Commands -> Command]
    BY DEF CallsInv, TypeOK, CallsTypeOK, Connected
  <1>2. /\ Fault /\ h.pc = "waiting" /\ i \in DOMAIN calls
        /\ host' = [host EXCEPT ![m] = g]
        /\ UNCHANGED <<sessionVars, queue, stage, outcome, seatVars>>
    BY DEF HostGivesUp
  <1>3. i[1] = m /\ Waits(i) BY <1>2 DEF Current, Waits
  <1>4. CallLeaves(i) /\ Range(queue') = Connected' /\ ServesTheFirst'
    <2>1. CASE Survives
      <3>1. calls' = calls BY <2>1 DEF HostGivesUp
      <3>2. CallLeaves(i) BY <3>1, CallIdentity DEF CallLeaves
      <3> QED BY <1>1, <1>2, <3>1, <3>2 DEF Connected, ServesTheFirst
    <2>2. CASE ~Survives
      <3>1. CallerAlive(i) /\ Orphaned(i) BY <2>2 DEF HostGivesUp
      <3> QED BY <1>2, <3>1, OrphanedLeaves
    <2> QED BY <2>1, <2>2
  <1>5. faults' \in 0 .. MaxFaults BY <1>2, FaultType
  <1>6. CallsTypeOK' BY <1>1, <1>2, <1>4, <1>5, LeavingType DEF CallsTypeOK
  <1>7. Follows(h, g) /\ TodoNamed(g) /\ ~g.ok
    <2>1. h \in Command /\ h.todo # << >> /\ TodoNamed(h)
      BY <1>1, <1>2, <1>3, CallIdentity DEF CallsInv, NamedRevision
    <2>2. CASE h.cleaning
      <3> DEFINE k == Continue(h, << >>)
      <3>1. << >> \in Seq(Request) OBVIOUS
      <3>2. Follows(h, k) /\ k.todo = << >> BY <2>1, <3>1, ContinueFields
      <3>3. g = [k EXCEPT !.ok = FALSE] BY <2>2
      <3> HIDE DEF k, g
      <3>4. k \in Command BY <3>2 DEF Follows
      <3>5. g \in Command BY <3>3, <3>4 DEF Command
      <3>6. /\ g.n = k.n /\ g.kind = k.kind /\ g.key = k.key /\ g.window = k.window
            /\ g.named = k.named /\ g.pc = k.pc /\ g.todo = k.todo /\ ~g.ok
        BY <3>3, <3>4 DEF Command
      <3>7. Follows(h, g) BY <3>2, <3>5, <3>6 DEF Follows
      <3> QED BY <3>2, <3>6, <3>7 DEF TodoNamed
    <2>3. CASE ~h.cleaning BY <2>1, <2>3, FailsFollows
    <2> QED BY <2>2, <2>3
  <1> HIDE DEF g
  <1>8. HostMoves(i) /\ ~host'[i[1]].ok
    <2>1. g \in Command BY <1>7 DEF Follows
    <2> QED BY <1>1, <1>2, <1>3, <1>7, <2>1 DEF HostMoves
  <1> QED BY <1>2, <1>4, <1>6, <1>8, LeavingKeeps DEF seatVars

\* The agent is done with the first connection.
LEMMA ServedQueue ==
    ASSUME CallsInv, queue # << >>, Served
    PROVE  /\ queue' \in Seq(Calls) /\ Range(queue') = Range(queue) \ {Head(queue)}
           /\ ServesTheFirst' /\ stage' \in {"read", "resize", "respond"}
  <1>1. /\ CallsTypeOK /\ ServesTheFirst /\ queue \in Seq(Calls)
    BY DEF CallsInv, TypeOK, CallsTypeOK
  <1>2. queue' = Tail(queue) /\ stage' = "read" BY DEF Served
  <1> QED BY <1>1, <1>2, TailQueue DEF ServesTheFirst

LEMMA DropConnectionKeeps ==
    ASSUME CallsInv, DropConnection, UNCHANGED <<sessionVars, seatVars, faults, host>>
    PROVE  CallsInv'
  <1> DEFINE i == Head(queue)
  <1>1. /\ CallsTypeOK /\ Range(queue) = Connected
    BY DEF CallsInv, TypeOK, CallsTypeOK, Connected
  <1>2. queue # << >> /\ Served /\ UNCHANGED outcome BY DEF DropConnection, Serving
  <1>3. i \in DOMAIN calls /\ i \in Connected BY <1>1, <1>2, HeadInDomain
  <1>4. /\ queue' \in Seq(Calls) /\ Range(queue') = Connected \ {i}
        /\ ServesTheFirst' /\ stage' \in {"read", "resize", "respond"}
    BY <1>1, <1>2, ServedQueue
  <1>5. CASE calls[i].at = "hungup" /\ Forget(i)
    <2>1. CallLeaves(i) /\ i \notin DOMAIN calls' /\ Connected' = Connected \ {i}
      BY <1>3, <1>5, ForgetLeaves
    <2>2. CallsTypeOK' BY <1>1, <1>2, <1>3, <1>4, <2>1, LeavingType DEF CallsTypeOK
    <2>3. ~Waits(i) BY <1>3, <1>5, WaitingIsAlive DEF CallerAlive
    <2>4. HostMoves(i) BY <2>3 DEF HostMoves, CallsInv, TypeOK
    <2> HIDE DEF i
    <2> QED BY <1>3, <1>4, <2>1, <2>2, <2>4, LeavingKeeps DEF seatVars
  <1>6. CASE calls[i].at = "dialed" /\ Reaches(i, "closed")
    <2>1. CallLeaves(i) /\ Connected' = Connected \ {i}
      BY <1>3, <1>6, ReachesLeaves DEF Points
    <2>2. CallsTypeOK' BY <1>1, <1>2, <1>3, <1>4, <2>1, LeavingType DEF CallsTypeOK
    <2> HIDE DEF i
    <2> QED BY <1>3, <1>4, <1>6, <2>2, AdvancingKeeps DEF seatVars
  <1> QED BY <1>5, <1>6 DEF DropConnection

LEMMA RespondKeeps ==
    ASSUME CallsInv, Respond
    PROVE  CallsInv'
  <1> DEFINE i == Head(queue)
  <1>1. /\ CallsTypeOK /\ ServesTheFirst /\ Range(queue) = Connected
    BY DEF CallsInv, TypeOK, CallsTypeOK, Connected
  <1>2. /\ queue # << >> /\ Served /\ Forget(i)
        /\ UNCHANGED <<sessionVars, outcome, seatVars, faults>>
    BY <1>1 DEF Respond, ServesTheFirst
  <1>3. i \in DOMAIN calls BY <1>1, <1>2, HeadInDomain
  <1>4. /\ queue' \in Seq(Calls) /\ Range(queue') = Connected \ {i}
        /\ ServesTheFirst' /\ stage' \in {"read", "resize", "respond"}
    BY <1>1, <1>2, ServedQueue
  <1>5. CallLeaves(i) /\ i \notin DOMAIN calls' /\ Connected' = Connected \ {i}
    BY <1>2, <1>3, ForgetLeaves
  <1>6. CallsTypeOK' BY <1>1, <1>2, <1>3, <1>4, <1>5, LeavingType DEF CallsTypeOK
  <1>7. HostMoves(i)
    <2>1. CASE CallerAlive(i)
      <3>1. Reported(i, outcome) BY <2>1 DEF Respond
      <3>2. outcome \in Answer BY <1>1 DEF CallsTypeOK
      <3> QED BY <1>3, <3>1, <3>2, ReportedMoves
    <2>2. CASE ~CallerAlive(i)
      <3>1. host' = host BY <2>2 DEF Respond
      <3>2. ~Waits(i) BY <1>3, <2>2, WaitingIsAlive
      <3> QED BY <3>1, <3>2 DEF HostMoves, CallsInv, TypeOK
    <2> QED BY <2>1, <2>2
  <1> HIDE DEF i
  <1> QED BY <1>2, <1>3, <1>4, <1>5, <1>6, <1>7, LeavingKeeps DEF seatVars

-----------------------------------------------------------------------------
(***************************************************************************)
(* The agent serves the first connection: no call and no command changes.  *)
(***************************************************************************)
LEMMA ServingKeeps ==
    ASSUME CallsInv, UNCHANGED <<calls, queue, host>>, CallsTypeOK', ServesTheFirst',
           \A m \in Commands : NamedRevision(m)' /\ (host[m].pc = "idle" => acted'[m] = 0)
    PROVE  CallsInv'
  <1>1. TypeOK' BY DEF CallsInv, TypeOK
  <1>2. ASSUME NEW m \in Commands PROVE CommandSound(m)'
    <2>1. CommandSound(m) BY DEF CallsInv
    <2>2. WaitsForItsCall(m)'
      BY <2>1 DEF CommandSound, WaitsForItsCall, Current, CallerAlive
    <2> QED BY <2>1, <2>2 DEF CommandSound
  <1>3. ASSUME NEW j \in DOMAIN calls'
        PROVE  CallSound(j)' /\ CarriesNamed(calls'[j].request, host'[j[1]].named)
    BY DEF CallsInv, CallSound, Unharmed, Waits
  <1> QED BY <1>1, <1>2, <1>3 DEF CallsInv

LEMMA AnswerTypes ==
    ASSUME rev' \in Nat, live' \subseteq Nat
    PROVE  Success \in Answer /\ Failure \in Answer
  BY DEF Success, Failure, Answer

LEMMA SessionStep ==
    ASSUME CallsTypeOK, \/ Opens \/ \E h \in live : Disappears(h) \/ Alters(h)
                        \/ UNCHANGED sessionVars
    PROVE  /\ rev' \in Nat /\ given' \in Nat /\ live' \subseteq 1 .. given' /\ live' \subseteq Nat
  <1>1. /\ rev \in Nat /\ given \in Nat /\ live \subseteq 1 .. given BY DEF CallsTypeOK
  <1>2. CASE Opens BY <1>1, <1>2 DEF Opens, Rises
  <1>3. CASE \E h \in live : Disappears(h) \/ Alters(h)
    <2>1. /\ rev' = rev + 1 /\ given' = given
          /\ (live' = live \/ \E h \in live : live' = live \ {h})
      BY <1>3 DEF Disappears, Alters, Rises
    <2>2. live' \subseteq live BY <2>1
    <2> QED BY <1>1, <2>1, <2>2
  <1>4. CASE UNCHANGED sessionVars BY <1>1, <1>4 DEF sessionVars
  <1> QED BY <1>2, <1>3, <1>4

\* A step of the agent on the first connection, whose request and command are
\* given: what the seat and the records of revisions come to.
LEMMA HandleKeeps ==
    ASSUME CallsInv, Handle, UNCHANGED host
    PROVE  CallsInv'
  <1> DEFINE i == Head(queue)
             m == i[1]
             request == calls[i].request
  <1>1. /\ CallsTypeOK /\ ServesTheFirst BY DEF CallsInv, TypeOK
  <1>2. /\ stage = "read" /\ queue # << >> /\ calls[i].at \in {"sent", "abandoned"}
        /\ UNCHANGED <<calls, queue>>
    BY DEF Handle, Serving
  <1>3. i \in DOMAIN calls BY <1>1, <1>2, HeadInDomain
  <1>4. m \in Commands /\ request \in Request /\ host[m] \in Command
    BY <1>3, CallIdentity DEF ACall
  <1>5. CarriesNamed(request, host[m].named) BY <1>3 DEF CallsInv
  <1>6. host[m].pc # "idle"
    <2>1. i[2] \in 1 .. host[m].n BY <1>3 DEF CallsInv, CallSound
    <2>2. host[m].pc = "idle" => host[m] = Idle(host[m].kind)
      BY <1>4 DEF CallsInv, CommandSound
    <2>3. Idle(host[m].kind).n = 0 BY DEF Idle
    <2> QED BY <2>1, <2>2, <2>3
  <1>7. \/ HandleSeat(m, request) \/ HandleSnapshot(request) \/ HandleWindow(m, request)
        \/ HandleResize(m, request) \/ HandleRefused(request) \/ HandleFails
    BY DEF Handle
  <1> HIDE DEF m, request
  <1>8. /\ CallsTypeOK'
        /\ (stage' = "respond" \/ (stage' = "resize" /\ request.op = "resize"))
        /\ \/ acted' = acted
           \/ /\ acted' = [acted EXCEPT ![m] = rev]
              /\ request.op \in WindowOps /\ request.rev = rev
    <2>1. ASSUME /\ rev' \in Nat /\ given' \in Nat /\ live' \subseteq 1 .. given'
                 /\ held' \subseteq (Keys \cup {Shift}) \X Commands
                 /\ lifted' \subseteq (Keys \cup {Shift}) \X Commands
                 /\ typed' \in [Commands -> Seq(Keys \X BOOLEAN \X BOOLEAN)]
                 /\ acted' \in [Commands -> Nat] /\ faults' \in 0 .. MaxFaults
                 /\ stage' \in {"read", "resize", "respond"} /\ outcome' \in Answer
          PROVE  CallsTypeOK'
      BY <1>1, <1>2, <2>1 DEF CallsTypeOK
    <2>2. /\ rev \in Nat /\ live \subseteq 1 .. given /\ given \in Nat
          /\ held \subseteq (Keys \cup {Shift}) \X Commands
          /\ lifted \subseteq (Keys \cup {Shift}) \X Commands
          /\ typed \in [Commands -> Seq(Keys \X BOOLEAN \X BOOLEAN)]
          /\ acted \in [Commands -> Nat] /\ faults \in 0 .. MaxFaults /\ outcome \in Answer
      BY <1>1 DEF CallsTypeOK
    <2>3. Fault => faults' \in 0 .. MaxFaults BY FaultType
    <2>4. live \subseteq Nat BY <2>2
    <2>5. UNCHANGED sessionVars => Success \in Answer /\ Failure \in Answer
      BY <2>2, <2>4, AnswerTypes DEF sessionVars
    <2>6. CASE HandleSeat(m, request)
      <3>1. /\ request.op \in SeatOps /\ Inject(m, request) /\ UNCHANGED <<sessionVars, acted>>
            /\ \/ Answers(Success) /\ UNCHANGED faults
               \/ Answers(Failure) /\ Fault
        BY <2>6 DEF HandleSeat
      <3>2. /\ held' \subseteq (Keys \cup {Shift}) \X Commands
            /\ lifted' \subseteq (Keys \cup {Shift}) \X Commands
            /\ typed' \in [Commands -> Seq(Keys \X BOOLEAN \X BOOLEAN)]
        <4>1. CASE request.op = "press"
          <5> DEFINE key == request.key
                     c == <<key, Shifted, Meddled(m)>>
          <5>1. key \in Keys \cup {Shift} BY <1>4, <4>1, RequestFields
          <5>2. /\ held' = held \cup {<<key, m>>} /\ lifted' = lifted \ {<<key, m>>}
                /\ typed' = IF key = Shift THEN typed ELSE [typed EXCEPT ![m] = Append(@, c)]
            BY <3>1, <4>1 DEF Inject
          <5>3. CASE key = Shift BY <1>4, <2>2, <5>1, <5>2, <5>3
          <5>4. CASE key # Shift
            <6>1. c \in Keys \X BOOLEAN \X BOOLEAN BY <5>1, <5>4 DEF Shifted, Meddled
            <6> HIDE DEF c
            <6>2. Append(typed[m], c) \in Seq(Keys \X BOOLEAN \X BOOLEAN) BY <1>4, <2>2, <6>1
            <6> QED BY <1>4, <2>2, <5>1, <5>2, <5>4, <6>2
          <5> QED BY <5>3, <5>4
        <4>2. CASE request.op = "release"
          <5>1. /\ held' = {h \in held : h[1] # request.key} /\ typed' = typed
                /\ lifted' = (lifted \cup {h \in held : h[1] = request.key}) \ {<<request.key, m>>}
            BY <3>1, <4>2 DEF Inject
          <5> QED BY <2>2, <5>1
        <4>3. CASE request.op = "motion" BY <2>2, <3>1, <4>3 DEF Inject
        <4> QED BY <3>1, <4>1, <4>2, <4>3 DEF SeatOps
      <3>3. /\ outcome' \in Answer /\ stage' = "respond" /\ faults' \in 0 .. MaxFaults
        BY <2>2, <2>3, <2>5, <3>1 DEF Answers
      <3>4. rev' = rev /\ live' = live /\ given' = given /\ acted' = acted
        BY <3>1 DEF sessionVars
      <3> QED BY <2>1, <2>2, <3>2, <3>3, <3>4
    <2>7. CASE HandleSnapshot(request)
      BY <2>1, <2>2, <2>5, <2>7 DEF HandleSnapshot, sessionVars, seatVars, Answers
    <2>8. CASE HandleWindow(m, request)
      <3>1. /\ request.op \in {"window", "close"} /\ request.rev = rev /\ request.window \in live
            /\ acted' = [acted EXCEPT ![m] = rev] /\ UNCHANGED <<held, lifted, typed, faults>>
            /\ outcome' = Success /\ stage' = "respond"
        BY <2>8 DEF HandleWindow, Applies, Answers
      <3>2. Alters(request.window) \/ UNCHANGED sessionVars BY <2>8 DEF HandleWindow
      <3>3. rev' \in Nat /\ given' \in Nat /\ live' \subseteq 1 .. given' /\ live' \subseteq Nat
        BY <1>1, <3>1, <3>2, SessionStep
      <3>4. Success \in Answer BY <3>3, AnswerTypes
      <3>5. acted' \in [Commands -> Nat] BY <1>4, <2>2, <3>1
      <3> QED BY <2>1, <2>2, <3>1, <3>3, <3>4, <3>5 DEF WindowOps
    <2>9. CASE HandleResize(m, request)
      <3>1. /\ request.op = "resize" /\ request.rev = rev
            /\ acted' = [acted EXCEPT ![m] = rev] /\ stage' = "resize"
            /\ UNCHANGED <<sessionVars, held, lifted, typed, outcome, faults>>
        BY <2>9 DEF HandleResize, Applies
      <3>2. acted' \in [Commands -> Nat] BY <1>4, <2>2, <3>1
      <3> QED BY <2>1, <2>2, <3>1, <3>2 DEF WindowOps, sessionVars
    <2>10. CASE HandleRefused(request)
      BY <2>1, <2>2, <2>5, <2>10 DEF HandleRefused, sessionVars, seatVars, Answers
    <2>11. CASE HandleFails
      BY <2>1, <2>2, <2>3, <2>5, <2>11 DEF HandleFails, sessionVars, seatVars, Answers
    <2> QED BY <1>7, <2>6, <2>7, <2>8, <2>9, <2>10, <2>11
  <1>9. ServesTheFirst' BY <1>1, <1>2, <1>8 DEF ServesTheFirst, request
  <1>10. ASSUME NEW c \in Commands
         PROVE  NamedRevision(c)' /\ (host[c].pc = "idle" => acted'[c] = 0)
    <2>1. /\ NamedRevision(c) /\ CommandSound(c) BY DEF CallsInv
    <2>2. host'[c] = host[c]
      OBVIOUS
    <2>3. acted'[c] = acted[c] \/ (c = m /\ acted'[c] = request.rev /\ request.op \in WindowOps)
      BY <1>1, <1>4, <1>8 DEF CallsTypeOK
    <2>4. host[c].named # 0 => acted'[c] \in {0, host[c].named}
      BY <1>5, <2>1, <2>3 DEF NamedRevision, CarriesNamed
    <2> QED BY <1>6, <2>1, <2>2, <2>3, <2>4 DEF NamedRevision, CommandSound
  <1> QED BY <1>2, <1>8, <1>9, <1>10, ServingKeeps

LEMMA ResizeKeeps ==
    ASSUME CallsInv, ResizeCommitted \/ ResizeEnds, UNCHANGED host
    PROVE  CallsInv'
  <1>1. /\ CallsTypeOK /\ ServesTheFirst BY DEF CallsInv, TypeOK
  <1>2. /\ stage = "resize" /\ stage' = "respond"
        /\ UNCHANGED <<calls, queue, held, lifted, typed, acted, faults>>
        /\ outcome' \in {Success, Failure}
    BY DEF ResizeCommitted, ResizeEnds, Answers, seatVars
  <1>3. /\ rev' \in Nat /\ given' \in Nat /\ live' \subseteq 1 .. given' /\ live' \subseteq Nat
    <2>1. (\E h \in live : Alters(h)) \/ UNCHANGED sessionVars
      BY DEF ResizeCommitted, ResizeEnds
    <2> QED BY <1>1, <2>1, SessionStep
  <1>4. outcome' \in Answer BY <1>2, <1>3, AnswerTypes
  <1>5. CallsTypeOK' BY <1>1, <1>2, <1>3, <1>4 DEF CallsTypeOK
  <1>6. ServesTheFirst' BY <1>1, <1>2 DEF ServesTheFirst
  <1>7. \A m \in Commands : NamedRevision(m)' /\ (host[m].pc = "idle" => acted'[m] = 0)
    BY <1>2 DEF CallsInv, NamedRevision, CommandSound
  <1> QED BY <1>2, <1>5, <1>6, <1>7, ServingKeeps

LEMMA ApplicationKeeps ==
    ASSUME CallsInv, ApplicationStep, UNCHANGED host
    PROVE  CallsInv'
  <1>1. /\ CallsTypeOK /\ ServesTheFirst BY DEF CallsInv, TypeOK
  <1>2. UNCHANGED <<calls, queue, stage, outcome, held, lifted, typed, acted, faults>>
    BY DEF ApplicationStep, callVars, seatVars
  <1>3. /\ rev' \in Nat /\ given' \in Nat /\ live' \subseteq 1 .. given' /\ live' \subseteq Nat
    <2>1. Opens \/ \E h \in live : Disappears(h) \/ Alters(h) BY DEF ApplicationStep
    <2> QED BY <1>1, <2>1, SessionStep
  <1>4. CallsTypeOK' BY <1>1, <1>2, <1>3 DEF CallsTypeOK
  <1>5. ServesTheFirst' BY <1>1, <1>2 DEF ServesTheFirst
  <1>6. \A m \in Commands : NamedRevision(m)' /\ (host[m].pc = "idle" => acted'[m] = 0)
    BY <1>2 DEF CallsInv, NamedRevision, CommandSound
  <1> QED BY <1>2, <1>4, <1>5, <1>6, ServingKeeps

-----------------------------------------------------------------------------
(***************************************************************************)
(* The steps of a command that change no call but its own next one.        *)
(***************************************************************************)
\* Only the command m changes, and nothing of the calls or the session.
LEMMA CommandKeeps ==
    ASSUME CallsInv, NEW m \in Commands, NEW g \in Command,
           host' = [host EXCEPT ![m] = g],
           UNCHANGED <<sessionVars, callVars, seatVars>>, faults' \in 0 .. MaxFaults,
           host[m].pc \in {"idle", "ready", "waiting"},
           g.n = host[m].n, g.pc \in {"ready", "done", "killed"},
           g.pc = "ready" => g.todo # << >>, TodoNamed(g),
           \/ g.named = host[m].named /\ (host[m].pc = "waiting" => g.pc = "killed")
           \/ host[m].pc = "idle",
           g.ok /\ g.pc # "killed" => host[m].ok
    PROVE  CallsInv'
  <1>1. /\ CallsTypeOK /\ ServesTheFirst /\ host \in [Commands -> Command]
    BY DEF CallsInv, TypeOK
  <1>2. UNCHANGED <<calls, queue, stage, outcome, rev, live, given, held, lifted, typed, acted>>
    BY DEF sessionVars, callVars, seatVars
  <1>3. /\ host' \in [Commands -> Command] /\ host'[m] = g
        /\ \A c \in Commands : c # m => host'[c] = host[c]
    BY <1>1
  <1>4. TypeOK' /\ ServesTheFirst'
    BY <1>1, <1>2, <1>3 DEF TypeOK, CallsTypeOK, ServesTheFirst
  <1>5. host[m].pc = "idle" => acted[m] = 0 /\ host[m].n = 0
    <2>1. host[m].pc = "idle" => host[m] = Idle(host[m].kind) /\ acted[m] = 0
      BY DEF CallsInv, CommandSound
    <2>2. Idle(host[m].kind).n = 0 BY DEF Idle
    <2> QED BY <2>1, <2>2
  <1>6. ASSUME NEW c \in Commands PROVE CommandSound(c)' /\ NamedRevision(c)'
    <2>0. CommandSound(c) /\ NamedRevision(c) BY DEF CallsInv
    <2>1. CASE c = m
      <3>1. CommandSound(c)' BY <1>3, <2>1 DEF CommandSound, WaitsForItsCall
      <3>2. NamedRevision(c)' BY <1>2, <1>3, <1>5, <2>0, <2>1 DEF NamedRevision
      <3> QED BY <3>1, <3>2
    <2>2. CASE c # m
      <3>1. host'[c] = host[c] BY <1>3, <2>2
      <3> QED BY <1>2, <2>0, <3>1
            DEF CommandSound, NamedRevision, WaitsForItsCall, Current, CallerAlive
    <2> QED BY <2>1, <2>2
  <1>7. ASSUME NEW j \in DOMAIN calls'
        PROVE  CallSound(j)' /\ CarriesNamed(calls'[j].request, host'[j[1]].named)
    <2>1. /\ j \in DOMAIN calls /\ calls'[j] = calls[j] BY <1>2
    <2>2. CallSound(j) /\ CarriesNamed(calls[j].request, host[j[1]].named)
      BY <2>1 DEF CallsInv
    <2>3. j[1] \in Commands BY <2>1, CallIdentity
    <2>4. CASE j[1] = m
      <3>1. host[m].pc # "idle" BY <1>5, <2>2, <2>4 DEF CallSound
      <3>2. ~(g.ok /\ g.pc # "killed") BY <2>2, <2>4, <3>1 DEF CallSound, Unharmed, Waits
      <3> QED BY <1>3, <2>1, <2>2, <2>4, <3>1, <3>2 DEF CallSound, Unharmed
    <2>5. CASE j[1] # m
      <3>1. host'[j[1]] = host[j[1]] BY <1>3, <2>3, <2>5
      <3> QED BY <2>1, <2>2, <3>1 DEF CallSound, Unharmed, Waits
    <2> QED BY <2>4, <2>5
  <1> QED BY <1>4, <1>6, <1>7 DEF CallsInv

LEMMA KilledKeeps ==
    ASSUME CallsInv, NEW m \in Commands, Killed(m)
    PROVE  CallsInv'
  <1> DEFINE g == [host[m] EXCEPT !.pc = "killed"]
  <1>1. host[m] \in Command /\ TodoNamed(host[m]) BY DEF CallsInv, TypeOK, NamedRevision
  <1>2. /\ host' = [host EXCEPT ![m] = g] /\ Fault
        /\ UNCHANGED <<sessionVars, callVars, seatVars>>
    BY <1>1 DEF Killed
  <1>6. host[m].pc \in {"ready", "waiting"} BY DEF Killed
  <1>3. /\ g \in Command /\ g.n = host[m].n /\ g.pc = "killed" /\ g.named = host[m].named
        /\ g.todo = host[m].todo
    BY <1>1 DEF Command
  <1> HIDE DEF g
  <1>4. TodoNamed(g) BY <1>1, <1>3 DEF TodoNamed
  <1>5. faults' \in 0 .. MaxFaults BY <1>2, FaultType
  <1> QED BY <1>2, <1>3, <1>4, <1>5, <1>6, CommandKeeps

LEMMA RecordedType ==
    ASSUME NEW h \in Command, h.todo # << >>
    PROVE  Recorded(h) \in Seq(Keys \cup {Shift})
  <1>1. h.todo \in Seq(Request) /\ h.pressed \in Seq(Keys \cup {Shift}) BY DEF Command
  <1>2. Head(h.todo) \in Request BY <1>1
  <1>3. Head(h.todo).op = "press" => Head(h.todo).key \in Keys \cup {Shift}
    BY <1>2, RequestFields
  <1> QED BY <1>1, <1>3 DEF Recorded

LEMMA ExecFailsKeeps ==
    ASSUME CallsInv, NEW m \in Commands, ExecFails(m)
    PROVE  CallsInv'
  <1> DEFINE h == host[m]
             r == [h EXCEPT !.pressed = Recorded(h)]
             g == Fails(r)
  <1>1. h \in Command /\ TodoNamed(h) BY DEF CallsInv, TypeOK, NamedRevision
  <1>2. /\ h.pc = "ready" /\ Fault /\ UNCHANGED <<sessionVars, callVars, seatVars>>
        /\ host' = [host EXCEPT ![m] = g]
    BY DEF ExecFails
  <1>3. h.todo # << >> BY <1>2 DEF CallsInv, CommandSound
  <1>4. /\ r \in Command /\ r.todo = h.todo /\ r.named = h.named /\ r.n = h.n
    BY <1>1, <1>3, RecordedType DEF Command
  <1>5. TodoNamed(r) BY <1>1, <1>4 DEF TodoNamed
  <1> HIDE DEF r
  <1>6. Follows(r, g) /\ ~g.ok /\ TodoNamed(g) BY <1>3, <1>4, <1>5, FailsFollows
  <1> HIDE DEF g
  <1>7. /\ g \in Command /\ g.n = h.n /\ g.named = h.named /\ g.pc \in {"ready", "done"}
        /\ g.pc = "ready" => g.todo # << >>
    BY <1>4, <1>6 DEF Follows
  <1>8. faults' \in 0 .. MaxFaults BY <1>2, FaultType
  <1> QED BY <1>2, <1>6, <1>7, <1>8, CommandKeeps

\* A command begins with calls that carry no revision.
LEMMA FirstCallsType ==
    ASSUME NEW h \in Command
    PROVE  /\ FirstCalls(h) \in Seq(Request) /\ FirstCalls(h) # << >>
           /\ \A j \in 1 .. Len(FirstCalls(h)) : FirstCalls(h)[j].op \notin WindowOps
  <1>1. h.kind \in Kinds /\ h.key \in Keys \cup {Shift} BY DEF Command
  <1>2. CASE h.kind \in Resolving \cup {"windows"}
    <2>1. FirstCalls(h) = <<[op |-> "snapshot"]>>
      BY <1>2 DEF FirstCalls, Raw, Resolving, WindowOps
    <2>2. [op |-> "snapshot"] \in Request BY DEF Request
    <2> QED BY <2>1, <2>2 DEF WindowOps
  <1>3. CASE h.kind = "tap"
    <2>1. FirstCalls(h) = <<Press(h.key), Release(h.key)>>
      BY <1>3 DEF FirstCalls, Raw, Resolving, WindowOps
    <2>2. Press(h.key) \in Request /\ Release(h.key) \in Request
      BY <1>1 DEF Press, Release, Request
    <2> QED BY <2>1, <2>2 DEF WindowOps, Press, Release
  <1>4. CASE h.kind \in Raw
    <2>1. FirstCalls(h) = <<[op |-> h.kind, key |-> h.key]>>
      BY <1>4 DEF FirstCalls, Raw, Resolving, WindowOps
    <2>2. [op |-> h.kind, key |-> h.key] \in Request BY <1>1, <1>4 DEF Raw, Request
    <2> QED BY <1>4, <2>1, <2>2 DEF WindowOps, Raw
  <1>5. CASE h.kind = "type"
    <2>1. FirstCalls(h) = Strokes(Text)
      BY <1>5 DEF FirstCalls, Raw, Resolving, WindowOps, Strokes
    <2>2. Text \in Characters /\ Text # << >> BY InteractionAssumption DEF Characters
    <2>3. FirstCalls(h) \in Seq(SeatRequest) /\ FirstCalls(h) # << >>
      BY <2>1, <2>2, TextLeads
    <2>4. SeatRequest \subseteq Request /\ \A r \in SeatRequest : r.op \notin WindowOps
      BY DEF SeatRequest, WindowOps
    <2> QED BY <2>3, <2>4
  <1> QED BY <1>1, <1>2, <1>3, <1>4, <1>5 DEF Kinds

LEMMA BeginsKeeps ==
    ASSUME CallsInv, NEW m \in Commands, NEW h \in Command, Begins(m, h),
           h.n = host[m].n, h.ok
    PROVE  CallsInv'
  <1> DEFINE g == [h EXCEPT !.pc = "ready", !.todo = FirstCalls(h)]
  <1>1. /\ host[m].pc = "idle" /\ host' = [host EXCEPT ![m] = g]
        /\ UNCHANGED <<sessionVars, callVars, seatVars, faults>>
    BY DEF Begins
  <1>2. /\ FirstCalls(h) \in Seq(Request) /\ FirstCalls(h) # << >>
        /\ \A j \in 1 .. Len(FirstCalls(h)) : FirstCalls(h)[j].op \notin WindowOps
    BY FirstCallsType
  <1>3. /\ g \in Command /\ g.n = h.n /\ g.pc = "ready" /\ g.todo = FirstCalls(h)
    BY <1>2 DEF Command
  <1> HIDE DEF g
  <1>4. TodoNamed(g) BY <1>2, <1>3 DEF TodoNamed, CarriesNamed
  <1>5. host[m].ok
    <2>1. host[m] = Idle(host[m].kind) BY <1>1 DEF CallsInv, CommandSound
    <2>2. Idle(host[m].kind).ok BY DEF Idle
    <2> QED BY <2>1, <2>2
  <1>6. faults' \in 0 .. MaxFaults BY <1>1 DEF CallsInv, TypeOK, CallsTypeOK
  <1> QED BY <1>1, <1>2, <1>3, <1>4, <1>5, <1>6, CommandKeeps

\* What a command is when it begins: its kind as before, and what the user named.
LEMMA StartBegins ==
    ASSUME CallsInv, NEW m \in Commands, Start(m)
    PROVE  \E h \in Command :
              /\ Begins(m, h) /\ h.pc = "idle" /\ h.n = host[m].n /\ h.kind = host[m].kind /\ h.ok
              /\ h.todo = << >> /\ h.pressed = << >> /\ ~h.cleaning
  <1> DEFINE old == host[m]
  <1>0. old \in Command BY DEF CallsInv, TypeOK
  <1>1. old.pc = "idle" => old = Idle(old.kind) BY DEF CallsInv, CommandSound
  <1>2. Idle(old.kind).ok /\ Idle(old.kind).todo = << >> /\ Idle(old.kind).pressed = << >>
        /\ ~Idle(old.kind).cleaning
    BY DEF Idle
  <1>3. CASE StartWindows(m) \/ StartType(m)
    <2>1. Begins(m, old) /\ old.kind \in {"windows", "type"}
      BY <1>3 DEF StartWindows, StartType
    <2>2. old.pc = "idle" BY <2>1 DEF Begins
    <2> QED BY <1>0, <1>1, <1>2, <2>1, <2>2
  <1>4. ASSUME NEW k \in Command, Naming(m, k), NEW key \in Keys \cup {Shift},
               k = [old EXCEPT !.key = key]
        PROVE  \E h \in Command :
                  /\ Begins(m, h) /\ h.pc = "idle" /\ h.n = host[m].n /\ h.kind = host[m].kind /\ h.ok
                  /\ h.todo = << >> /\ h.pressed = << >> /\ ~h.cleaning
        <2>1. PICK window \in 1 .. given, named \in {0, rev} :
            Begins(m, [k EXCEPT !.window = window, !.named = named])
      BY <1>4 DEF Naming
    <2> DEFINE h == [k EXCEPT !.window = window, !.named = named]
    <2>2. old.pc = "idle" BY <2>1 DEF Begins
    <2>3. window \in Nat /\ named \in Nat BY DEF CallsInv, TypeOK, CallsTypeOK
    <2>4. h \in Command BY <2>3, <1>4 DEF Command
    <2>5. /\ h.pc = old.pc /\ h.n = old.n /\ h.kind = old.kind /\ h.ok = old.ok
          /\ h.todo = old.todo /\ h.pressed = old.pressed /\ h.cleaning = old.cleaning
          /\ h.key = key
      BY <1>0, <1>4 DEF Command
    <2>6. Begins(m, h) BY <2>1
    <2> HIDE DEF h
    <2>7. old.ok /\ old.todo = << >> /\ old.pressed = << >> /\ ~old.cleaning
      BY <1>1, <1>2, <2>2
    <2> QED BY <2>2, <2>4, <2>5, <2>6, <2>7
  <1>5. CASE StartWindowOperation(m)
    <2>1. Naming(m, old) /\ old.kind \in WindowOps BY <1>5 DEF StartWindowOperation
    <2>2. old = [old EXCEPT !.key = old.key] /\ old.key \in Keys \cup {Shift}
      BY <1>0 DEF Command
    <2> HIDE DEF old
    <2> QED BY <1>0, <1>4, <2>1, <2>2
  <1>6. CASE StartClick(m)
    <2>1. PICK button \in Keys : Naming(m, [old EXCEPT !.key = button])
      BY <1>6 DEF StartClick
    <2> DEFINE k == [old EXCEPT !.key = button]
    <2>2. k \in Command BY <1>0 DEF Command
    <2> QED BY <1>4, <2>1, <2>2
  <1>7. ASSUME NEW key \in Keys \cup {Shift}, Begins(m, [old EXCEPT !.key = key])
        PROVE  \E h \in Command :
                  /\ Begins(m, h) /\ h.pc = "idle" /\ h.n = host[m].n /\ h.kind = host[m].kind /\ h.ok
                  /\ h.todo = << >> /\ h.pressed = << >> /\ ~h.cleaning
        <2> DEFINE h == [old EXCEPT !.key = key]
    <2>1. old.pc = "idle" BY <1>7 DEF Begins
    <2>2. h \in Command BY <1>0 DEF Command
    <2>3. /\ h.pc = old.pc /\ h.n = old.n /\ h.kind = old.kind /\ h.ok = old.ok
          /\ h.todo = old.todo /\ h.pressed = old.pressed /\ h.cleaning = old.cleaning
          /\ h.key = key
      BY <1>0 DEF Command
    <2>4. Begins(m, h) BY <1>7
    <2> HIDE DEF h
    <2>5. old.ok /\ old.todo = << >> /\ old.pressed = << >> /\ ~old.cleaning
      BY <1>1, <1>2, <2>1
    <2> QED BY <2>1, <2>2, <2>3, <2>4, <2>5
  <1>8. CASE StartTap(m) \/ StartRaw(m) BY <1>7, <1>8 DEF StartTap, StartRaw
  <1> QED BY <1>3, <1>5, <1>6, <1>8 DEF Start

LEMMA StartKeeps ==
    ASSUME CallsInv, NEW m \in Commands, Start(m)
    PROVE  CallsInv'
  BY StartBegins, BeginsKeeps

\* The next call of a command is one nobody has made.
LEMMA IssueFields ==
    ASSUME CallsInv, NEW m \in Commands, Issue(m)
    PROVE  /\ host[m].pc = "ready" /\ host[m] \in Command /\ host[m].todo # << >>
           /\ Head(host[m].todo) \in Request
           /\ host' \in [Commands -> Command]
           /\ \A c \in Commands : c # m => host'[c] = host[c]
           /\ host'[m] = [host[m] EXCEPT !.pc = "waiting", !.n = @ + 1,
                                         !.pressed = Recorded(host[m])]
           /\ Current(m)' = <<m, host[m].n + 1>> /\ Current(m)' \notin DOMAIN calls
           /\ DOMAIN calls' = DOMAIN calls \cup {Current(m)'}
           /\ \A j \in DOMAIN calls : calls'[j] = calls[j]
           /\ calls'[Current(m)'] = [request |-> Head(host[m].todo), at |-> "starting"]
           /\ \A j \in DOMAIN calls : j[1] = m => ~Unharmed(m)
  <1> DEFINE h == host[m]
             g == [h EXCEPT !.pc = "waiting", !.n = @ + 1, !.pressed = Recorded(h)]
             call == <<m, h.n + 1>>
  <1>0. host \in [Commands -> Command] /\ h \in Command BY DEF CallsInv, TypeOK
  <1>1. h.pc = "ready" BY DEF Issue
  <1>2. h.todo # << >> BY <1>1 DEF CallsInv, CommandSound
  <1>3. Head(h.todo) \in Request
    <2>1. h.todo \in Seq(Request) BY <1>0 DEF Command
    <2> QED BY <1>2, <2>1
  <1>4. h.n + 1 \in Nat BY <1>0 DEF Command
  <1>5. Recorded(h) \in Seq(Keys \cup {Shift}) BY <1>0, <1>2, RecordedType
  <1>6. g \in Command
    <2> DEFINE next == h.n + 1
               keys == Recorded(h)
    <2>1. g = [h EXCEPT !.pc = "waiting", !.n = next, !.pressed = keys] OBVIOUS
    <2>2. next \in Nat /\ keys \in Seq(Keys \cup {Shift}) BY <1>4, <1>5
    <2> HIDE DEF g, next, keys
    <2> QED BY <1>0, <2>1, <2>2 DEF Command
  <1>7. host' = [host EXCEPT ![m] = g]
    <2>1. host' = [host EXCEPT ![m].pc = "waiting", ![m].n = @ + 1, ![m].pressed = Recorded(host[m])]
      BY DEF Issue
    <2> QED BY <1>0, <2>1
  <1>8. g.n = h.n + 1 BY <1>0 DEF Command
  <1>9. calls' = [i \in DOMAIN calls \cup {call} |->
                    IF i = call THEN [request |-> Head(h.todo), at |-> "starting"] ELSE calls[i]]
    BY DEF Issue, Pending
  <1>10. ASSUME NEW j \in DOMAIN calls PROVE j # call /\ (j[1] = m => ~Unharmed(m))
    <2>1. CallSound(j) /\ h.n \in Nat BY <1>0 DEF CallsInv, Command
    <2> QED BY <1>1, <2>1 DEF CallSound, Unharmed, Waits
  <1> HIDE DEF g
  <1>11. host' \in [Commands -> Command] /\ host'[m] = g
         /\ \A c \in Commands : c # m => host'[c] = host[c]
    BY <1>0, <1>6, <1>7
  <1>12. Current(m)' = call BY <1>8, <1>11 DEF Current
  <1> HIDE DEF call
  <1>13. /\ DOMAIN calls' = DOMAIN calls \cup {call} /\ call \notin DOMAIN calls
         /\ \A j \in DOMAIN calls : calls'[j] = calls[j]
         /\ calls'[call] = [request |-> Head(h.todo), at |-> "starting"]
    BY <1>9, <1>10
  <1> QED BY <1>0, <1>1, <1>2, <1>3, <1>10, <1>11, <1>12, <1>13 DEF g, call

LEMMA IssueKeeps ==
    ASSUME CallsInv, NEW m \in Commands, Issue(m)
    PROVE  CallsInv'
  <1> DEFINE h == host[m]
             call == <<m, h.n + 1>>
             new == [request |-> Head(h.todo), at |-> "starting"]
  <1>1. /\ h.pc = "ready" /\ h \in Command /\ h.todo # << >> /\ Head(h.todo) \in Request
        /\ host' \in [Commands -> Command]
        /\ \A c \in Commands : c # m => host'[c] = host[c]
        /\ host'[m] = [h EXCEPT !.pc = "waiting", !.n = @ + 1, !.pressed = Recorded(h)]
        /\ Current(m)' = call /\ call \notin DOMAIN calls
        /\ DOMAIN calls' = DOMAIN calls \cup {call}
        /\ \A j \in DOMAIN calls : calls'[j] = calls[j]
        /\ calls'[call] = new
        /\ \A j \in DOMAIN calls : j[1] = m => ~Unharmed(m)
    BY IssueFields
  <1>2. /\ host'[m].pc = "waiting" /\ host'[m].n = h.n + 1 /\ host'[m].todo = h.todo
        /\ host'[m].named = h.named /\ host'[m].ok = h.ok /\ h.n \in Nat
    BY <1>1 DEF Command
  <1>3. /\ rev' = rev /\ live' = live /\ given' = given /\ queue' = queue /\ stage' = stage
        /\ outcome' = outcome /\ held' = held /\ lifted' = lifted /\ typed' = typed /\ acted' = acted
        /\ faults' = faults
    BY DEF Issue, sessionVars, seatVars
  <1>4. CallsTypeOK /\ ServesTheFirst BY DEF CallsInv, TypeOK
  <1>5. call \in Calls /\ call[1] = m /\ call[2] = h.n + 1 BY <1>1, <1>2 DEF Calls
  <1>6. new \in [request : Request, at : Points] /\ new.at = "starting"
        /\ new.request = Head(h.todo)
    BY <1>1 DEF Points
  <1>7. CommandSound(m) /\ NamedRevision(m) BY DEF CallsInv
  <1>8. h = host[m] OBVIOUS
  <1>9. h.todo \in Seq(Request) BY <1>1 DEF Command
  <1> HIDE DEF call, h, new
  <1>10. CallsTypeOK'
    <2>1. ASSUME NEW j \in DOMAIN calls' PROVE calls'[j] \in [request : Request, at : Points]
      <3>1. CASE j = call BY <1>1, <1>6, <3>1
      <3>2. CASE j # call BY <1>1, <1>4, <3>2 DEF CallsTypeOK
      <3> QED BY <3>1, <3>2
    <2>2. DOMAIN calls' \subseteq Calls BY <1>1, <1>4, <1>5 DEF CallsTypeOK
    <2>3. Range(queue) = {j \in DOMAIN calls' : calls'[j].at \notin {"starting", "closed"}}
      <3>1. Range(queue) = {j \in DOMAIN calls : calls[j].at \notin {"starting", "closed"}}
        BY <1>4 DEF CallsTypeOK
      <3>2. calls'[call].at = "starting" BY <1>1, <1>6
      <3> QED BY <1>1, <3>1, <3>2
    <2>4. Range(queue)' = Range(queue) BY <1>3 DEF Range
    <2> QED BY <1>3, <1>4, <2>1, <2>2, <2>3, <2>4 DEF CallsTypeOK
  <1>11. ServesTheFirst'
    <2>1. stage # "read" => Head(queue) \in DOMAIN calls
      BY <1>4, HeadInDomain DEF ServesTheFirst
    <2> QED BY <1>1, <1>3, <1>4, <2>1 DEF ServesTheFirst
  <1>12. ASSUME NEW c \in Commands PROVE CommandSound(c)' /\ NamedRevision(c)'
    <2>0. CommandSound(c) /\ NamedRevision(c) BY DEF CallsInv
    <2>1. CASE c = m
      <3>0. calls'[call].at = "starting" /\ calls'[call].request = Head(h.todo)
            /\ call \in DOMAIN calls'
        BY <1>1, <1>6
      <3>1. WaitsForItsCall(m)'
        <4>1. CallerAlive(Current(m))' BY <1>1, <3>0 DEF CallerAlive
        <4> QED BY <1>1, <1>2, <3>0, <4>1 DEF WaitsForItsCall
      <3>2. host'[m].todo # << >> BY <1>1, <1>2
      <3>3. CommandSound(m)' BY <1>2, <3>1, <3>2 DEF CommandSound
      <3>4. TodoNamed(host'[m]) BY <1>2, <1>7, <1>8 DEF NamedRevision, TodoNamed
      <3>5. NamedRevision(m)' BY <1>2, <1>3, <1>7, <1>8, <3>4 DEF NamedRevision
      <3> QED BY <2>1, <3>3, <3>5
    <2>2. CASE c # m
      <3>1. host'[c] = host[c] BY <1>1, <2>2
      <3>2. Current(c)' = Current(c) BY <3>1 DEF Current
      <3>3. WaitsForItsCall(c)'
        BY <1>1, <2>0, <3>1, <3>2 DEF CommandSound, WaitsForItsCall, CallerAlive
      <3> QED BY <1>3, <2>0, <3>1, <3>3 DEF CommandSound, NamedRevision
    <2> QED BY <2>1, <2>2
  <1>13. ASSUME NEW j \in DOMAIN calls'
        PROVE  CallSound(j)' /\ CarriesNamed(calls'[j].request, host'[j[1]].named)
    <2>1. CASE j = call
      <3>1. CallSound(j)' BY <1>2, <1>5, <2>1 DEF CallSound, Waits
      <3>2. TodoNamed(h) BY <1>7, <1>8 DEF NamedRevision
      <3>4. Head(h.todo) = h.todo[1] /\ 1 \in 1 .. Len(h.todo) BY <1>1, <1>9
      <3>5. CarriesNamed(Head(h.todo), h.named) BY <3>2, <3>4 DEF TodoNamed
      <3>6. calls'[j].request = Head(h.todo) /\ host'[j[1]].named = h.named
        BY <1>1, <1>2, <1>5, <1>6, <2>1
      <3> QED BY <3>1, <3>5, <3>6
    <2>2. CASE j # call
      <3>1. j \in DOMAIN calls /\ calls'[j] = calls[j] BY <1>1, <2>2
      <3>2. CallSound(j) /\ CarriesNamed(calls[j].request, host[j[1]].named)
        BY <3>1 DEF CallsInv
      <3>3. j[1] \in Commands BY <3>1, CallIdentity
      <3>4. CASE j[1] = m
        <4>1. ~host[m].ok BY <1>1, <1>8, <3>1, <3>4 DEF Unharmed
        <4> QED BY <1>2, <1>8, <3>1, <3>2, <3>4, <4>1 DEF CallSound, Unharmed
      <3>5. CASE j[1] # m
        <4>1. host'[j[1]] = host[j[1]] BY <1>1, <3>3, <3>5
        <4> QED BY <3>1, <3>2, <4>1 DEF CallSound, Unharmed, Waits
      <3> QED BY <3>4, <3>5
    <2> QED BY <2>1, <2>2
  <1>14. TypeOK' BY <1>1, <1>10 DEF TypeOK
  <1> QED BY <1>11, <1>12, <1>13, <1>14 DEF CallsInv

-----------------------------------------------------------------------------
(***************************************************************************)
(* The invariant is inductive.                                             *)
(***************************************************************************)
LEMMA CallsInitially == Init => CallsInv
  <1> SUFFICES ASSUME Init PROVE CallsInv OBVIOUS
  <1>1. /\ rev = 0 /\ live = {} /\ given = 0 /\ calls = << >> /\ queue = << >>
        /\ stage = "read" /\ outcome = Failure /\ held = {} /\ lifted = {} /\ faults = 0
        /\ typed = [m \in Commands |-> << >>] /\ acted = [m \in Commands |-> 0]
    BY DEF Init, CallsInit, SessionInit
  <1>2. PICK kind \in Scenarios : host = [m \in Commands |-> Idle(kind[m])] BY DEF Init
  <1>3. ASSUME NEW m \in Commands
        PROVE  /\ host[m] \in Command /\ host[m] = Idle(host[m].kind)
               /\ host[m].pc = "idle" /\ host[m].todo = << >> /\ host[m].named = 0
    <2> DEFINE k == kind[m]
    <2>1. k \in Kinds BY <1>2, InteractionAssumption
    <2>2. host[m] = Idle(k) BY <1>2
    <2> HIDE DEF k
    <2>3. Idle(k) \in Command BY <2>1 DEF Idle, Command
    <2>4. /\ Idle(k).kind = k /\ Idle(k).pc = "idle" /\ Idle(k).todo = << >>
          /\ Idle(k).named = 0
      BY DEF Idle
    <2> QED BY <2>2, <2>3, <2>4
  <1>4. host \in [Commands -> Command] BY <1>2, <1>3
  <1>5. DOMAIN calls = {} /\ Range(queue) = {} /\ Len(queue) = 0 BY <1>1 DEF Range
  <1>6. Failure \in Answer BY DEF Failure, Answer
  <1>7. CallsTypeOK
    <2>1. queue \in Seq(Calls) /\ live \subseteq 1 .. given BY <1>1
    <2>2. lifted = {} /\ typed \in [Commands -> Seq(Keys \X BOOLEAN \X BOOLEAN)] /\ acted \in [Commands -> Nat]
      BY <1>1
    <2>3. faults \in 0 .. MaxFaults BY <1>1, CallsAssumption
    <2> QED BY <1>1, <1>5, <1>6, <2>1, <2>2, <2>3 DEF CallsTypeOK
  <1>8. ServesTheFirst BY <1>1, <1>5 DEF ServesTheFirst, Once
  <1>9. ASSUME NEW m \in Commands PROVE CommandSound(m) /\ NamedRevision(m)
    <2>1. acted[m] = 0 BY <1>1
    <2>2. Len(host[m].todo) = 0 BY <1>3
    <2> QED BY <1>3, <2>1, <2>2
          DEF CommandSound, NamedRevision, TodoNamed, WaitsForItsCall
  <1> QED BY <1>4, <1>5, <1>7, <1>8, <1>9 DEF CallsInv, TypeOK

LEMMA CallsUnchanged ==
    ASSUME CallsInv, UNCHANGED vars
    PROVE  CallsInv'
  <1>1. UNCHANGED <<calls, queue, host, stage, outcome, rev, live, given, held, lifted, typed,
                    acted, faults>>
    BY DEF vars, sessionVars, callVars, seatVars
  <1>2. CallsTypeOK' BY <1>1 DEF CallsInv, TypeOK, CallsTypeOK
  <1>3. ServesTheFirst' BY <1>1 DEF CallsInv, ServesTheFirst
  <1>4. \A m \in Commands : NamedRevision(m)' /\ (host[m].pc = "idle" => acted'[m] = 0)
    BY <1>1 DEF CallsInv, NamedRevision, CommandSound
  <1> QED BY <1>1, <1>2, <1>3, <1>4, ServingKeeps

LEMMA CallsInductive == CallsInv /\ [Next]_vars => CallsInv'
  <1> SUFFICES ASSUME CallsInv, [Next]_vars PROVE CallsInv' OBVIOUS
  <1>1. ASSUME NEW m \in Commands, HostStep(m) PROVE CallsInv'
    BY <1>1, StartKeeps, IssueKeeps, HostGivesUpKeeps, ExecFailsKeeps, KilledKeeps
       DEF HostStep
  <1>2. ASSUME NEW i \in DOMAIN calls, CallStep(i) PROVE CallsInv'
    BY <1>2, DialKeeps, WriteRequestKeeps, CallerReadsEndKeeps, CallerGivesUpKeeps
       DEF CallStep
  <1>3. CASE AgentStep
    <2>1. CASE DropConnection /\ UNCHANGED <<sessionVars, seatVars, faults, host>>
      BY <2>1, DropConnectionKeeps
    <2>2. CASE Handle /\ UNCHANGED host BY <2>2, HandleKeeps
    <2>3. CASE (ResizeCommitted \/ ResizeEnds) /\ UNCHANGED host BY <2>3, ResizeKeeps
    <2>4. CASE Respond BY <2>4, RespondKeeps
    <2> QED BY <1>3, <2>1, <2>2, <2>3, <2>4 DEF AgentStep
  <1>4. CASE Looking /\ ApplicationStep /\ UNCHANGED host BY <1>4, ApplicationKeeps
  <1>5. CASE Finished \/ UNCHANGED vars BY <1>5, CallsUnchanged DEF Finished
  <1> QED BY <1>1, <1>2, <1>3, <1>4, <1>5 DEF Next

\* The commands, their calls and the agent's queue are what they are declared
\* to be, whatever fails and whoever gives up.
THEOREM InteractionTypeCorrect == Spec => []TypeOK
  <1>1. CallsInv => TypeOK BY DEF CallsInv
  <1> QED BY CallsInitially, CallsInductive, <1>1, PTL DEF Spec

\* An operation whose user named a revision (the --revision flag) reaches the
\* compositor at that revision or not at all, though the call that carries it
\* may outlive the command, wait behind others and be served after the session
\* has changed.
THEOREM NamedRevisionsActed == Spec => []ActsOnNamedRevision
  <1>1. CallsInv => ActsOnNamedRevision
    BY DEF CallsInv, NamedRevision, ActsOnNamedRevision
  <1> QED BY CallsInitially, CallsInductive, <1>1, PTL DEF Spec
-----------------------------------------------------------------------------
(***************************************************************************)
(* What one step of the system is for one command.                         *)
(***************************************************************************)
\* The agent has done what the call that m waits for asks.
Moved(m) == host[m].pc = "waiting" /\ stage = "respond" /\ Head(queue) = Current(m)

\* The command goes on without the call it made or was about to make.
Stumbles(h, g) ==
    /\ g \in Command /\ ~(g.ok /\ g.pc # "killed")
    /\ h.pc \in {"ready", "waiting"} /\ g.kind = h.kind /\ g.key = h.key
    /\ g.pressed \in {h.pressed, Recorded(h)}
    /\ g.todo \in {h.todo, Tail(h.todo), << >>, Releases(g.pressed)}

\* Nothing happens to the command.
Stays(m) ==
    /\ UNCHANGED <<host[m], held, lifted, typed>>
    /\ host[m].pc = "waiting" => (Moved(m)' <=> Moved(m)) /\ (Moved(m) => outcome' = outcome)

\* A call of some command presses, releases or moves.
Plays ==
    /\ Serving /\ UNCHANGED <<calls, queue, host>> /\ stage' = "respond"
    /\ HandleSeat(Head(queue)[1], calls[Head(queue)].request)

\* The call of m is served, and concerns no key.
IsServed(m) ==
    /\ UNCHANGED <<host[m], held, lifted, typed>>
    /\ host[m].pc = "waiting" /\ ~Moved(m) /\ Moved(m)'
    /\ outcome'.ok => Head(host[m].todo).op \in WindowOps \cup {"snapshot"}

HearsSuccess(m) ==
    /\ UNCHANGED <<held, lifted, typed>>
    /\ Moved(m) /\ outcome.ok /\ host'[m] = Succeeds(host[m], outcome)

HearsFailure(m) == UNCHANGED <<held, lifted, typed>> /\ Stumbles(host[m], host'[m])

StepOf(m) ==
    \/ Stays(m) \/ Plays \/ IsServed(m) \/ HearsSuccess(m) \/ HearsFailure(m)
    \/ Start(m) \/ Issue(m)

LEMMA FailsStumbles ==
    ASSUME NEW h \in Command, h.todo # << >>, h.pc \in {"ready", "waiting"}
    PROVE  Stumbles(h, Fails(h))
  <1> DEFINE next == AfterFailure(h)
             k == Continue(h, next)
             g == Fails(h)
  <1>0. h.todo \in Seq(Request) /\ h.pressed \in Seq(Keys \cup {Shift}) BY DEF Command
  <1>1. next \in {Tail(h.todo), << >>, Releases(h.pressed)} BY DEF AfterFailure
  <1>2. next \in Seq(Request)
    <2>1. Tail(h.todo) \in Seq(Request) /\ << >> \in Seq(Request) BY <1>0
    <2>2. Releases(h.pressed) \in Seq(Request) BY <1>0, ReleasesType
    <2> HIDE DEF next
    <2> QED BY <1>1, <2>1, <2>2
  <1> HIDE DEF next
  <1>3. Follows(h, k) /\ k.todo = next /\ k.pressed = h.pressed BY <1>2, ContinueFields
  <1>4. g = [k EXCEPT !.ok = FALSE, !.cleaning = TRUE] BY DEF Fails, next
  <1> HIDE DEF k, g
  <1>5. k \in Command /\ k.kind = h.kind /\ k.key = h.key BY <1>3 DEF Follows
  <1>6. g \in Command BY <1>4, <1>5 DEF Command
  <1>7. ~g.ok /\ g.kind = k.kind /\ g.key = k.key /\ g.pressed = k.pressed /\ g.todo = k.todo
    BY <1>4, <1>5 DEF Command
  <1> QED BY <1>1, <1>3, <1>5, <1>6, <1>7 DEF Stumbles, g

\* The queue's first call, once the agent is at work on it, is m's or another's.
LEMMA WorkIsOnTheFirst ==
    ASSUME CallsInv, NEW m \in Commands, host[m].pc = "waiting", stage = "respond"
    PROVE  /\ queue # << >> /\ Head(queue) \in DOMAIN calls
           /\ calls[Head(queue)].at \in {"sent", "abandoned"}
           /\ Moved(m) <=> Waits(Head(queue)) /\ Head(queue)[1] = m
  <1>1. queue # << >> /\ calls[Head(queue)].at \in {"sent", "abandoned"}
    BY DEF CallsInv, ServesTheFirst
  <1>2. Head(queue) \in DOMAIN calls BY <1>1, HeadInDomain DEF CallsInv, TypeOK
  <1>3. Head(queue) = <<Head(queue)[1], Head(queue)[2]>> BY <1>2, CallIdentity
  <1> QED BY <1>1, <1>2, <1>3 DEF Moved, Waits, Current

\* A step that touches neither the commands nor the agent's work.
LEMMA ElsewhereStays ==
    ASSUME CallsInv, UNCHANGED <<host, held, lifted, typed, stage, outcome>>,
           stage # "read" => Head(queue') = Head(queue)
    PROVE  \A m \in Commands : Stays(m)
  BY DEF Stays, Moved, Current

LEMMA CallStepOf ==
    ASSUME CallsInv, NEW i \in DOMAIN calls, CallStep(i), NEW m \in Commands
    PROVE  StepOf(m)
  <1>1. CASE (Dial(i) \/ WriteRequest(i)) /\ UNCHANGED <<sessionVars, seatVars, faults, host>>
    <2>1. UNCHANGED <<host, held, lifted, typed, stage, outcome>>
      BY <1>1 DEF Dial, WriteRequest, seatVars
    <2>2. stage # "read" => Head(queue') = Head(queue)
      <3>1. CASE queue' = queue BY <3>1
      <3>2. CASE queue' = Append(queue, i)
        <4>1. queue \in Seq(Calls) /\ i \in Calls /\ (stage # "read" => queue # << >>)
          BY CallIdentity DEF CallsInv, TypeOK, CallsTypeOK, ServesTheFirst, Calls
        <4> QED BY <3>2, <4>1, AppendQueue
      <3> QED BY <1>1, <3>1, <3>2 DEF Dial, WriteRequest
    <2> QED BY <2>1, <2>2, ElsewhereStays DEF StepOf
  <1>2. ASSUME Reported(i, Failure), UNCHANGED <<queue, stage, outcome, held, lifted, typed>>
        PROVE  StepOf(m)
    <2>1. host \in [Commands -> Command] BY DEF CallsInv, TypeOK
    <2>2. CASE Waits(i) /\ m = i[1]
      <3>1. host' = [host EXCEPT ![m] = Fails(host[m])] BY <1>2, <2>2 DEF Reported, Hears, Failure
      <3>2. host'[m] = Fails(host[m]) BY <2>1, <3>1
      <3>3. host[m] \in Command /\ host[m].todo # << >> /\ host[m].pc = "waiting"
        BY <2>2, CallIdentity DEF Waits
      <3>4. Stumbles(host[m], host'[m]) BY <3>2, <3>3, FailsStumbles
      <3> QED BY <1>2, <3>4 DEF StepOf, HearsFailure
    <2>3. CASE ~(Waits(i) /\ m = i[1])
      <3>1. host'[m] = host[m] BY <1>2, <2>1, <2>3 DEF Reported, Hears
      <3> QED BY <1>2, <3>1 DEF StepOf, Stays, Moved, Current
    <2> QED BY <2>2, <2>3
  <1>3. CASE CallerReadsEnd(i) BY <1>2, <1>3 DEF CallerReadsEnd, seatVars
  <1>4. CASE CallerGivesUp(i) BY <1>2, <1>4 DEF CallerGivesUp, seatVars
  <1> QED BY <1>1, <1>3, <1>4 DEF CallStep

LEMMA RespondOf ==
    ASSUME CallsInv, Respond, NEW m \in Commands
    PROVE  StepOf(m)
  <1> DEFINE i == Head(queue)
  <1>1. /\ stage = "respond" /\ stage' = "read" /\ UNCHANGED <<held, lifted, typed, outcome>>
    BY DEF Respond, Served, seatVars
  <1>2. host \in [Commands -> Command] BY DEF CallsInv, TypeOK
  <1>3. queue # << >> /\ i \in DOMAIN calls
    <2>1. queue # << >> BY <1>1 DEF CallsInv, ServesTheFirst
    <2> QED BY <2>1, HeadInDomain DEF CallsInv, TypeOK
  <1>4. CASE Waits(i) /\ i[1] = m
    <2>1. host[m] \in Command /\ host[m].todo # << >> /\ host[m].pc = "waiting"
      BY <1>3, <1>4, CallIdentity DEF Waits
    <2>2. Moved(m) BY <1>1, <1>4, <2>1, WorkIsOnTheFirst
    <2>3. CallerAlive(i) BY <1>3, <1>4, WaitingIsAlive
    <2>4. host' = [host EXCEPT ![m] = IF outcome.ok THEN Succeeds(host[m], outcome)
                                      ELSE Fails(host[m])]
      BY <1>4, <2>3 DEF Respond, Reported, Hears
    <2>5. host'[m] = IF outcome.ok THEN Succeeds(host[m], outcome) ELSE Fails(host[m])
      BY <1>2, <2>4
    <2>6. CASE outcome.ok BY <1>1, <2>2, <2>5, <2>6 DEF StepOf, HearsSuccess
    <2>7. CASE ~outcome.ok
      <3>1. Stumbles(host[m], host'[m]) BY <2>1, <2>5, <2>7, FailsStumbles
      <3> QED BY <1>1, <3>1 DEF StepOf, HearsFailure
    <2> QED BY <2>6, <2>7
  <1>5. CASE ~(Waits(i) /\ i[1] = m)
    <2>1. host'[m] = host[m] BY <1>2, <1>5 DEF Respond, Reported, Hears
    <2>2. host[m].pc = "waiting" => ~Moved(m) BY <1>1, <1>5, WorkIsOnTheFirst
    <2>3. ~Moved(m)' BY <1>1 DEF Moved
    <2> QED BY <1>1, <2>1, <2>2, <2>3 DEF StepOf, Stays
  <1> QED BY <1>4, <1>5

\* The agent turns from reading to an answer, and no key is concerned.
LEMMA ServedOf ==
    ASSUME CallsInv, stage # "respond", stage' = "respond",
           UNCHANGED <<host, held, lifted, typed, calls, queue>>, queue # << >>,
           outcome'.ok => calls[Head(queue)].request.op \in WindowOps \cup {"snapshot"},
           NEW m \in Commands
    PROVE  StepOf(m)
  <1>1. ~Moved(m) BY DEF Moved
  <1>2. CASE host[m].pc = "waiting" /\ Head(queue) = Current(m)
    <2>1. Moved(m)' BY <1>2 DEF Moved, Current
    <2>2. calls[Head(queue)].request = Head(host[m].todo)
      BY <1>2 DEF CallsInv, CommandSound, WaitsForItsCall
    <2> QED BY <1>1, <1>2, <2>1, <2>2 DEF StepOf, IsServed
  <1>3. CASE ~(host[m].pc = "waiting" /\ Head(queue) = Current(m))
    <2>1. ~Moved(m)' BY <1>3 DEF Moved, Current
    <2> QED BY <1>1, <2>1 DEF StepOf, Stays
  <1> QED BY <1>2, <1>3

LEMMA AgentStepOf ==
    ASSUME CallsInv, AgentStep, NEW m \in Commands
    PROVE  StepOf(m)
  <1>1. CASE DropConnection /\ UNCHANGED <<sessionVars, seatVars, faults, host>>
    <2>1. UNCHANGED <<host, held, lifted, typed, stage, outcome>> /\ stage = "read"
      BY <1>1 DEF DropConnection, Serving, Served, seatVars
    <2> QED BY <2>1, ElsewhereStays DEF StepOf
  <1>2. CASE Handle /\ UNCHANGED host
    <2> DEFINE c == Head(queue)[1]
               request == calls[Head(queue)].request
    <2>1. Serving /\ UNCHANGED <<calls, queue>> BY <1>2 DEF Handle
    <2>2. stage = "read" /\ queue # << >> BY <2>1 DEF Serving
    <2>3. CASE HandleSeat(c, request)
      <3>1. stage' = "respond" BY <2>3 DEF HandleSeat, Answers
      <3> QED BY <1>2, <2>1, <2>3, <3>1 DEF StepOf, Plays
    <2>4. CASE HandleSnapshot(request)
      <3>1. /\ request.op = "snapshot" /\ stage' = "respond" /\ UNCHANGED <<held, lifted, typed>>
        BY <2>4 DEF HandleSnapshot, Answers, seatVars
      <3> QED BY <1>2, <2>1, <2>2, <3>1, ServedOf
    <2>5. CASE HandleWindow(c, request)
      <3>1. /\ request.op \in WindowOps /\ stage' = "respond" /\ UNCHANGED <<held, lifted, typed>>
        BY <2>5 DEF HandleWindow, Answers, WindowOps
      <3> QED BY <1>2, <2>1, <2>2, <3>1, ServedOf
    <2>6. CASE HandleResize(c, request)
      <3>1. UNCHANGED <<host, held, lifted, typed, queue>> /\ stage' = "resize"
        BY <1>2, <2>1, <2>6 DEF HandleResize
      <3>2. ~Moved(m) /\ ~Moved(m)' BY <2>2, <3>1 DEF Moved
      <3> QED BY <3>1, <3>2 DEF StepOf, Stays
    <2>7. CASE HandleRefused(request) \/ HandleFails
      <3>1. stage' = "respond" /\ UNCHANGED <<held, lifted, typed>> /\ ~outcome'.ok
        BY <2>7 DEF HandleRefused, HandleFails, Answers, seatVars, Failure
      <3> QED BY <1>2, <2>1, <2>2, <3>1, ServedOf
    <2> QED BY <1>2, <2>3, <2>4, <2>5, <2>6, <2>7 DEF Handle
  <1>3. CASE (ResizeCommitted \/ ResizeEnds) /\ UNCHANGED host
    <2>1. /\ stage = "resize" /\ stage' = "respond" /\ UNCHANGED <<calls, queue, held, lifted, typed>>
      BY <1>3 DEF ResizeCommitted, ResizeEnds, Answers, seatVars
    <2>2. queue # << >> /\ calls[Head(queue)].request.op = "resize"
      BY <2>1 DEF CallsInv, ServesTheFirst
    <2> QED BY <1>3, <2>1, <2>2, ServedOf DEF WindowOps
  <1>4. CASE Respond BY <1>4, RespondOf
  <1> QED BY <1>1, <1>2, <1>3, <1>4 DEF AgentStep

LEMMA HostStepOf ==
    ASSUME CallsInv, NEW c \in Commands, HostStep(c), NEW m \in Commands
    PROVE  StepOf(m)
  <1>1. host \in [Commands -> Command] BY DEF CallsInv, TypeOK
  <1>2. /\ host[c] \in Command
        /\ host[c].pc \in {"ready", "waiting"} => host[c].todo # << >>
    BY <1>1 DEF CallsInv, CommandSound
  \* Whoever else acts, m stays as it is.
  <1>3. ASSUME NEW g, host' = [host EXCEPT ![c] = g],
               UNCHANGED <<held, lifted, typed, queue, stage, outcome>>, m # c
        PROVE  StepOf(m)
    <2>1. host'[m] = host[m] BY <1>1, <1>3
    <2>2. Moved(m)' <=> Moved(m) BY <1>3, <2>1 DEF Moved, Current
    <2> QED BY <1>3, <2>1, <2>2 DEF StepOf, Stays
  <1>4. CASE Start(c)
    <2>1. PICK h \in Command : Begins(c, h) BY <1>4, StartBegins
    <2>2. CASE m = c BY <1>4, <2>2 DEF StepOf
    <2>3. CASE m # c BY <1>3, <2>1, <2>3 DEF Begins, callVars, seatVars
    <2> QED BY <2>2, <2>3
  <1>5. CASE Issue(c)
    <2>1. CASE m = c BY <1>5, <2>1 DEF StepOf
    <2>2. CASE m # c
      <3>1. host'[m] = host[m] BY <1>5, <2>2, IssueFields
      <3>2. UNCHANGED <<held, lifted, typed, queue, stage, outcome>> BY <1>5 DEF Issue, seatVars
      <3>3. Moved(m)' <=> Moved(m) BY <3>1, <3>2 DEF Moved, Current
      <3> QED BY <3>1, <3>2, <3>3 DEF StepOf, Stays
    <2> QED BY <2>1, <2>2
  <1>6. ASSUME NEW g \in Command, host' = [host EXCEPT ![c] = g], Stumbles(host[c], g),
               UNCHANGED <<held, lifted, typed, queue, stage, outcome>>
        PROVE  StepOf(m)
    <2>1. CASE m = c
      <3>1. host'[m] = g BY <1>1, <1>6, <2>1
      <3> QED BY <1>6, <2>1, <3>1 DEF StepOf, HearsFailure
    <2>2. CASE m # c BY <1>3, <1>6, <2>2
    <2> QED BY <2>1, <2>2
  <1>7. CASE HostGivesUp(c)
    <2> DEFINE k == Continue(host[c], << >>)
               g == IF host[c].cleaning THEN [k EXCEPT !.ok = FALSE] ELSE Fails(host[c])
    <2>1. /\ host[c].pc = "waiting" /\ host' = [host EXCEPT ![c] = g]
          /\ UNCHANGED <<held, lifted, typed, queue, stage, outcome>>
      BY <1>7 DEF HostGivesUp, seatVars
    <2>2. Stumbles(host[c], g)
      <3>1. CASE host[c].cleaning
        <4>1. << >> \in Seq(Request) OBVIOUS
        <4>2. Follows(host[c], k) /\ k.todo = << >> /\ k.pressed = host[c].pressed
          BY <1>2, <4>1, ContinueFields
        <4>3. g = [k EXCEPT !.ok = FALSE] BY <3>1
        <4> HIDE DEF k, g
        <4>4. k \in Command /\ k.kind = host[c].kind /\ k.key = host[c].key
          BY <4>2 DEF Follows
        <4>5. g \in Command BY <4>3, <4>4 DEF Command
        <4>6. ~g.ok /\ g.kind = k.kind /\ g.key = k.key /\ g.pressed = k.pressed
              /\ g.todo = k.todo
          BY <4>3, <4>4 DEF Command
        <4> QED BY <2>1, <4>2, <4>4, <4>5, <4>6 DEF Stumbles
      <3>2. CASE ~host[c].cleaning BY <1>2, <2>1, <3>2, FailsStumbles
      <3> QED BY <3>1, <3>2
    <2> HIDE DEF g
    <2>3. g \in Command BY <2>2 DEF Stumbles
    <2> QED BY <1>6, <2>1, <2>2, <2>3
  <1>8. CASE ExecFails(c)
    <2> DEFINE r == [host[c] EXCEPT !.pressed = Recorded(host[c])]
               g == Fails(r)
    <2>1. /\ host[c].pc = "ready" /\ host' = [host EXCEPT ![c] = g]
          /\ UNCHANGED <<held, lifted, typed, queue, stage, outcome>>
      BY <1>8 DEF ExecFails, callVars, seatVars
    <2>2. /\ r \in Command /\ r.todo = host[c].todo /\ r.pressed = Recorded(host[c])
          /\ r.pc = host[c].pc /\ r.kind = host[c].kind /\ r.key = host[c].key
      BY <1>2, <2>1, RecordedType DEF Command
    <2> HIDE DEF r
    <2>3. Stumbles(r, g) /\ g.pressed = r.pressed
      <3>1. Stumbles(r, g) BY <1>2, <2>1, <2>2, FailsStumbles
      <3>2. g.pressed = r.pressed BY DEF Fails, Continue
      <3> QED BY <3>1, <3>2
    <2> HIDE DEF g
    <2>4. Stumbles(host[c], g) BY <2>2, <2>3 DEF Stumbles
    <2>5. g \in Command BY <2>4 DEF Stumbles
    <2> QED BY <1>6, <2>1, <2>4, <2>5
  <1>9. CASE Killed(c)
    <2> DEFINE g == [host[c] EXCEPT !.pc = "killed"]
    <2>1. /\ host[c].pc \in {"ready", "waiting"} /\ host' = [host EXCEPT ![c] = g]
          /\ UNCHANGED <<held, lifted, typed, queue, stage, outcome>>
      BY <1>9 DEF Killed, callVars, seatVars
    <2>2. /\ g \in Command /\ g.pc = "killed" /\ g.kind = host[c].kind /\ g.key = host[c].key
          /\ g.pressed = host[c].pressed /\ g.todo = host[c].todo
      BY <1>2 DEF Command
    <2> HIDE DEF g
    <2>3. Stumbles(host[c], g) BY <2>1, <2>2 DEF Stumbles
    <2> QED BY <1>6, <2>1, <2>2, <2>3
  <1> QED BY <1>4, <1>5, <1>7, <1>8, <1>9 DEF HostStep

LEMMA StepOfEach ==
    ASSUME CallsInv, [Next]_vars, NEW m \in Commands
    PROVE  StepOf(m)
  <1>1. ASSUME NEW c \in Commands, HostStep(c) PROVE StepOf(m) BY <1>1, HostStepOf
  <1>2. ASSUME NEW i \in DOMAIN calls, CallStep(i) PROVE StepOf(m) BY <1>2, CallStepOf
  <1>3. CASE AgentStep BY <1>3, AgentStepOf
  <1>4. CASE Looking /\ ApplicationStep /\ UNCHANGED host
    <2>1. UNCHANGED <<host, held, lifted, typed, stage, outcome, queue>>
      BY <1>4 DEF ApplicationStep, callVars, seatVars
    <2> QED BY <2>1, ElsewhereStays DEF StepOf
  <1>5. CASE Finished \/ UNCHANGED vars
    <2>1. UNCHANGED <<host, held, lifted, typed, stage, outcome, queue>>
      BY <1>5 DEF Finished, vars, callVars, seatVars
    <2> QED BY <2>1, ElsewhereStays DEF StepOf
  <1> QED BY <1>1, <1>2, <1>3, <1>4, <1>5 DEF Next

-----------------------------------------------------------------------------
(***************************************************************************)
(* What a command has down, and what its calls will do to it.              *)
(***************************************************************************)
LEMMA FrontKeeps ==
    ASSUME NEW S, NEW s \in Seq(S), s # << >>
    PROVE  /\ Front(s) \in Seq(S) /\ s = Append(Front(s), Last(s)) /\ Last(s) \in S
           /\ Range(Front(s)) \subseteq Range(s)
           /\ Range(s) = Range(Front(s)) \cup {Last(s)}
           /\ Once(s) => Range(Front(s)) = Range(s) \ {Last(s)}
  <1>1. PICK t \in Seq(S), x \in S : s = Append(t, x) BY SequenceEmptyOrAppend
  <1>2. /\ Last(s) = x /\ Front(s) = t /\ Range(s) = Range(t) \cup {x} BY <1>1, AppendQueue
  <1>3. ASSUME Once(s) PROVE x \notin Range(t)
    <2>1. /\ Len(s) = Len(t) + 1 /\ \A j \in 1 .. Len(t) : s[j] = t[j]
          /\ s[Len(t) + 1] = x /\ Len(t) \in Nat /\ DOMAIN t = 1 .. Len(t)
      BY <1>1
    <2>2. ASSUME NEW j \in 1 .. Len(t), t[j] = x PROVE FALSE
      <3>1. j \in 1 .. Len(s) /\ Len(t) + 1 \in 1 .. Len(s) /\ j # Len(t) + 1 BY <2>1
      <3>2. s[j] = s[Len(t) + 1] BY <2>1, <2>2
      <3> QED BY <1>3, <3>1, <3>2 DEF Once
    <2> QED BY <2>1, <2>2 DEF Range
  <1> QED BY <1>1, <1>2, <1>3

LEMMA LeadsFrom ==
    ASSUME NEW T, NEW s \in Seq(T), NEW a, NEW b, Leads(s, a, b)
    PROVE  a \in Effect /\ b \in Effect
  <1>1. Len(s) \in Nat BY LengthIsNatural
  <1>2. 0 \in 0 .. Len(s) /\ Len(s) \in 0 .. Len(s) BY <1>1
  <1> QED BY <1>2 DEF Leads

\* What each kind of command that owns its keys begins with.
LEMMA BeginningLeads ==
    ASSUME NEW h \in Command, h.kind \in Paired
    PROVE  \E e : /\ Leads(FirstCalls(h), [down |-> << >>, text |-> << >>], e)
                  /\ e.down = << >>
                  /\ h.kind = "type" => e.text = Text
  <1> DEFINE a == [down |-> << >>, text |-> << >>]
  <1>0. h.key \in Keys \cup {Shift} BY DEF Command
  <1>1. << >> \in Characters BY DEF Characters
  <1>2. CASE h.kind = "click"
    <2>1. FirstCalls(h) = <<[op |-> "snapshot"]>> BY <1>2 DEF FirstCalls, Raw, Resolving
    <2>2. a \in Effect
      <3>1. << >> \in Seq(Keys \cup {Shift}) /\ Once(<< >>) BY Nothing
      <3> QED BY <1>1, <3>1 DEF Effect, Characters
    <2>3. Does([op |-> "snapshot"], a, a) BY DEF Does
    <2>4. Leads(FirstCalls(h), a, a) BY <2>1, <2>2, <2>3, LeadsOne
    <2> QED BY <1>2, <2>4
  <1>3. CASE h.kind = "tap"
    <2>1. FirstCalls(h) = <<Press(h.key), Release(h.key)>>
      BY <1>3 DEF FirstCalls, Raw, Resolving, WindowOps
    <2> DEFINE u == IF h.key = Shift THEN << >>
                    ELSE Append(<< >>, <<h.key, Shift \in Range(<< >>)>>)
    <2>2. << >> # <<Shift>>
      <3>1. Len(<< >>) = 0 /\ Len(<<Shift>>) = 1 OBVIOUS
      <3> QED BY <3>1, Zenon
    <2>3. Leads(<<Press(h.key), Release(h.key)>>, a, [down |-> << >>, text |-> u])
      BY <1>0, <1>1, <2>2, PressReleaseLeads
    <2> HIDE DEF u
    <2> QED BY <1>3, <2>1, <2>3
  <1>4. CASE h.kind = "type"
    <2>1. FirstCalls(h) = Strokes(Text)
      BY <1>4 DEF FirstCalls, Raw, Resolving, WindowOps, Strokes
    <2>2. Text \in Characters /\ Text # << >> BY InteractionAssumption DEF Characters
    <2>3. Leads(FirstCalls(h), a, [down |-> << >>, text |-> Text]) BY <2>1, <2>2, TextLeads
    <2> QED BY <2>3
  <1> QED BY <1>2, <1>3, <1>4 DEF Paired

\* A click that found its window: motion, then the button down and up.
LEMMA ClickLeads ==
    ASSUME NEW key \in Keys \cup {Shift}, NEW t \in Characters
    PROVE  \E e : /\ Leads(<<[op |-> "motion"], Press(key), Release(key)>>,
                           [down |-> << >>, text |-> t], e)
                  /\ e.down = << >>
  <1> DEFINE a == [down |-> << >>, text |-> t]
             u == IF key = Shift THEN t ELSE Append(t, <<key, Shift \in Range(<< >>)>>)
             e == [down |-> << >>, text |-> u]
             pair == <<Press(key), Release(key)>>
  <1>1. a \in Effect
    <2>1. << >> \in Seq(Keys \cup {Shift}) /\ Once(<< >>) BY Nothing
    <2> QED BY <2>1 DEF Effect, Characters
  <1>2. Does([op |-> "motion"], a, a) BY DEF Does
  <1>3. Leads(<<[op |-> "motion"]>>, a, a) BY <1>1, <1>2, LeadsOne
  <1>4. << >> # <<Shift>>
    <2>1. Len(<< >>) = 0 /\ Len(<<Shift>>) = 1 OBVIOUS
    <2> QED BY <2>1, Zenon
  <1>5. pair \in Seq(SeatRequest) /\ Leads(pair, a, e) BY <1>4, PressReleaseLeads
  <1>6. /\ [op |-> "motion"] \in Request /\ Press(key) \in Request /\ Release(key) \in Request
    BY DEF Press, Release, Request
  <1>7. /\ <<[op |-> "motion"]>> \in Seq(Request) /\ pair \in Seq(Request)
        /\ <<[op |-> "motion"], Press(key), Release(key)>> = <<[op |-> "motion"]>> \o pair
    BY <1>6
  <1> HIDE DEF a, u, pair
  <1>8. Leads(<<[op |-> "motion"]>> \o pair, a, e) BY <1>3, <1>5, <1>7, LeadsOn
  <1>9. e.down = << >> OBVIOUS
  <1>10. Leads(<<[op |-> "motion"], Press(key), Release(key)>>, a, e)
    <2> HIDE DEF e
    <2> QED BY <1>7, <1>8
  <1> HIDE DEF e
  <1> QED BY <1>9, <1>10 DEF a

-----------------------------------------------------------------------------
(***************************************************************************)
(* The seat: what the commands that own their keys have down.              *)
(***************************************************************************)
\* The keys that m has down once what it waits for is done or before it began.
Now(m) ==
    IF host[m].pc = "waiting" /\ Head(host[m].todo).op = (IF Moved(m) THEN "release" ELSE "press")
    THEN Front(host[m].pressed) ELSE host[m].pressed

Left(m) == IF Moved(m) THEN Tail(host[m].todo) ELSE host[m].todo

Mine(m) == {q \in Keys \cup {Shift} : <<q, m>> \in held}

\* Its call failed, and it will hear so.
Doomed(m) == Moved(m) /\ ~outcome.ok

Typing(m) == host[m].kind = "type"

\* What is left to call takes up every key, and completes the text t that the
\* calls so far type with nobody else at the seat.
Completes(m) ==
    \E t, e : /\ Leads(Left(m), [down |-> Now(m), text |-> t], e)
              /\ e.down = << >>
              /\ Typing(m) => Renders(typed[m], t) /\ e.text = Text

SeatSound(m) ==
    host[m].kind \in Paired /\ Unharmed(m) /\ ~Doomed(m) =>
        /\ Mine(m) \subseteq Range(Now(m))
        /\ host[m].pc = "idle" => typed[m] = << >>
        /\ host[m].pc # "idle" => Completes(m)
        /\ host[m].pc = "done" => host[m].todo = << >>
        /\ host[m].pc = "waiting" /\ Head(host[m].todo).op = "press" =>
              host[m].pressed # << >> /\ Last(host[m].pressed) = Head(host[m].todo).key
        /\ host[m].pc = "waiting" /\ Head(host[m].todo).op = "snapshot" => host[m].pressed = << >>
        /\ Typing(m) /\ Shift \in Range(Now(m)) => <<Shift, m>> \in held \cup lifted

SeatInv ==
    /\ CallsInv
    /\ \A m \in Commands : SeatSound(m)

\* A key pressed in the text and at the seat.
LEMMA RendersNothing == Renders(<< >>, << >>)
  BY DEF Renders

LEMMA RendersOn ==
    ASSUME NEW p \in Seq(Keys \X BOOLEAN \X BOOLEAN), NEW t \in Characters, Renders(p, t),
           NEW key, NEW shifted, NEW wanted, NEW meddled, ~meddled => shifted = wanted
    PROVE  Renders(Append(p, <<key, shifted, meddled>>), Append(t, <<key, wanted>>))
  <1> DEFINE q == Append(p, <<key, shifted, meddled>>)
             u == Append(t, <<key, wanted>>)
  <1>1. Len(p) = Len(t) /\ Len(t) \in Nat BY DEF Renders, Characters
  <1>2. /\ Len(q) = Len(p) + 1 /\ q[Len(p) + 1] = <<key, shifted, meddled>>
        /\ \A i \in 1 .. Len(p) : q[i] = p[i]
    OBVIOUS
  <1>3. /\ Len(u) = Len(t) + 1 /\ DOMAIN u = 1 .. Len(t) + 1
        /\ u[Len(t) + 1] = <<key, wanted>> /\ DOMAIN t = 1 .. Len(t)
        /\ \A i \in 1 .. Len(t) : u[i] = t[i]
    BY DEF Characters
  <1> HIDE DEF q, u
  <1>4. ASSUME NEW i \in DOMAIN u
        PROVE  q[i][1] = u[i][1] /\ (~q[i][3] => q[i][2] = u[i][2])
    <2>1. CASE i = Len(t) + 1 BY <1>1, <1>2, <1>3, <2>1
    <2>2. CASE i # Len(t) + 1
      <3>1. i \in 1 .. Len(t) BY <1>1, <1>3, <2>2
      <3> QED BY <1>1, <1>2, <1>3, <3>1 DEF Renders
    <2> QED BY <2>1, <2>2
  <1> QED BY <1>1, <1>2, <1>3, <1>4 DEF Renders, q, u

\* A call that presses and releases nothing has no effect.
LEMMA NoEffect ==
    ASSUME NEW T, NEW s \in Seq(T), s # << >>, NEW a, NEW b, Leads(s, a, b),
           Head(s).op \notin {"press", "release"}
    PROVE  Leads(Tail(s), a, b) /\ (Head(s).op = "snapshot" => a.down = << >>)
  <1>1. PICK c \in Effect : Does(Head(s), a, c) /\ Leads(Tail(s), c, b) BY LeadsFirst
  <1>2. c = a /\ (Head(s).op = "snapshot" => a.down = << >>) BY <1>1 DEF Does
  <1> QED BY <1>1, <1>2

\* What is down now, whether or not a call is under way.
LEMMA NowOf ==
    ASSUME NEW m
    PROVE  /\ host[m].pc # "waiting" => Now(m) = host[m].pressed /\ Left(m) = host[m].todo
           /\ ~Moved(m) => Left(m) = host[m].todo
           /\ Moved(m) => Left(m) = Tail(host[m].todo)
           /\ Moved(m) /\ Head(host[m].todo).op = "release" => Now(m) = Front(host[m].pressed)
           /\ Moved(m) /\ Head(host[m].todo).op # "release" => Now(m) = host[m].pressed
           /\ ~Moved(m) /\ Head(host[m].todo).op # "press" => Now(m) = host[m].pressed
           /\ ~Moved(m) /\ Head(host[m].todo).op = "press" /\ host[m].pc = "waiting" =>
                 Now(m) = Front(host[m].pressed)
  BY DEF Now, Left, Moved

LEMMA StaysSound ==
    ASSUME SeatInv, NEW m \in Commands, Stays(m)
    PROVE  SeatSound(m)'
  <1>1. /\ host'[m] = host[m] /\ held' = held /\ lifted' = lifted /\ typed' = typed
        /\ Moved(m)' <=> Moved(m)
        /\ Moved(m) => outcome' = outcome
    BY DEF Stays, Moved
  <1>2. Now(m)' = Now(m) /\ Left(m)' = Left(m) /\ Mine(m)' = Mine(m)
    BY <1>1 DEF Now, Left, Mine
  <1>3. (Unharmed(m)' <=> Unharmed(m)) /\ (Doomed(m)' <=> Doomed(m)) /\ (Typing(m)' <=> Typing(m))
    BY <1>1 DEF Unharmed, Doomed, Typing
  <1>4. Completes(m)' <=> Completes(m) BY <1>1, <1>2, <1>3 DEF Completes
  <1>5. SeatSound(m) BY DEF SeatInv
  <1> QED BY <1>1, <1>2, <1>3, <1>4, <1>5 DEF SeatSound

LEMMA IsServedSound ==
    ASSUME SeatInv, NEW m \in Commands, IsServed(m)
    PROVE  SeatSound(m)'
  <1> SUFFICES ASSUME host'[m].kind \in Paired, Unharmed(m)', ~Doomed(m)'
               PROVE  SeatSound(m)'
    BY DEF SeatSound
  <1>0. CallsInv /\ SeatSound(m) /\ host[m] \in Command BY DEF SeatInv, CallsInv, TypeOK
  <1>1. /\ host'[m] = host[m] /\ held' = held /\ lifted' = lifted /\ typed' = typed
        /\ host[m].pc = "waiting" /\ ~Moved(m) /\ Moved(m)'
    BY DEF IsServed
  <1>2. Head(host[m].todo).op \in WindowOps \cup {"snapshot"} BY <1>1 DEF IsServed, Doomed
  <1>3. Unharmed(m) /\ ~Doomed(m) /\ (Typing(m)' <=> Typing(m)) /\ Mine(m)' = Mine(m)
    BY <1>1 DEF Unharmed, Doomed, Typing, Mine
  <1>4. Head(host[m].todo).op \notin {"press", "release"} BY <1>2 DEF WindowOps
  <1>5. /\ Now(m) = host[m].pressed /\ Left(m) = host[m].todo
        /\ Now(m)' = host[m].pressed /\ Left(m)' = Tail(host[m].todo)
    BY <1>1, <1>4 DEF Now, Left
  <1>6. host[m].todo \in Seq(Request) /\ host[m].todo # << >>
    BY <1>0, <1>1 DEF CallsInv, CommandSound, Command
  <1>7. PICK t, e : /\ Leads(Left(m), [down |-> Now(m), text |-> t], e) /\ e.down = << >>
                    /\ Typing(m) => Renders(typed[m], t) /\ e.text = Text
    BY <1>0, <1>1, <1>3 DEF SeatSound, Completes
  <1>8. Leads(Left(m)', [down |-> Now(m)', text |-> t], e)
    <2> DEFINE a == [down |-> Now(m), text |-> t]
    <2>1. Leads(host[m].todo, a, e) BY <1>5, <1>7
    <2> HIDE DEF a
    <2>2. Leads(Tail(host[m].todo), a, e) BY <1>4, <1>6, <2>1, NoEffect
    <2> QED BY <1>5, <2>2 DEF a
  <1>9. Completes(m)' BY <1>1, <1>3, <1>7, <1>8 DEF Completes
  <1> QED BY <1>0, <1>1, <1>3, <1>5, <1>9 DEF SeatSound

LEMMA HearsFailureSound ==
    ASSUME SeatInv, NEW m \in Commands, HearsFailure(m)
    PROVE  SeatSound(m)'
  BY DEF HearsFailure, Stumbles, SeatSound, Unharmed

LEMMA StartSound ==
    ASSUME SeatInv, NEW m \in Commands, Start(m)
    PROVE  SeatSound(m)'
  <1> SUFFICES ASSUME host'[m].kind \in Paired
               PROVE  SeatSound(m)'
    BY DEF SeatSound
  <1>0. /\ CallsInv /\ SeatSound(m) /\ host \in [Commands -> Command] /\ host[m] \in Command
    BY DEF SeatInv, CallsInv, TypeOK
  <1>1. PICK h \in Command :
          /\ Begins(m, h) /\ h.pc = "idle" /\ h.kind = host[m].kind /\ h.ok /\ h.pressed = << >>
    BY <1>0, StartBegins
  <1> DEFINE g == [h EXCEPT !.pc = "ready", !.todo = FirstCalls(h)]
  <1>2. host'[m] = g /\ host[m].pc = "idle" /\ held' = held /\ lifted' = lifted /\ typed' = typed
    BY <1>0, <1>1 DEF Begins, seatVars
  <1>3. /\ g.pc = "ready" /\ g.kind = h.kind /\ g.todo = FirstCalls(h) /\ g.pressed = << >>
    BY <1>1 DEF Command
  <1> HIDE DEF g
  <1>4. host[m] = Idle(host[m].kind) BY <1>0, <1>2 DEF CallsInv, CommandSound
  <1>5. Idle(host[m].kind).pressed = << >> /\ Idle(host[m].kind).ok BY DEF Idle
  <1>6. host[m].pressed = << >> /\ Unharmed(m) /\ ~Doomed(m)
    BY <1>2, <1>4, <1>5 DEF Unharmed, Doomed, Moved
  <1>7. host[m].kind \in Paired BY <1>1, <1>2, <1>3
  <1>8. Now(m) = << >> BY <1>2, <1>6, NowOf
  <1>9. Mine(m) \subseteq Range(<< >>) /\ typed[m] = << >>
    BY <1>0, <1>2, <1>6, <1>7, <1>8 DEF SeatSound
  <1>10. Now(m)' = << >> /\ Left(m)' = FirstCalls(h) /\ Mine(m)' = Mine(m)
    BY <1>2, <1>3 DEF Now, Left, Moved, Mine
  <1>11. Shift \notin Range(Now(m)')
    <2>1. Range(<< >>) = {} BY DEF Range
    <2> QED BY <1>10, <2>1
  <1>12. PICK e : /\ Leads(FirstCalls(h), [down |-> << >>, text |-> << >>], e)
                  /\ e.down = << >>
                  /\ h.kind = "type" => e.text = Text
    BY <1>1, <1>7, BeginningLeads
  <1>13. Completes(m)'
    <2>1. Typing(m)' => e.text = Text BY <1>2, <1>3, <1>12 DEF Typing
    <2>2. typed'[m] = << >> BY <1>2, <1>9
    <2>3. Leads(Left(m)', [down |-> Now(m)', text |-> << >>], e) BY <1>10, <1>12
    <2>4. Renders(typed'[m], << >>) BY <2>2, RendersNothing
    <2> QED BY <1>12, <2>1, <2>3, <2>4 DEF Completes
  <1> QED BY <1>2, <1>3, <1>9, <1>10, <1>11, <1>13 DEF SeatSound

LEMMA IssueSound ==
    ASSUME SeatInv, NEW m \in Commands, Issue(m)
    PROVE  SeatSound(m)'
  <1> SUFFICES ASSUME host'[m].kind \in Paired, Unharmed(m)'
               PROVE  SeatSound(m)'
    BY DEF SeatSound
  <1> DEFINE h == host[m]
             r == Head(h.todo)
  <1>0. CallsInv /\ SeatSound(m) BY DEF SeatInv
  <1>1. /\ h.pc = "ready" /\ h \in Command /\ h.todo # << >> /\ r \in Request
        /\ host'[m] = [h EXCEPT !.pc = "waiting", !.n = @ + 1, !.pressed = Recorded(h)]
        /\ Current(m)' \notin DOMAIN calls
    BY <1>0, IssueFields
  <1>2. /\ host'[m].pc = "waiting" /\ host'[m].todo = h.todo /\ host'[m].kind = h.kind
        /\ host'[m].pressed = Recorded(h) /\ host'[m].ok = h.ok
    BY <1>1 DEF Command
  <1>3. /\ UNCHANGED <<held, lifted, typed, queue, stage, outcome>> BY DEF Issue, seatVars
  <1>4. h.todo \in Seq(Request) /\ h.pressed \in Seq(Keys \cup {Shift}) BY <1>1 DEF Command
  <1>5. Unharmed(m) /\ ~Moved(m) /\ ~Doomed(m) /\ h.kind \in Paired
    BY <1>1, <1>2 DEF Unharmed, Moved, Doomed
  <1>6. ~Moved(m)'
    <2>1. stage = "respond" => Head(queue) \in DOMAIN calls
      BY <1>0, HeadInDomain DEF CallsInv, ServesTheFirst, TypeOK
    <2> QED BY <1>1, <1>3, <2>1 DEF Moved
  <1>7. Now(m) = h.pressed /\ Left(m) = h.todo BY <1>1, NowOf
  <1>8. /\ r.op = "press" => /\ Recorded(h) # << >> /\ Last(Recorded(h)) = r.key
                             /\ Front(Recorded(h)) = h.pressed
        /\ r.op # "press" => Recorded(h) = h.pressed
    <2>1. CASE r.op = "press"
      <3>1. Recorded(h) = Append(h.pressed, r.key) BY <1>5, <2>1 DEF Recorded
      <3>2. r.key \in Keys \cup {Shift} BY <1>1, <2>1, RequestFields
      <3> HIDE DEF r, h
      <3> QED BY <1>4, <2>1, <3>1, <3>2, AppendQueue
    <2>2. CASE r.op # "press" BY <2>2 DEF Recorded
    <2> QED BY <2>1, <2>2
  <1>9. Now(m)' = h.pressed /\ Left(m)' = h.todo /\ Mine(m)' = Mine(m)
    BY <1>2, <1>3, <1>6, <1>8 DEF Now, Left, Mine
  <1>10. Typing(m)' <=> Typing(m) BY <1>2 DEF Typing
  <1>11. Completes(m) BY <1>0, <1>1, <1>5 DEF SeatSound
  <1>12. Completes(m)' BY <1>3, <1>7, <1>9, <1>10, <1>11 DEF Completes
  <1>13. r.op = "snapshot" => h.pressed = << >>
    <2> SUFFICES ASSUME r.op = "snapshot" PROVE h.pressed = << >> OBVIOUS
    <2>1. PICK t, e : Leads(h.todo, [down |-> h.pressed, text |-> t], e)
      BY <1>7, <1>11 DEF Completes
    <2> DEFINE a == [down |-> h.pressed, text |-> t]
    <2>2. a.down = h.pressed /\ Leads(h.todo, a, e) BY <2>1
    <2> HIDE DEF a
    <2> QED BY <1>1, <1>4, <2>2, NoEffect
  <1>14. /\ Mine(m) \subseteq Range(Now(m))
         /\ Typing(m) /\ Shift \in Range(Now(m)) => <<Shift, m>> \in held \cup lifted
    BY <1>0, <1>5 DEF SeatSound
  <1>15. r.op = "snapshot" => host'[m].pressed = << >> BY <1>2, <1>8, <1>13
  <1>16. r.op = "press" => host'[m].pressed # << >> /\ Last(host'[m].pressed) = r.key
    BY <1>2, <1>8
  <1>17. Head(host'[m].todo) = r BY <1>2
  <1> HIDE DEF r, h
  <1> QED BY <1>2, <1>3, <1>7, <1>9, <1>10, <1>12, <1>14, <1>15, <1>16, <1>17 DEF SeatSound

LEMMA HearsSuccessSound ==
    ASSUME SeatInv, NEW m \in Commands, HearsSuccess(m)
    PROVE  SeatSound(m)'
  <1> DEFINE h == host[m]
             r == Head(h.todo)
             g == Succeeds(h, outcome)
             k == Continue(h, Tail(h.todo))
  <1>0. CallsInv /\ SeatSound(m) /\ h \in Command BY DEF SeatInv, CallsInv, TypeOK
  <1>1. /\ Moved(m) /\ outcome.ok /\ host'[m] = g /\ h.pc = "waiting"
        /\ held' = held /\ lifted' = lifted /\ typed' = typed
    BY DEF HearsSuccess, Moved
  <1>2. /\ h.todo # << >> /\ outcome \in Answer /\ TodoNamed(h)
    BY <1>0, <1>1 DEF CallsInv, CommandSound, NamedRevision, TypeOK, CallsTypeOK
  <1>3. /\ h.todo \in Seq(Request) /\ Tail(h.todo) \in Seq(Request) /\ << >> \in Seq(Request)
        /\ h.key \in Keys \cup {Shift} /\ h.pressed \in Seq(Keys \cup {Shift})
    BY <1>0, <1>2 DEF Command
  <1>4. Follows(h, g) BY <1>0, <1>2, SucceedsFollows
  <1>5. SUFFICES ASSUME g.kind \in Paired, g.ok PROVE SeatSound(m)'
    <2> HIDE DEF g
    <2> QED BY <1>1 DEF SeatSound, Unharmed
  <1>6. h.kind \in Paired /\ Unharmed(m) /\ ~Doomed(m)
    <2> HIDE DEF g
    <2> QED BY <1>1, <1>4, <1>5 DEF Follows, Unharmed, Doomed
  <1>7. /\ Follows(h, k) /\ k.todo = Tail(h.todo) /\ k.pressed = h.pressed
    BY <1>0, <1>3, ContinueFields
  <1>8. Typing(m)' <=> Typing(m)
    <2> HIDE DEF g
    <2> QED BY <1>1, <1>4 DEF Typing, Follows
  <1>9. /\ Mine(m) \subseteq Range(Now(m)) /\ Completes(m)
        /\ Typing(m) /\ Shift \in Range(Now(m)) => <<Shift, m>> \in held \cup lifted
        /\ r.op = "snapshot" => h.pressed = << >>
    BY <1>0, <1>1, <1>6 DEF SeatSound
  <1>10. Mine(m)' = Mine(m) BY <1>1 DEF Mine
  \* The command goes on with what it had left.
  <1>11. ASSUME g.todo = Left(m), g.pressed = Now(m) PROVE SeatSound(m)'
    <2> HIDE DEF g
    <2>1. g.pc = (IF g.todo = << >> THEN "done" ELSE "ready") BY <1>4 DEF Follows
    <2>2. Now(m)' = Now(m) /\ Left(m)' = Left(m)
      BY <1>1, <1>11, <2>1 DEF Now, Left, Moved
    <2>3. Completes(m)' BY <1>1, <1>8, <1>9, <2>2 DEF Completes
    <2> QED BY <1>1, <1>8, <1>9, <1>10, <2>1, <2>2, <2>3 DEF SeatSound
  <1>12. CASE r.op = "snapshot" /\ h.kind \in Resolving
    <2>1. h.kind = "click" BY <1>6, <1>12 DEF Paired, Resolving, WindowOps
    <2>2. g = Resolve(h, outcome) BY <1>12 DEF Succeeds
    <2> DEFINE next == <<[op |-> "motion"], Press(h.key), Release(h.key)>>
    <2>3. g = Continue(h, next)
      <3> DEFINE z == Continue(h, << >>)
      <3>1. CASE g = [z EXCEPT !.ok = FALSE]
        <4>1. z \in Command BY <1>0, <1>3, ContinueFields DEF Follows
        <4> HIDE DEF z, g
        <4>2. ~g.ok BY <3>1, <4>1 DEF Command
        <4> QED BY <1>5, <4>2
      <3>2. CASE g = Continue(h, ResolvedCalls(h, outcome.rev))
        BY <2>1, <3>2 DEF ResolvedCalls
      <3> QED BY <2>2, <3>1, <3>2 DEF Resolve
    <2>4. next \in Seq(Request)
      <3>1. /\ [op |-> "motion"] \in Request /\ Press(h.key) \in Request
            /\ Release(h.key) \in Request
        BY <1>3 DEF Press, Release, Request
      <3> QED BY <3>1
    <2>5. g.todo = next /\ g.pressed = << >>
      <3> HIDE DEF next, g
      <3> QED BY <1>0, <1>9, <1>12, <2>3, <2>4, ContinueFields
    <2> HIDE DEF g
    <2>6. g.pc = (IF g.todo = << >> THEN "done" ELSE "ready") BY <1>4 DEF Follows
    <2>7. /\ Now(m)' = << >> /\ Left(m)' = next BY <1>1, <2>5, <2>6 DEF Now, Left, Moved
    <2>8. Now(m) = << >> BY <1>1, <1>9, <1>12, NowOf
    <2>9. << >> \in Characters BY DEF Characters
    <2>10. \E e : Leads(next, [down |-> << >>, text |-> << >>], e) /\ e.down = << >>
      BY <1>3, <2>9, ClickLeads
    <2>11. ~Typing(m)' BY <1>8, <2>1 DEF Typing
    <2> HIDE DEF next
    <2>12. Completes(m)' BY <2>7, <2>10, <2>11 DEF Completes
    <2> QED BY <1>1, <1>9, <1>10, <2>5, <2>6, <2>7, <2>8, <2>11, <2>12 DEF SeatSound
  <1>13. CASE r.op = "release"
    <2>1. g = [k EXCEPT !.pressed = Front(@), !.released = TRUE] BY <1>13 DEF Succeeds
    <2>2. g.todo = Tail(h.todo) /\ g.pressed = Front(h.pressed)
      <3> HIDE DEF g, k
      <3> QED BY <1>7, <2>1 DEF Follows, Command
    <2> HIDE DEF g
    <2> QED BY <1>1, <1>11, <1>13, <2>2, NowOf
  <1>14. CASE ~(r.op = "snapshot" /\ h.kind \in Resolving) /\ r.op # "release"
    <2>1. g = k BY <1>14 DEF Succeeds
    <2>2. g.todo = Tail(h.todo) /\ g.pressed = h.pressed BY <1>7, <2>1
    <2> HIDE DEF g
    <2> QED BY <1>1, <1>11, <1>14, <2>2, NowOf
  <1> QED BY <1>12, <1>13, <1>14

\* Another command's call leaves m's keys up, and its modifier held or taken.
LEMMA OthersPlaySound ==
    ASSUME SeatInv, NEW m \in Commands, Plays,
           ~(host[m].pc = "waiting" /\ Head(queue) = Current(m))
    PROVE  SeatSound(m)'
  <1> DEFINE i == Head(queue)
             c == i[1]
             request == calls[i].request
  <1> SUFFICES ASSUME host'[m].kind \in Paired, Unharmed(m)'
               PROVE  SeatSound(m)'
    BY DEF SeatSound
  <1>0. CallsInv /\ CallsTypeOK /\ SeatSound(m) BY DEF SeatInv, CallsInv, TypeOK
  <1>1. /\ stage = "read" /\ queue # << >> /\ UNCHANGED <<calls, queue, host>>
        /\ HandleSeat(c, request)
    BY DEF Plays, Serving
  <1>2. i \in DOMAIN calls BY <1>0, <1>1, HeadInDomain
  <1>3. c \in Commands /\ i = <<i[1], i[2]>> BY <1>0, <1>2, CallIdentity
  <1>4. ~Moved(m) /\ ~Moved(m)' BY <1>1 DEF Moved, Current
  <1>5. Unharmed(m) /\ ~Doomed(m) /\ ~Doomed(m)' /\ (Typing(m)' <=> Typing(m))
    BY <1>1, <1>4 DEF Unharmed, Doomed, Typing
  <1>6. c # m
    <2> SUFFICES ASSUME c = m PROVE FALSE OBVIOUS
    <2>1. Waits(i) BY <1>0, <1>2, <1>5 DEF CallsInv, CallSound
    <2> QED BY <1>3, <2>1 DEF Waits, Current
  <1>7. Now(m)' = Now(m) /\ Left(m)' = Left(m) BY <1>1, <1>4 DEF Now, Left
  <1>8. typed'[m] = typed[m]
    <2> HIDE DEF c, i
    <2> QED BY <1>0, <1>1, <1>6 DEF HandleSeat, Inject, SeatOps, CallsTypeOK
  <1>9. \/ held' = held \cup {<<request.key, c>>} /\ lifted' = lifted \ {<<request.key, c>>}
        \/ /\ held' = {h \in held : h[1] # request.key}
           /\ lifted' = (lifted \cup {h \in held : h[1] = request.key}) \ {<<request.key, c>>}
        \/ held' = held /\ lifted' = lifted
    <2> HIDE DEF c, i
    <2> QED BY <1>1 DEF HandleSeat, Inject, SeatOps
  <1> HIDE DEF c, i, request
  <1>10. Mine(m)' \subseteq Mine(m) BY <1>6, <1>9 DEF Mine
  <1>11. <<Shift, m>> \in held \cup lifted => <<Shift, m>> \in held' \cup lifted'
    BY <1>6, <1>9
  <1>12. Completes(m)' <=> Completes(m) BY <1>5, <1>7, <1>8 DEF Completes
  <1> QED BY <1>0, <1>1, <1>5, <1>7, <1>8, <1>10, <1>11, <1>12 DEF SeatSound

\* The command's own call does what its sequence of calls says it does.
LEMMA OwnPlaySound ==
    ASSUME SeatInv, NEW m \in Commands, Plays,
           host[m].pc = "waiting" /\ Head(queue) = Current(m)
    PROVE  SeatSound(m)'
  <1> DEFINE h == host[m]
             r == Head(h.todo)
             down == h.pressed
  <1> SUFFICES ASSUME host'[m].kind \in Paired, Unharmed(m)', ~Doomed(m)'
               PROVE  SeatSound(m)'
    BY DEF SeatSound
  <1>0. /\ CallsInv /\ CallsTypeOK /\ SeatSound(m) /\ h \in Command
        /\ CommandSound(m) /\ h.pc = "waiting"
    BY DEF SeatInv, CallsInv, TypeOK
  <1>1. /\ stage = "read" /\ stage' = "respond" /\ UNCHANGED <<calls, queue, host>>
        /\ HandleSeat(m, r)
    <2>1. Head(queue)[1] = m BY DEF Current
    <2>2. calls[Head(queue)].request = r BY <1>0 DEF CommandSound, WaitsForItsCall
    <2> QED BY <2>1, <2>2 DEF Plays, Serving
  <1>2. h.todo # << >> /\ h.todo \in Seq(Request) /\ r \in Request
        /\ down \in Seq(Keys \cup {Shift})
    <2>1. h.todo # << >> BY <1>0 DEF CommandSound
    <2>2. h.todo \in Seq(Request) /\ down \in Seq(Keys \cup {Shift}) BY <1>0 DEF Command
    <2>3. r \in Request BY <2>1, <2>2
    <2> QED BY <2>1, <2>2, <2>3
  <1>3. ~Moved(m) /\ Moved(m)' BY <1>1 DEF Moved, Current
  <1>4. Unharmed(m) /\ ~Doomed(m) /\ (Typing(m)' <=> Typing(m)) /\ h.kind \in Paired
    BY <1>1, <1>3 DEF Unharmed, Doomed, Typing
  <1>5. /\ Mine(m) \subseteq Range(Now(m)) /\ Completes(m)
        /\ r.op = "press" => down # << >> /\ Last(down) = r.key
        /\ Typing(m) /\ Shift \in Range(Now(m)) => <<Shift, m>> \in held \cup lifted
    BY <1>0, <1>4 DEF SeatSound
  <1>6. PICK t, e : /\ Leads(h.todo, [down |-> Now(m), text |-> t], e) /\ e.down = << >>
                    /\ Typing(m) => Renders(typed[m], t) /\ e.text = Text
    BY <1>3, <1>5, NowOf DEF Completes
  <1> DEFINE a == [down |-> Now(m), text |-> t]
  <1>7. PICK b \in Effect : Does(r, a, b) /\ Leads(Tail(h.todo), b, e) /\ a \in Effect
    <2>1. Leads(h.todo, a, e) BY <1>6
    <2> HIDE DEF a
    <2> QED BY <1>2, <2>1, LeadsFirst
  <1>8. a.down = Now(m) /\ a.text = t /\ Once(Now(m)) /\ b = [down |-> b.down, text |-> b.text]
    BY <1>7 DEF Effect
  <1> HIDE DEF a
  <1>9. Left(m)' = Tail(h.todo) BY <1>1, <1>3 DEF Left
  \* What m has down afterwards, and what the text is by then.
  <1>10. ASSUME b.down = Now(m)', Typing(m) => Renders(typed'[m], b.text),
                Mine(m)' \subseteq Range(Now(m)'),
                Typing(m) /\ Shift \in Range(Now(m)') => <<Shift, m>> \in held' \cup lifted',
                r.op # "snapshot"
         PROVE  SeatSound(m)'
    <2>1. Completes(m)'
      <3>1. Leads(Left(m)', [down |-> Now(m)', text |-> b.text], e)
        BY <1>7, <1>8, <1>9, <1>10
      <3> QED BY <1>4, <1>6, <1>10, <3>1 DEF Completes
    <2> QED BY <1>0, <1>1, <1>4, <1>5, <1>10, <2>1 DEF SeatSound
  <1>11. CASE r.op = "press"
    <2>1. /\ held' = held \cup {<<r.key, m>>} /\ lifted' = lifted \ {<<r.key, m>>}
          /\ typed' = IF r.key = Shift THEN typed
                      ELSE [typed EXCEPT ![m] = Append(@, <<r.key, Shifted, Meddled(m)>>)]
      BY <1>1, <1>11 DEF HandleSeat, Inject
    <2>2. Now(m) = Front(down) /\ Now(m)' = down
      BY <1>0, <1>1, <1>3, <1>11 DEF Now
    <2>3. /\ r.key \notin Range(Now(m)) /\ b.down = Append(Now(m), r.key)
          /\ b.text = IF r.key = Shift THEN t
                      ELSE Append(t, <<r.key, Shift \in Range(Now(m))>>)
      BY <1>7, <1>8, <1>11 DEF Does
    <2>4. down = Append(Front(down), r.key) /\ Range(down) = Range(Front(down)) \cup {r.key}
      <3>1. down # << >> /\ Last(down) = r.key BY <1>5, <1>11
      <3> HIDE DEF down, r
      <3> QED BY <1>2, <3>1, FrontKeeps
    <2>5. b.down = Now(m)' BY <2>2, <2>3, <2>4
    <2>6. Mine(m)' \subseteq Mine(m) \cup {r.key} BY <2>1 DEF Mine
    <2>7. Mine(m)' \subseteq Range(Now(m)') BY <1>5, <2>2, <2>4, <2>6
    <2>8. Typing(m) /\ Shift \in Range(Now(m)') => <<Shift, m>> \in held' \cup lifted'
      BY <1>5, <2>1, <2>2, <2>4
    <2>9. ASSUME Typing(m) PROVE Renders(typed'[m], b.text)
      <3>1. CASE r.key = Shift BY <1>6, <2>1, <2>3, <2>9, <3>1
      <3>2. CASE r.key # Shift
        <4> DEFINE wanted == Shift \in Range(Now(m))
        <4>1. ASSUME ~Meddled(m) PROVE Shifted = wanted
          <5>1. <<Shift, m>> \notin lifted /\ \A c \in Commands \ {m} : <<Shift, c>> \notin held
            BY <4>1 DEF Meddled
          <5>2. Shifted <=> <<Shift, m>> \in held BY <5>1 DEF Shifted
          <5>3. <<Shift, m>> \in held <=> wanted BY <1>5, <2>9, <5>1 DEF Mine
          <5>4. Shifted \in BOOLEAN /\ wanted \in BOOLEAN BY DEF Shifted
          <5> QED BY <5>2, <5>3, <5>4
        <4>2. typed \in [Commands -> Seq(Keys \X BOOLEAN \X BOOLEAN)] BY <1>0 DEF CallsTypeOK
        <4>3. typed'[m] = Append(typed[m], <<r.key, Shifted, Meddled(m)>>) BY <2>1, <3>2, <4>2
        <4>4. b.text = Append(t, <<r.key, wanted>>) BY <2>3, <3>2
        <4>5. Renders(typed[m], t) BY <1>6, <2>9
        <4>6. t \in Characters BY <1>7, <1>8 DEF Effect, Characters
        <4> HIDE DEF wanted
        <4> QED BY <4>1, <4>2, <4>3, <4>4, <4>5, <4>6, RendersOn
      <3> QED BY <3>1, <3>2
    <2> QED BY <1>10, <1>11, <2>5, <2>7, <2>8, <2>9
  <1>12. CASE r.op = "release"
    <2>1. /\ held' = {x \in held : x[1] # r.key} /\ typed' = typed
          /\ lifted' = (lifted \cup {x \in held : x[1] = r.key}) \ {<<r.key, m>>}
      BY <1>1, <1>12 DEF HandleSeat, Inject
    <2>2. Now(m) = down /\ Now(m)' = Front(down)
      BY <1>0, <1>1, <1>3, <1>12 DEF Now
    <2>3. /\ down # << >> /\ Last(down) = r.key /\ b.down = Front(down) /\ b.text = t
      <3>1. /\ a.down # << >> /\ Last(a.down) = r.key
            /\ b.down = Front(a.down) /\ b.text = a.text
        BY <1>7, <1>12 DEF Does
      <3>2. a.down = down /\ a.text = t BY <1>8, <2>2
      <3> QED BY <3>1, <3>2
    <2>4. Range(Front(down)) = Range(down) \ {r.key}
      <3>1. Once(down) BY <1>8, <2>2
      <3>2. Range(Front(down)) = Range(down) \ {Last(down)}
        <4> HIDE DEF down
        <4> QED BY <1>2, <2>3, <3>1, FrontKeeps
      <3> QED BY <2>3, <3>2
    <2>5. Mine(m)' \subseteq Mine(m) \ {r.key} BY <2>1 DEF Mine
    <2>6. Mine(m)' \subseteq Range(Now(m)') BY <1>5, <2>2, <2>4, <2>5
    <2>7. Typing(m) /\ Shift \in Range(Now(m)') => <<Shift, m>> \in held' \cup lifted'
      BY <1>5, <2>1, <2>2, <2>4
    <2>8. Typing(m) => Renders(typed'[m], b.text) BY <1>6, <2>1, <2>3
    <2> QED BY <1>10, <1>12, <2>2, <2>3, <2>6, <2>7, <2>8
  <1>13. CASE r.op = "motion"
    <2>1. held' = held /\ lifted' = lifted /\ typed' = typed BY <1>1, <1>13 DEF HandleSeat, Inject
    <2>2. Now(m) = down /\ Now(m)' = down BY <1>0, <1>1, <1>3, <1>13 DEF Now
    <2>3. b = a BY <1>7, <1>13 DEF Does
    <2>4. Mine(m)' = Mine(m) BY <2>1 DEF Mine
    <2> QED BY <1>5, <1>6, <1>8, <1>10, <1>13, <2>1, <2>2, <2>3, <2>4
  <1> QED BY <1>1, <1>11, <1>12, <1>13 DEF HandleSeat, SeatOps

-----------------------------------------------------------------------------
LEMMA SeatInductive == SeatInv /\ [Next]_vars => SeatInv'
  <1> SUFFICES ASSUME SeatInv, [Next]_vars PROVE SeatInv' OBVIOUS
  <1>0. CallsInv BY DEF SeatInv
  <1>1. CallsInv' BY <1>0, CallsInductive
  <1>2. ASSUME NEW m \in Commands PROVE SeatSound(m)'
    <2>1. StepOf(m) BY <1>0, StepOfEach
    <2> QED BY <2>1, StaysSound, IsServedSound, HearsFailureSound, HearsSuccessSound,
               StartSound, IssueSound, OthersPlaySound, OwnPlaySound DEF StepOf
  <1> QED BY <1>1, <1>2 DEF SeatInv

LEMMA SeatInitially == Init => SeatInv
  <1> SUFFICES ASSUME Init PROVE SeatInv OBVIOUS
  <1>1. CallsInv BY CallsInitially
  <1>2. PICK kind \in Scenarios : host = [m \in Commands |-> Idle(kind[m])] BY DEF Init
  <1>3. held = {} /\ typed = [m \in Commands |-> << >>] BY DEF Init, CallsInit
  <1>4. ASSUME NEW m \in Commands
        PROVE  /\ host[m].kind = kind[m] /\ host[m].pc = "idle" /\ host[m].todo = << >>
               /\ host[m].pressed = << >>
    BY <1>2 DEF Idle
  <1>5. ASSUME NEW m \in Commands PROVE SeatSound(m)
    <2>1. Range(<< >>) = {} BY DEF Range
    <2>2. Now(m) = << >> BY <1>4, NowOf
    <2>3. Mine(m) = {} /\ typed[m] = << >> BY <1>3 DEF Mine
    <2> QED BY <1>4, <2>1, <2>2, <2>3 DEF SeatSound
  <1> QED BY <1>1, <1>5 DEF SeatInv

\* What a command that is over and succeeded has down, and has typed.
LEMMA OverAndDone ==
    ASSUME SeatInv, NEW m \in Commands, Over(m), host[m].ok, host[m].kind \in Paired
    PROVE  Mine(m) = {} /\ (Typing(m) => Renders(typed[m], Text))
  <1>1. SeatSound(m) /\ host[m].pc = "done" /\ Unharmed(m) /\ ~Doomed(m)
    BY DEF SeatInv, Over, Unharmed, Doomed, Moved
  <1>2. Mine(m) \subseteq Range(Now(m)) /\ Completes(m) /\ host[m].todo = << >>
    BY <1>1 DEF SeatSound
  <1>3. Left(m) = << >> BY <1>1, <1>2, NowOf
  <1>4. PICK t, e : /\ Leads(<< >>, [down |-> Now(m), text |-> t], e) /\ e.down = << >>
                    /\ Typing(m) => Renders(typed[m], t) /\ e.text = Text
    BY <1>2, <1>3 DEF Completes
  <1> DEFINE a == [down |-> Now(m), text |-> t]
  <1>5. a.down = Now(m) /\ a.text = t /\ Leads(<< >>, a, e) BY <1>4
  <1> HIDE DEF a
  <1>6. a \in Effect
    <2>1. << >> \in Seq(Request) OBVIOUS
    <2> QED BY <1>5, <2>1, LeadsFrom
  <1>7. a = e BY <1>5, <1>6, LeadsNowhere
  <1>8. Range(<< >>) = {} BY DEF Range
  <1> QED BY <1>2, <1>4, <1>5, <1>7, <1>8

\* A click, tap or text that reports success has none of its keys down in the
\* compositor, whatever the other commands, their stragglers and the failures
\* do: Click, Tap and Type own both halves of each transition.
THEOREM NothingHeldAfterSuccess == Spec => []SuccessLeavesNothingHeld
  <1>1. SeatInv => SuccessLeavesNothingHeld
    BY OverAndDone DEF SuccessLeavesNothingHeld, Mine
  <1> QED BY SeatInitially, SeatInductive, <1>1, PTL DEF Spec

\* A text that reports success was typed key by key, in its order and each key
\* once, and a character has the shift it needs and no other unless another
\* command held the modifier at its press or had released the one this text
\* pressed for it: Type pairs every press with its release and goes on only
\* when the last call succeeded, while other texts, taps and transitions of any
\* key, the modifier too, go on beside it.
THEOREM SuccessTypes == Spec => []SuccessTypedText
  <1>1. SeatInv => SuccessTypedText
    BY OverAndDone DEF SuccessTypedText, Typing, Paired
  <1> QED BY SeatInitially, SeatInductive, <1>1, PTL DEF Spec

=============================================================================

---------------------------- MODULE ShmRingProofs ----------------------------
(***************************************************************************)
(* Proofs about ShmRing for every capacity, cursor range, set of payload   *)
(* lengths and depth of the store buffers: the receiver gets the frames    *)
(* that were sent, whole and in order, and never sees a header that no     *)
(* sender wrote.                                                           *)
(***************************************************************************)
EXTENDS ShmRing, SequenceTheorems, WellFoundedInduction, TLAPS

-----------------------------------------------------------------------------
(* Remainders.                                                             *)

LEMMA ModDef ==
  ASSUME NEW x \in Int, NEW n \in Nat, n > 0
  PROVE  /\ x % n \in 0 .. n - 1
         /\ \E k \in Int : x = k * n + (x % n)
<1>1. x = n * (x \div n) + (x % n)
  OBVIOUS
<1>2. x \div n \in Int
  OBVIOUS
<1>3. n * (x \div n) = (x \div n) * n
  BY <1>2
<1>4. x % n \in 0 .. n - 1
  OBVIOUS
<1>5. \E k \in Int : x = k * n + (x % n)
  BY <1>1, <1>2, <1>3
<1> QED
  BY <1>4, <1>5

LEMMA Multiple ==
  ASSUME NEW m \in Int, NEW n \in Nat, m > 0
  PROVE  m * n >= n
<1>1. PICK p \in Nat : m = p + 1
  <2>1. m - 1 \in Nat /\ m = (m - 1) + 1
    OBVIOUS
  <2> QED
    BY <2>1
<1>2. m * n = p * n + n
  BY <1>1
<1>3. p * n >= 0
  OBVIOUS
<1>4. p * n \in Int
  OBVIOUS
<1> QED
  BY <1>2, <1>3, <1>4

(* The remainder is the only one.                                          *)
LEMMA ModUnique ==
  ASSUME NEW x \in Int, NEW n \in Nat, n > 0,
         NEW k \in Int, NEW r \in 0 .. n - 1, x = k * n + r
  PROVE  x % n = r
<1>1. PICK j \in Int : x = j * n + (x % n)
  BY ModDef
<1>2. x % n \in 0 .. n - 1
  BY ModDef
<1> DEFINE s == x % n
<1> HIDE DEF s
<1>3. (k - j) * n = s - r /\ (j - k) * n = r - s
  <2>1. j * n \in Int /\ k * n \in Int /\ s \in Int
    BY <1>2 DEF s
  <2>2. (k - j) * n = k * n - j * n /\ (j - k) * n = j * n - k * n
    OBVIOUS
  <2>3. j * n + s = k * n + r
    BY <1>1 DEF s
  <2> QED
    BY <2>1, <2>2, <2>3
<1>4. ~(k - j > 0)
  <2> SUFFICES ASSUME k - j > 0 PROVE FALSE
    OBVIOUS
  <2>1. (k - j) * n >= n
    BY Multiple
  <2> QED
    BY <1>2, <1>3, <2>1 DEF s
<1>5. ~(j - k > 0)
  <2> SUFFICES ASSUME j - k > 0 PROVE FALSE
    OBVIOUS
  <2>1. (j - k) * n >= n
    BY Multiple
  <2> QED
    BY <1>2, <1>3, <2>1 DEF s
<1>6. j = k
  BY <1>4, <1>5
<1> QED
  BY <1>1, <1>2, <1>6

(* Numbers that differ by a multiple of n have the same remainder.         *)
LEMMA ModEq ==
  ASSUME NEW x \in Int, NEW y \in Int, NEW n \in Nat, n > 0,
         NEW k \in Int, x = y + k * n
  PROVE  x % n = y % n
<1>1. PICK j \in Int : y = j * n + (y % n)
  BY ModDef
<1>2. y % n \in 0 .. n - 1
  BY ModDef
<1> DEFINE r == y % n
<1> HIDE DEF r
<1>3. x = (j + k) * n + r
  <2>1. (j + k) * n = j * n + k * n
    OBVIOUS
  <2>2. j * n \in Int /\ k * n \in Int /\ r \in Int
    BY <1>2 DEF r
  <2>3. y = j * n + r
    BY <1>1 DEF r
  <2> QED
    BY <2>1, <2>2, <2>3
<1>4. r \in 0 .. n - 1
  BY <1>2 DEF r
<1>5. x % n = r
  <2> DEFINE m == j + k
  <2>1. m \in Int /\ x = m * n + r
    BY <1>3
  <2> HIDE DEF m
  <2> QED
    BY <1>4, <2>1, ModUnique
<1> QED
  BY <1>5 DEF r

LEMMA ModSmall ==
  ASSUME NEW x \in Nat, NEW n \in Nat, x < n
  PROVE  x % n = x
OBVIOUS

(* A remainder modulo W may be taken out under a remainder modulo a        *)
(* divisor C of W.                                                         *)
LEMMA ModInside ==
  ASSUME NEW x \in Int, NEW y \in Int, NEW C \in Nat, C > 0,
         NEW W \in Nat, W > 0, W % C = 0
  PROVE  ((x % W) + y) % C = (x + y) % C
<1>1. PICK k \in Int : x = k * W + (x % W)
  BY ModDef
<1>2. PICK w \in Int : W = w * C + (W % C)
  BY ModDef
<1>3. W = w * C
  <2>1. w * C \in Int
    OBVIOUS
  <2> QED
    BY <1>2, <2>1
<1> DEFINE r == x % W
<1>4. r \in Int
  BY ModDef
<1> HIDE DEF r
<1>5. x + y = (r + y) + (k * w) * C
  <2>1. k * W = (k * w) * C
    BY <1>3
  <2>2. k * W \in Int /\ x = k * W + r
    BY <1>1 DEF r
  <2> QED
    BY <1>4, <2>1, <2>2
<1>6. (x + y) % C = (r + y) % C
  <2> DEFINE p == x + y
             q == r + y
             m == k * w
  <2>1. m \in Int /\ p \in Int /\ q \in Int
    BY <1>4
  <2>2. p = q + m * C
    BY <1>5
  <2> HIDE DEF p, q, m
  <2>3. p % C = q % C
    BY <2>1, <2>2, ModEq
  <2> QED
    BY <2>3 DEF p, q
<1> QED
  BY <1>6 DEF r

LEMMA ModSame ==
  ASSUME NEW x \in Int, NEW y \in Int, NEW n \in Nat, n > 0
  PROVE  ((x % n) + y) % n = (x + y) % n
<1>1. n % n = 0
  <2>1. n = 1 * n + 0 /\ 0 \in 0 .. n - 1
    OBVIOUS
  <2> QED
    BY <2>1, ModUnique
<1> QED
  BY <1>1, ModInside

(* The distance of two cursors, taken from their remainders.               *)
LEMMA ModDistance ==
  ASSUME NEW a \in Nat, NEW b \in Nat, NEW n \in Nat, b <= a, a - b < n
  PROVE  ((a % n) - (b % n)) % n = a - b
<1>0. n > 0
  OBVIOUS
<1>1. PICK i \in Int : a = i * n + (a % n)
  BY <1>0, ModDef
<1>2. PICK j \in Int : b = j * n + (b % n)
  BY <1>0, ModDef
<1> DEFINE r == a % n
           s == b % n
<1>3. r \in Int /\ s \in Int
  BY <1>0, ModDef
<1>4. a = i * n + r /\ b = j * n + s
  BY <1>1, <1>2
<1> HIDE DEF r, s
<1>5. r - s = (a - b) + (j - i) * n
  <2>1. (j - i) * n = j * n - i * n /\ i * n \in Int /\ j * n \in Int
    OBVIOUS
  <2> QED
    BY <1>3, <1>4, <2>1
<1>6. (r - s) % n = (a - b) % n
  <2> DEFINE p == r - s
             q == a - b
             m == j - i
  <2>1. m \in Int /\ p \in Int /\ q \in Int
    BY <1>3
  <2>2. p = q + m * n
    BY <1>5
  <2> HIDE DEF p, q, m
  <2>3. p % n = q % n
    BY <1>0, <2>1, <2>2, ModEq
  <2> QED
    BY <2>3 DEF p, q
<1>7. (a - b) % n = a - b
  <2>1. a - b \in Nat
    OBVIOUS
  <2> QED
    BY <2>1, ModSmall
<1> QED
  BY <1>6, <1>7 DEF r, s

(* Within a window of n positions no two have the same remainder.          *)
LEMMA ModWindow ==
  ASSUME NEW a \in Nat, NEW b \in Nat, NEW n \in Nat, b <= a, a - b < n, a % n = b % n
  PROVE  a = b
<1>1. ((a % n) - (b % n)) % n = a - b
  BY ModDistance
<1>2. a % n \in Int /\ n > 0
  BY ModDef
<1>3. (a % n) - (b % n) = 0
  BY <1>2
<1>4. 0 % n = 0
  BY <1>2, ModSmall
<1> QED
  BY <1>1, <1>3, <1>4

-----------------------------------------------------------------------------
(* A cursor and its store buffer.  The proofs count cells from the start   *)
(* of the run: cs[0] is the position the cursor `word' has in memory,      *)
(* cs[j] the one it has once the first j pending stores have arrived.      *)
StoreSet == [word : Words, v : Nat \cup Seq(Nat), at : Nat]

Grows(cs, n) == \A i \in 0 .. n : \A j \in 0 .. n : i <= j => cs[i] <= cs[j]
Youngest(q, cs, word) ==
  \A i \in 0 .. Len(q) :
    (\A j \in i + 1 .. Len(q) : q[j].word # word) => cs[i] = cs[Len(q)]
Stored(q, cs, word, j) ==
  IF q[j].word = word THEN q[j].v = cs[j] % Wrap ELSE cs[j] = cs[j - 1]

Cursor(q, cs, word) ==
  /\ cs \in [0 .. Len(q) -> Nat]
  /\ Grows(cs, Len(q))
  /\ Youngest(q, cs, word)
  /\ \A j \in 1 .. Len(q) : Stored(q, cs, word, j)

LEMMA Sizes ==
  /\ Cap \in Nat /\ Cap > 0 /\ Cap >= 2
  /\ Wrap \in Nat /\ Wrap > 0 /\ Wrap > Cap /\ Wrap % Cap = 0
BY ShmCapAssumption DEF Hdr

LEMMA Remainders ==
  ASSUME NEW x \in Nat
  PROVE  x % Cap \in Nat /\ x % Wrap \in Nat
<1>1. x % Cap \in 0 .. Cap - 1
  BY Sizes, ModDef
<1>2. x % Wrap \in 0 .. Wrap - 1
  BY Sizes, ModDef
<1> QED
  BY <1>1, <1>2, Sizes

LEMMA LastExists ==
  ASSUME NEW n \in Nat, NEW S, S \subseteq 1 .. n, S # {}
  PROVE  \E i \in S : \A j \in S : j <= i
<1> DEFINE D == {m \in 0 .. n : n - m \in S}
           R == {ss \in Nat \X Nat : ss[1] < ss[2]}
<1>1. D # {} /\ D \subseteq Nat
  <2>1. PICK i \in S : TRUE
    OBVIOUS
  <2>2. i \in 1 .. n /\ n - i \in 0 .. n /\ n - (n - i) = i
    OBVIOUS
  <2>3. n - i \in D
    BY <2>2
  <2>4. D \subseteq Nat
    OBVIOUS
  <2> QED
    BY <2>3, <2>4
<1>2. IsWellFoundedOn(R, Nat)
  BY NatLessThanWellFounded DEF OpToRel
<1> HIDE DEF D, R
<1>3. PICK m \in D : \A k \in D : ~(<<k, m>> \in R)
  BY <1>1, <1>2, WFMin
<1>4. m \in 0 .. n /\ n - m \in S
  BY <1>3 DEF D
<1>5. ASSUME NEW j \in S
      PROVE  j <= n - m
  <2>1. j \in 1 .. n /\ n - j \in 0 .. n /\ n - (n - j) = j
    OBVIOUS
  <2>2. n - j \in D /\ n - j \in Nat
    BY <2>1 DEF D
  <2>3. ~(<<n - j, m>> \in R)
    BY <1>3, <2>2
  <2>4. ~(n - j < m)
    BY <1>4, <2>2, <2>3 DEF R
  <2> QED
    BY <1>4, <2>1, <2>4
<1> QED
  BY <1>4, <1>5

(* A process sees the last position it gave the cursor.                    *)
LEMMA CursorLoad ==
  ASSUME NEW p \in Procs, NEW word \in Words, NEW cs,
         pending[p] \in Seq(StoreSet), Cursor(pending[p], cs, word),
         mem[word] = cs[0] % Wrap
  PROVE  Load(p, word) = cs[Len(pending[p])] % Wrap
<1> DEFINE q == pending[p]
           own == {i \in 1 .. Len(q) : q[i].word = word}
<1>0. Len(q) \in Nat /\ DOMAIN q = 1 .. Len(q)
  BY LenProperties
<1>1. Load(p, word) = IF own = {} THEN mem[word]
                      ELSE q[CHOOSE i \in own : \A j \in own : j <= i].v
  BY <1>0 DEF Load
<1> HIDE DEF q
<1>2. CASE own = {}
  <2>1. 0 \in 0 .. Len(q) /\ \A j \in 0 + 1 .. Len(q) : q[j].word # word
    BY <1>0, <1>2
  <2>2. cs[0] = cs[Len(q)]
    BY <2>1 DEF Cursor, Youngest, q
  <2> QED
    BY <1>1, <1>2, <2>2 DEF q
<1>3. CASE own # {}
  <2> DEFINE i == CHOOSE k \in own : \A j \in own : j <= k
  <2>0. own \subseteq 1 .. Len(q)
    OBVIOUS
  <2> HIDE DEF own
  <2>1. i \in own /\ \A j \in own : j <= i
    BY <1>0, <1>3, <2>0, LastExists
  <2>2. Load(p, word) = q[i].v
    BY <1>1, <1>3
  <2> HIDE DEF i
  <2>3. i \in 1 .. Len(q) /\ q[i].word = word
    BY <2>1 DEF own
  <2>4. q[i].v = cs[i] % Wrap
    BY <2>3 DEF Cursor, Stored, q
  <2>5. \A j \in i + 1 .. Len(q) : q[j].word # word
    <3> SUFFICES ASSUME NEW j \in i + 1 .. Len(q), q[j].word = word
                 PROVE  FALSE
      OBVIOUS
    <3>1. j \in own /\ ~(j <= i)
      BY <1>0, <2>3 DEF own
    <3> QED
      BY <2>1, <3>1
  <2>6. i \in 0 .. Len(q)
    BY <1>0, <2>3
  <2>7. cs[i] = cs[Len(q)]
    BY <2>5, <2>6 DEF Cursor, Youngest, q
  <2> QED
    BY <2>2, <2>4, <2>7 DEF q
<1> QED
  BY <1>2, <1>3

(* A store is put into the buffer; m is the position after it.             *)
Ext(cs, n, m) == [j \in 0 .. n + 1 |-> IF j <= n THEN cs[j] ELSE m]

LEMMA ExtFacts ==
  ASSUME NEW n \in Nat, NEW cs \in [0 .. n -> Nat], NEW m \in Nat
  PROVE  /\ Ext(cs, n, m) \in [0 .. n + 1 -> Nat]
         /\ \A j \in 0 .. n : Ext(cs, n, m)[j] = cs[j]
         /\ Ext(cs, n, m)[n + 1] = m
BY DEF Ext

LEMMA ExtNext ==
  ASSUME NEW n \in Nat, NEW cs \in [0 .. n + 1 -> Nat], NEW m \in Nat
  PROVE  /\ \A j \in 0 .. n + 1 : Ext(cs, n + 1, m)[j] = cs[j]
         /\ Ext(cs, n + 1, m)[n + 2] = m
BY DEF Ext

LEMMA AppendTwo ==
  ASSUME NEW S, NEW q \in Seq(S), NEW c \in S, NEW h \in S
  PROVE  q \o <<c, h>> = Append(Append(q, c), h)
<1>1. Append(q, c) = q \o <<c>> /\ Append(q, c) \in Seq(S)
  BY AppendIsConcat, AppendProperties
<1>2. Append(Append(q, c), h) = (q \o <<c>>) \o <<h>>
  BY <1>1, AppendIsConcat
<1>3. <<c>> \in Seq(S) /\ <<h>> \in Seq(S)
  OBVIOUS
<1>4. <<c>> \o <<h>> = <<c, h>>
  <2> DEFINE t == <<c, h>>
             u == <<c>> \o <<h>>
  <2>1. t \in Seq(S) /\ Len(t) = 2 /\ t[1] = c /\ t[2] = h
    OBVIOUS
  <2>2. Len(<<c>>) = 1 /\ Len(<<h>>) = 1 /\ <<c>>[1] = c /\ <<h>>[1] = h
    OBVIOUS
  <2>3. /\ u \in Seq(S) /\ Len(u) = Len(<<c>>) + Len(<<h>>)
        /\ \A i \in 1 .. Len(<<c>>) + Len(<<h>>) :
             u[i] = IF i <= Len(<<c>>) THEN <<c>>[i] ELSE <<h>>[i - Len(<<c>>)]
    BY <1>3, ConcatProperties
  <2> HIDE DEF t, u
  <2>4. Len(u) = 2 /\ u[1] = c /\ u[2] = h
    BY <2>2, <2>3
  <2>5. \A i \in 1 .. Len(u) : u[i] = t[i]
    <3>1. \A i \in 1 .. 2 : i = 1 \/ i = 2
      OBVIOUS
    <3> QED
      BY <2>1, <2>4, <3>1
  <2>6. u = t
    BY <2>1, <2>3, <2>4, <2>5, SeqEqual
  <2> QED
    BY <2>6 DEF t, u
<1>5. (q \o <<c>>) \o <<h>> = q \o (<<c>> \o <<h>>)
  BY <1>3, ConcatAssociative
<1> QED
  BY <1>2, <1>4, <1>5

LEMMA CursorAppend ==
  ASSUME NEW q \in Seq(StoreSet), NEW cs, NEW word, Cursor(q, cs, word),
         NEW st \in StoreSet, NEW m \in Nat, cs[Len(q)] <= m,
         st.word = word => st.v = m % Wrap,
         st.word # word => m = cs[Len(q)]
  PROVE  Cursor(Append(q, st), Ext(cs, Len(q), m), word)
<1> DEFINE n == Len(q)
           r == Append(q, st)
           ds == Ext(cs, n, m)
<1>0. n \in Nat /\ cs \in [0 .. n -> Nat]
  BY LenProperties DEF Cursor
<1>1. Len(r) = n + 1 /\ (\A i \in 1 .. n : r[i] = q[i]) /\ r[n + 1] = st
  BY AppendProperties
<1>2. /\ ds \in [0 .. n + 1 -> Nat]
      /\ \A j \in 0 .. n : ds[j] = cs[j]
      /\ ds[n + 1] = m
  BY <1>0, ExtFacts
<1>3. cs[n] <= m
  OBVIOUS
<1> HIDE DEF r, ds
<1>4. Grows(ds, n + 1)
  <2> SUFFICES ASSUME NEW i \in 0 .. n + 1, NEW j \in 0 .. n + 1, i <= j
               PROVE  ds[i] <= ds[j]
    BY DEF Grows
  <2>1. \A k \in 0 .. n : ds[k] = cs[k] /\ cs[k] \in Nat /\ cs[k] <= cs[n]
    BY <1>0, <1>2 DEF Cursor, Grows
  <2>2. CASE j = n + 1
    <3>1. CASE i = n + 1
      BY <1>2, <2>2, <3>1
    <3>2. CASE i # n + 1
      <4>1. i \in 0 .. n /\ n \in 0 .. n
        BY <1>0, <3>2
      <4>2. ds[i] = cs[i] /\ cs[i] <= cs[n] /\ cs[i] \in Nat /\ cs[n] \in Nat
        BY <2>1, <4>1
      <4> QED
        BY <1>2, <1>3, <2>2, <4>2
    <3> QED
      BY <3>1, <3>2
  <2>3. CASE j # n + 1
    <3>1. i \in 0 .. n /\ j \in 0 .. n
      BY <1>0, <2>3
    <3>2. cs[i] <= cs[j]
      BY <3>1 DEF Cursor, Grows
    <3> QED
      BY <1>2, <3>1, <3>2
  <2> QED
    BY <2>2, <2>3
<1>5. Youngest(r, ds, word)
  <2> SUFFICES ASSUME NEW i \in 0 .. n + 1, \A j \in i + 1 .. n + 1 : r[j].word # word
               PROVE  ds[i] = ds[n + 1]
    BY <1>1 DEF Youngest
  <2>1. CASE i = n + 1
    BY <2>1
  <2>2. CASE i # n + 1
    <3>1. i \in 0 .. n /\ n + 1 \in i + 1 .. n + 1
      BY <1>0, <2>2
    <3>2. m = cs[n]
      BY <1>1, <3>1
    <3>3. \A j \in i + 1 .. n : q[j].word # word
      <4> TAKE j \in i + 1 .. n
      <4>1. j \in 1 .. n /\ j \in i + 1 .. n + 1
        BY <1>0, <3>1
      <4> QED
        BY <1>1, <4>1
    <3>4. cs[i] = cs[n]
      BY <3>1, <3>3 DEF Cursor, Youngest
    <3> QED
      BY <1>2, <3>1, <3>2, <3>4
  <2> QED
    BY <2>1, <2>2
<1>6. ASSUME NEW j \in 1 .. n + 1
      PROVE  Stored(r, ds, word, j)
  <2>1. CASE j = n + 1
    <3>1. r[j] = st /\ ds[j] = m /\ j - 1 = n /\ n \in 0 .. n
      BY <1>0, <1>1, <1>2, <2>1
    <3>2. ds[j - 1] = cs[n]
      BY <1>2, <3>1
    <3> QED
      BY <3>1, <3>2 DEF Stored
  <2>2. CASE j # n + 1
    <3>1. j \in 1 .. n /\ j \in 0 .. n /\ j - 1 \in 0 .. n
      BY <1>0, <2>2
    <3>2. r[j] = q[j] /\ ds[j] = cs[j] /\ ds[j - 1] = cs[j - 1]
      BY <1>1, <1>2, <3>1
    <3>3. Stored(q, cs, word, j)
      BY <3>1 DEF Cursor
    <3> QED
      BY <3>2, <3>3 DEF Stored
  <2> QED
    BY <2>1, <2>2
<1>7. Cursor(r, ds, word)
  BY <1>1, <1>2, <1>4, <1>5, <1>6 DEF Cursor
<1> QED
  BY <1>7 DEF r, ds

(* The oldest store has arrived.                                           *)
Shift(cs, n) == [j \in 0 .. n - 1 |-> cs[j + 1]]

LEMMA ShiftFacts ==
  ASSUME NEW n \in Nat, n > 0, NEW cs \in [0 .. n -> Nat]
  PROVE  /\ Shift(cs, n) \in [0 .. n - 1 -> Nat]
         /\ \A j \in 0 .. n - 1 : Shift(cs, n)[j] = cs[j + 1]
<1>1. \A j \in 0 .. n - 1 : j + 1 \in 0 .. n
  OBVIOUS
<1> QED
  BY <1>1 DEF Shift

LEMMA CursorTail ==
  ASSUME NEW q \in Seq(StoreSet), q # <<>>, NEW cs, NEW word, Cursor(q, cs, word)
  PROVE  Cursor(Tail(q), Shift(cs, Len(q)), word)
<1> DEFINE n == Len(q)
           r == Tail(q)
           ds == Shift(cs, n)
<1>0. n \in Nat /\ n > 0 /\ cs \in [0 .. n -> Nat]
  BY LenProperties, EmptySeq DEF Cursor
<1>1. Len(r) = n - 1 /\ \A i \in 1 .. n - 1 : r[i] = q[i + 1]
  <2>1. Len(r) = n - 1 /\ \A i \in 1 .. Len(r) : r[i] = q[i + 1]
    BY HeadTailProperties
  <2> QED
    BY <2>1
<1>2. ds \in [0 .. n - 1 -> Nat] /\ \A j \in 0 .. n - 1 : ds[j] = cs[j + 1]
  BY <1>0, ShiftFacts
<1> HIDE DEF r, ds
<1>3. Grows(ds, n - 1)
  <2> SUFFICES ASSUME NEW i \in 0 .. n - 1, NEW j \in 0 .. n - 1, i <= j
               PROVE  ds[i] <= ds[j]
    BY DEF Grows
  <2>1. i + 1 \in 0 .. n /\ j + 1 \in 0 .. n /\ i + 1 <= j + 1
    BY <1>0
  <2>2. cs[i + 1] <= cs[j + 1]
    BY <2>1 DEF Cursor, Grows
  <2> QED
    BY <1>2, <2>2
<1>4. Youngest(r, ds, word)
  <2> SUFFICES ASSUME NEW i \in 0 .. n - 1, \A j \in i + 1 .. n - 1 : r[j].word # word
               PROVE  ds[i] = ds[n - 1]
    BY <1>1 DEF Youngest
  <2>1. i + 1 \in 0 .. n /\ n - 1 \in 0 .. n - 1 /\ (n - 1) + 1 = n
    BY <1>0
  <2>2. \A j \in (i + 1) + 1 .. n : q[j].word # word
    <3> TAKE j \in (i + 1) + 1 .. n
    <3>1. j - 1 \in i + 1 .. n - 1 /\ j - 1 \in 1 .. n - 1 /\ (j - 1) + 1 = j
      BY <1>0
    <3>2. r[j - 1] = q[j]
      BY <1>1, <3>1
    <3> QED
      BY <3>1, <3>2
  <2>3. cs[i + 1] = cs[n]
    BY <2>1, <2>2 DEF Cursor, Youngest
  <2> QED
    BY <1>2, <2>1, <2>3
<1>5. ASSUME NEW j \in 1 .. n - 1
      PROVE  Stored(r, ds, word, j)
  <2>1. j + 1 \in 1 .. n /\ j \in 0 .. n - 1 /\ j - 1 \in 0 .. n - 1 /\ (j - 1) + 1 = j /\ (j + 1) - 1 = j
    BY <1>0
  <2>2. r[j] = q[j + 1] /\ ds[j] = cs[j + 1] /\ ds[j - 1] = cs[j]
    BY <1>1, <1>2, <2>1
  <2>3. Stored(q, cs, word, j + 1)
    BY <2>1 DEF Cursor
  <2> QED
    BY <2>1, <2>2, <2>3 DEF Stored
<1>6. Cursor(r, ds, word)
  BY <1>1, <1>2, <1>3, <1>4, <1>5 DEF Cursor
<1> QED
  BY <1>6 DEF r, ds

-----------------------------------------------------------------------------
(* The stream of cells.  The i-th frame sent begins at pos[i]; CellIs says *)
(* that v is what the stream holds at position a.                          *)
FrameSet == [frame : Nat, len : 0 .. Cap - Hdr]

Layout(pos, fs) ==
  /\ pos \in [1 .. Len(fs) + 1 -> Nat]
  /\ pos[1] = 0
  /\ \A i \in 1 .. Len(fs) : pos[i + 1] = pos[i] + 2 + fs[i].len
  /\ \A i \in 1 .. Len(fs) + 1 : \A j \in 1 .. Len(fs) + 1 : i <= j => pos[i] <= pos[j]

CellIs(pos, fs, a, v) ==
  /\ v \in Nat
  /\ \A i \in 1 .. Len(fs) :
       pos[i] <= a /\ a < pos[i + 1] =>
         v = IF a = pos[i] + 1 THEN fs[i].len ELSE fs[i].frame

(* One more frame.                                                         *)
Longer(pos, n, len) == [i \in 1 .. n + 2 |-> IF i <= n + 1 THEN pos[i] ELSE pos[n + 1] + 2 + len]

LEMMA LongerFacts ==
  ASSUME NEW fs \in Seq(FrameSet), NEW pos, Layout(pos, fs), NEW f \in FrameSet,
         NEW n, n = Len(fs)
  PROVE  /\ n \in Nat /\ f.len \in Nat
         /\ Longer(pos, n, f.len) \in [1 .. n + 2 -> Nat]
         /\ \A i \in 1 .. n + 1 : Longer(pos, n, f.len)[i] = pos[i] /\ pos[i] \in Nat /\ pos[i] <= pos[n + 1]
         /\ Longer(pos, n, f.len)[n + 2] = pos[n + 1] + 2 + f.len
         /\ pos[n + 1] \in Nat
<1>1. n \in Nat /\ f.len \in Nat /\ pos \in [1 .. n + 1 -> Nat]
  BY LenProperties, Sizes DEF FrameSet, Layout, Hdr
<1>2. n + 1 \in 1 .. n + 1
  BY <1>1
<1>3. pos[n + 1] \in Nat
  BY <1>1, <1>2
<1>4. \A i \in 1 .. n + 1 : pos[i] \in Nat /\ pos[i] <= pos[n + 1]
  BY <1>1, <1>2 DEF Layout
<1>5. \A i \in 1 .. n + 1 : Longer(pos, n, f.len)[i] = pos[i]
  BY <1>1 DEF Longer
<1>6. Longer(pos, n, f.len)[n + 2] = pos[n + 1] + 2 + f.len
  BY <1>1 DEF Longer
<1>7. Longer(pos, n, f.len) \in [1 .. n + 2 -> Nat]
  <2>1. \A i \in 1 .. n + 2 : (IF i <= n + 1 THEN pos[i] ELSE pos[n + 1] + 2 + f.len) \in Nat
    BY <1>1, <1>3, <1>4
  <2> QED
    BY <2>1 DEF Longer
<1> QED
  BY <1>1, <1>3, <1>4, <1>5, <1>6, <1>7

LEMMA LayoutGrows ==
  ASSUME NEW fs \in Seq(FrameSet), NEW pos, Layout(pos, fs), NEW f \in FrameSet
  PROVE  Layout(Longer(pos, Len(fs), f.len), Append(fs, f))
<1> DEFINE n == Len(fs)
           gs == Append(fs, f)
           new == Longer(pos, n, f.len)
<1>0. /\ n \in Nat /\ f.len \in Nat
      /\ new \in [1 .. n + 2 -> Nat]
      /\ \A i \in 1 .. n + 1 : new[i] = pos[i] /\ pos[i] \in Nat /\ pos[i] <= pos[n + 1]
      /\ new[n + 2] = pos[n + 1] + 2 + f.len
      /\ pos[n + 1] \in Nat
  BY LongerFacts
<1>1. Len(gs) = n + 1 /\ (\A i \in 1 .. n : gs[i] = fs[i]) /\ gs[n + 1] = f
  BY AppendProperties
<1> HIDE DEF new, gs
<1>2. new[1] = 0
  BY <1>0 DEF Layout
<1>3. ASSUME NEW i \in 1 .. n + 1
      PROVE  new[i + 1] = new[i] + 2 + gs[i].len
  <2>1. CASE i = n + 1
    <3>1. i + 1 = n + 2
      BY <1>0, <2>1
    <3> QED
      BY <1>0, <1>1, <2>1, <3>1
  <2>2. CASE i # n + 1
    <3>0. n \in Nat
      BY <1>0
    <3>1. i \in 1 .. n /\ i + 1 \in 1 .. n + 1
      BY <2>2, <3>0
    <3>2. new[i] = pos[i] /\ new[i + 1] = pos[i + 1] /\ gs[i] = fs[i]
      BY <1>0, <1>1, <3>1
    <3> QED
      BY <3>1, <3>2 DEF Layout
  <2> QED
    BY <2>1, <2>2
<1>4. ASSUME NEW i \in 1 .. n + 2, NEW j \in 1 .. n + 2, i <= j
      PROVE  new[i] <= new[j]
  <2>1. CASE j = n + 2
    <3>1. CASE i = n + 2
      BY <1>0, <2>1, <3>1
    <3>2. CASE i # n + 2
      <4>1. i \in 1 .. n + 1
        BY <1>0, <3>2
      <4>2. new[i] = pos[i] /\ pos[i] \in Nat /\ pos[i] <= pos[n + 1]
        BY <1>0, <4>1
      <4> QED
        BY <1>0, <2>1, <4>2
    <3> QED
      BY <3>1, <3>2
  <2>2. CASE j # n + 2
    <3>1. i \in 1 .. n + 1 /\ j \in 1 .. n + 1
      BY <1>0, <1>4, <2>2
    <3>2. pos[i] <= pos[j]
      BY <1>4, <3>1 DEF Layout
    <3> QED
      BY <1>0, <3>1, <3>2
  <2> QED
    BY <2>1, <2>2
<1>5. (n + 1) + 1 = n + 2
  BY <1>0
<1>6. Layout(new, gs)
  BY <1>0, <1>1, <1>2, <1>3, <1>4, <1>5 DEF Layout
<1> QED
  BY <1>6 DEF new, gs

(* The cells before it stay what they are.                                 *)
LEMMA CellStays ==
  ASSUME NEW fs \in Seq(FrameSet), NEW pos, Layout(pos, fs), NEW f \in FrameSet,
         NEW a \in Nat, NEW v, CellIs(pos, fs, a, v), a < pos[Len(fs) + 1]
  PROVE  CellIs(Longer(pos, Len(fs), f.len), Append(fs, f), a, v)
<1> DEFINE n == Len(fs)
           gs == Append(fs, f)
           new == Longer(pos, n, f.len)
<1>0. /\ n \in Nat
      /\ \A i \in 1 .. n + 1 : new[i] = pos[i] /\ pos[i] \in Nat /\ pos[i] <= pos[n + 1]
      /\ pos[n + 1] \in Nat
  BY LongerFacts
<1>1. Len(gs) = n + 1 /\ (\A i \in 1 .. n : gs[i] = fs[i]) /\ gs[n + 1] = f
  BY AppendProperties
<1> HIDE DEF new, gs
<1>2. ASSUME NEW i \in 1 .. n + 1, new[i] <= a, a < new[i + 1]
      PROVE  v = IF a = new[i] + 1 THEN gs[i].len ELSE gs[i].frame
  <2>1. i # n + 1
    BY <1>0, <1>2
  <2>2. i \in 1 .. n /\ i \in 1 .. n + 1 /\ i + 1 \in 1 .. n + 1
    BY <1>0, <2>1
  <2>3. new[i] = pos[i] /\ new[i + 1] = pos[i + 1] /\ gs[i] = fs[i]
    BY <1>0, <1>1, <2>2
  <2> QED
    BY <1>2, <2>2, <2>3 DEF CellIs
<1>3. v \in Nat
  BY DEF CellIs
<1>4. CellIs(new, gs, a, v)
  BY <1>1, <1>2, <1>3 DEF CellIs
<1> QED
  BY <1>4 DEF new, gs

(* Its own cells.                                                          *)
LEMMA NewCell ==
  ASSUME NEW fs \in Seq(FrameSet), NEW pos, Layout(pos, fs), NEW f \in FrameSet,
         NEW a \in Nat, pos[Len(fs) + 1] <= a, NEW v \in Nat,
         v = IF a = pos[Len(fs) + 1] + 1 THEN f.len ELSE f.frame
  PROVE  CellIs(Longer(pos, Len(fs), f.len), Append(fs, f), a, v)
<1> DEFINE n == Len(fs)
           gs == Append(fs, f)
           new == Longer(pos, n, f.len)
<1>0. /\ n \in Nat
      /\ \A i \in 1 .. n + 1 : new[i] = pos[i] /\ pos[i] \in Nat /\ pos[i] <= pos[n + 1]
      /\ pos[n + 1] \in Nat
  BY LongerFacts
<1>1. Len(gs) = n + 1 /\ gs[n + 1] = f
  BY AppendProperties
<1> HIDE DEF new, gs
<1>2. ASSUME NEW i \in 1 .. n + 1, new[i] <= a, a < new[i + 1]
      PROVE  v = IF a = new[i] + 1 THEN gs[i].len ELSE gs[i].frame
  <2>1. CASE i = n + 1
    BY <1>0, <1>1, <2>1
  <2>2. CASE i # n + 1
    <3>1. i + 1 \in 1 .. n + 1
      BY <1>0, <2>2
    <3>2. new[i + 1] = pos[i + 1] /\ pos[i + 1] \in Nat /\ pos[i + 1] <= pos[n + 1]
      BY <1>0, <3>1
    <3> QED
      BY <1>0, <1>2, <3>2
  <2> QED
    BY <2>1, <2>2
<1>3. CellIs(new, gs, a, v)
  BY <1>1, <1>2 DEF CellIs
<1> QED
  BY <1>3 DEF new, gs

-----------------------------------------------------------------------------
(* The sender's stores: the cells of a push, then the head behind them.    *)
Copied(q, cs, pos, fs, j) ==
  /\ j < Len(q) /\ q[j + 1].word = "head"
  /\ cs[j + 1] = cs[j] + Len(q[j].v)
  /\ q[j].at = cs[j] % Cap
  /\ q[j].v \in Seq(Nat)
  /\ \A i \in 1 .. Len(q[j].v) : CellIs(pos, fs, cs[j] + i - 1, q[j].v[i])

Copies(q, cs, pos, fs) ==
  \A j \in 1 .. Len(q) :
    /\ q[j].word \in {"head", "waiter", "buf"}
    /\ q[j].word = "head" /\ j > 1 => q[j - 1].word = "buf"
    /\ q[j].word = "buf" => Copied(q, cs, pos, fs, j)

LEMMA CopiesTail ==
  ASSUME NEW q \in Seq(StoreSet), q # <<>>, NEW cs \in [0 .. Len(q) -> Nat],
         NEW pos, NEW fs, Copies(q, cs, pos, fs)
  PROVE  Copies(Tail(q), Shift(cs, Len(q)), pos, fs)
<1> DEFINE n == Len(q)
           r == Tail(q)
           ds == Shift(cs, n)
<1>0. n \in Nat /\ n > 0
  BY LenProperties, EmptySeq
<1>1. Len(r) = n - 1 /\ \A i \in 1 .. n - 1 : r[i] = q[i + 1]
  <2>1. Len(r) = n - 1 /\ \A i \in 1 .. Len(r) : r[i] = q[i + 1]
    BY HeadTailProperties
  <2> QED
    BY <2>1
<1>2. \A j \in 0 .. n - 1 : ds[j] = cs[j + 1]
  BY <1>0, ShiftFacts
<1> HIDE DEF r, ds
<1>3. ASSUME NEW j \in 1 .. n - 1
      PROVE  /\ r[j].word \in {"head", "waiter", "buf"}
             /\ r[j].word = "head" /\ j > 1 => r[j - 1].word = "buf"
             /\ r[j].word = "buf" => Copied(r, ds, pos, fs, j)
  <2>1. j + 1 \in 1 .. n /\ j \in 0 .. n - 1 /\ r[j] = q[j + 1] /\ ds[j] = cs[j + 1]
    BY <1>0, <1>1, <1>2
  <2>2. r[j].word \in {"head", "waiter", "buf"}
    BY <2>1 DEF Copies
  <2>3. ASSUME r[j].word = "head", j > 1
        PROVE  r[j - 1].word = "buf"
    <3>1. j - 1 \in 1 .. n - 1 /\ (j - 1) + 1 = j /\ (j + 1) - 1 = j /\ j + 1 > 1
      BY <1>0, <2>3
    <3>2. r[j - 1] = q[j]
      BY <1>1, <3>1
    <3>3. q[(j + 1) - 1].word = "buf"
      BY <2>1, <2>3, <3>1 DEF Copies
    <3> QED
      BY <3>1, <3>2, <3>3
  <2>4. ASSUME r[j].word = "buf"
        PROVE  Copied(r, ds, pos, fs, j)
    <3>1. Copied(q, cs, pos, fs, j + 1)
      BY <2>1, <2>4 DEF Copies
    <3>2. j + 1 < n
      BY <3>1 DEF Copied
    <3>3. j + 1 \in 1 .. n - 1 /\ j + 1 \in 0 .. n - 1 /\ j < n - 1
      BY <1>0, <3>2
    <3>4. r[j + 1] = q[(j + 1) + 1] /\ ds[j + 1] = cs[(j + 1) + 1]
      BY <1>1, <1>2, <3>3
    <3> QED
      BY <1>1, <2>1, <3>1, <3>3, <3>4 DEF Copied
  <2> QED
    BY <2>2, <2>3, <2>4
<1>4. Copies(r, ds, pos, fs)
  BY <1>1, <1>3 DEF Copies
<1> QED
  BY <1>4 DEF r, ds

(* CheckWaiter: waiter = 0 behind whatever is there.                       *)
LEMMA CopiesWaiter ==
  ASSUME NEW q \in Seq(StoreSet), NEW cs \in [0 .. Len(q) -> Nat],
         NEW pos, NEW fs, Copies(q, cs, pos, fs),
         NEW st \in StoreSet, st.word = "waiter", NEW m \in Nat
  PROVE  Copies(Append(q, st), Ext(cs, Len(q), m), pos, fs)
<1> DEFINE n == Len(q)
           r == Append(q, st)
           ds == Ext(cs, n, m)
<1>0. n \in Nat
  BY LenProperties
<1>1. Len(r) = n + 1 /\ (\A i \in 1 .. n : r[i] = q[i]) /\ r[n + 1] = st
  BY AppendProperties
<1>2. \A j \in 0 .. n : ds[j] = cs[j]
  BY <1>0, ExtFacts
<1> HIDE DEF r, ds
<1>3. ASSUME NEW j \in 1 .. n + 1
      PROVE  /\ r[j].word \in {"head", "waiter", "buf"}
             /\ r[j].word = "head" /\ j > 1 => r[j - 1].word = "buf"
             /\ r[j].word = "buf" => Copied(r, ds, pos, fs, j)
  <2>1. CASE j = n + 1
    BY <1>1, <2>1
  <2>2. CASE j # n + 1
    <3>1. j \in 1 .. n /\ j \in 0 .. n /\ r[j] = q[j] /\ ds[j] = cs[j]
      BY <1>0, <1>1, <1>2, <2>2
    <3>2. r[j].word \in {"head", "waiter", "buf"}
      BY <3>1 DEF Copies
    <3>3. ASSUME r[j].word = "head", j > 1
          PROVE  r[j - 1].word = "buf"
      <4>1. j - 1 \in 1 .. n
        BY <1>0, <3>1, <3>3
      <4>2. q[j - 1].word = "buf"
        BY <3>1, <3>3 DEF Copies
      <4> QED
        BY <1>1, <4>1, <4>2
    <3>4. ASSUME r[j].word = "buf"
          PROVE  Copied(r, ds, pos, fs, j)
      <4>1. Copied(q, cs, pos, fs, j)
        BY <3>1, <3>4 DEF Copies
      <4>2. j < n
        BY <4>1 DEF Copied
      <4>3. j + 1 \in 1 .. n /\ j + 1 \in 0 .. n /\ j < n + 1
        BY <1>0, <4>2
      <4>4. r[j + 1] = q[j + 1] /\ ds[j + 1] = cs[j + 1]
        BY <1>1, <1>2, <4>3
      <4> QED
        BY <1>1, <3>1, <4>1, <4>3, <4>4 DEF Copied
    <3> QED
      BY <3>2, <3>3, <3>4
  <2> QED
    BY <2>1, <2>2
<1>4. Copies(r, ds, pos, fs)
  BY <1>1, <1>3 DEF Copies
<1> QED
  BY <1>4 DEF r, ds

(* A frame behind the last one changes no cell the buffer holds.           *)
LEMMA CopiesStay ==
  ASSUME NEW q \in Seq(StoreSet), NEW cs, Cursor(q, cs, "head"),
         NEW fs \in Seq(FrameSet), NEW pos, Layout(pos, fs), NEW f \in FrameSet,
         Copies(q, cs, pos, fs), cs[Len(q)] <= pos[Len(fs) + 1]
  PROVE  Copies(q, cs, Longer(pos, Len(fs), f.len), Append(fs, f))
<1> DEFINE gs == Append(fs, f)
           new == Longer(pos, Len(fs), f.len)
           n == Len(q)
<1>0. n \in Nat /\ cs \in [0 .. n -> Nat]
  BY LenProperties DEF Cursor
<1>1. pos[Len(fs) + 1] \in Nat
  BY LongerFacts
<1>2. ASSUME NEW j \in 1 .. n, q[j].word = "buf"
      PROVE  Copied(q, cs, new, gs, j)
  <2>1. Copied(q, cs, pos, fs, j)
    BY <1>2 DEF Copies
  <2> DEFINE L == Len(q[j].v)
  <2>2. j + 1 \in 0 .. n /\ j \in 0 .. n /\ n \in 0 .. n /\ j + 1 <= n
    BY <1>0, <2>1 DEF Copied
  <2>3. cs[j + 1] = cs[j] + L /\ L \in Nat /\ cs[j] \in Nat /\ cs[j + 1] <= cs[n] /\ cs[n] \in Nat
    <3>1. cs[j + 1] = cs[j] + L /\ q[j].v \in Seq(Nat)
      BY <2>1 DEF Copied
    <3>2. cs[j + 1] <= cs[n]
      BY <2>2 DEF Cursor, Grows
    <3> QED
      BY <1>0, <2>2, <3>1, <3>2, LenProperties
  <2>4. ASSUME NEW i \in 1 .. L
        PROVE  CellIs(new, gs, cs[j] + i - 1, q[j].v[i])
    <3> DEFINE a == cs[j] + i - 1
    <3>0. cs[n] <= pos[Len(fs) + 1]
      OBVIOUS
    <3>1. a \in Nat /\ a < pos[Len(fs) + 1]
      <4> DEFINE x == cs[j]
                 y == cs[n]
                 z == pos[Len(fs) + 1]
      <4>1. x \in Nat /\ y \in Nat /\ z \in Nat /\ L \in Nat /\ x + L <= y /\ y <= z /\ i \in 1 .. L
        BY <1>1, <2>3, <3>0
      <4> HIDE DEF x, y, z, L
      <4>2. x + i - 1 \in Nat /\ x + i - 1 < z
        BY <4>1
      <4> QED
        BY <4>2 DEF x, z
    <3>2. CellIs(pos, fs, a, q[j].v[i])
      BY <2>1 DEF Copied
    <3> HIDE DEF a
    <3>3. CellIs(new, gs, a, q[j].v[i])
      BY <3>1, <3>2, CellStays
    <3> QED
      BY <3>3 DEF a
  <2> HIDE DEF gs, new
  <2> QED
    BY <2>1, <2>4 DEF Copied
<1> HIDE DEF gs, new
<1>3. Copies(q, cs, new, gs)
  BY <1>2 DEF Copies
<1> QED
  BY <1>3 DEF new, gs

LEMMA CopiesPair ==
  ASSUME NEW q \in Seq(StoreSet), NEW cs \in [0 .. Len(q) -> Nat],
         NEW pos, NEW fs, Copies(q, cs, pos, fs),
         NEW c \in StoreSet, c.word = "buf", c.at = cs[Len(q)] % Cap, c.v \in Seq(Nat),
         \A i \in 1 .. Len(c.v) : CellIs(pos, fs, cs[Len(q)] + i - 1, c.v[i]),
         NEW h \in StoreSet, h.word = "head",
         NEW ds, ds = Ext(Ext(cs, Len(q), cs[Len(q)]), Len(q) + 1, cs[Len(q)] + Len(c.v))
  PROVE  Copies(Append(Append(q, c), h), ds, pos, fs)
<1> DEFINE n == Len(q)
           r == Append(Append(q, c), h)
           m == cs[n] + Len(c.v)
<1>0. n \in Nat /\ cs[n] \in Nat /\ m \in Nat /\ n + 1 \in Nat
  BY LenProperties
<1>1. /\ Len(r) = n + 2
      /\ \A i \in 1 .. n : r[i] = q[i]
      /\ r[n + 1] = c /\ r[n + 2] = h
  <2> DEFINE a == Append(q, c)
  <2>1. a \in Seq(StoreSet) /\ Len(a) = n + 1 /\ (\A i \in 1 .. n : a[i] = q[i]) /\ a[n + 1] = c
    BY AppendProperties
  <2> HIDE DEF a
  <2>2. Len(Append(a, h)) = Len(a) + 1 /\ (\A i \in 1 .. Len(a) : Append(a, h)[i] = a[i]) /\ Append(a, h)[Len(a) + 1] = h
    BY <2>1, AppendProperties
  <2>3. (n + 1) + 1 = n + 2 /\ n + 1 \in 1 .. n + 1 /\ \A i \in 1 .. n : i \in 1 .. n + 1
    BY <1>0
  <2>4. \A i \in 1 .. n : Append(a, h)[i] = q[i]
    BY <2>1, <2>2, <2>3
  <2>5. Len(Append(a, h)) = n + 2 /\ Append(a, h)[n + 1] = c /\ Append(a, h)[n + 2] = h
    BY <2>1, <2>2, <2>3
  <2> QED
    BY <2>4, <2>5 DEF a
<1>2. /\ \A j \in 0 .. n : ds[j] = cs[j]
      /\ ds[n + 1] = cs[n] /\ ds[n + 2] = m
  <2> DEFINE es == Ext(cs, n, cs[n])
  <2>1. es \in [0 .. n + 1 -> Nat] /\ (\A j \in 0 .. n : es[j] = cs[j]) /\ es[n + 1] = cs[n]
    BY <1>0, ExtFacts
  <2> HIDE DEF es, m
  <2>2. (\A j \in 0 .. n + 1 : Ext(es, n + 1, m)[j] = es[j]) /\ Ext(es, n + 1, m)[(n + 1) + 1] = m
    BY <1>0, <2>1, ExtFacts
  <2>3. (n + 1) + 1 = n + 2 /\ n + 1 \in 0 .. n + 1 /\ \A j \in 0 .. n : j \in 0 .. n + 1
    BY <1>0
  <2>4. ds = Ext(es, n + 1, m)
    BY DEF es, m
  <2>5. \A j \in 0 .. n : ds[j] = cs[j]
    BY <2>1, <2>2, <2>3, <2>4
  <2> QED
    BY <2>1, <2>2, <2>3, <2>4, <2>5
<1> HIDE DEF r
<1>3. ASSUME NEW j \in 1 .. n + 2
      PROVE  /\ r[j].word \in {"head", "waiter", "buf"}
             /\ r[j].word = "head" /\ j > 1 => r[j - 1].word = "buf"
             /\ r[j].word = "buf" => Copied(r, ds, pos, fs, j)
  <2>1. CASE j = n + 2
    <3>1. r[j] = h /\ j - 1 = n + 1 /\ r[n + 1] = c
      BY <1>0, <1>1, <2>1
    <3> QED
      BY <3>1
  <2>2. CASE j = n + 1
    <3>1. r[j] = c /\ r[j + 1] = h /\ ds[j] = cs[n] /\ ds[j + 1] = m /\ j < n + 2
      <4>1. j + 1 = n + 2 /\ j < n + 2
        BY <1>0, <2>2
      <4> QED
        BY <1>1, <1>2, <2>2, <4>1
    <3>2. Copied(r, ds, pos, fs, j)
      BY <1>1, <3>1 DEF Copied
    <3> QED
      BY <3>1, <3>2
  <2>3. CASE j # n + 1 /\ j # n + 2
    <3>1. j \in 1 .. n /\ j \in 0 .. n
      BY <1>0, <2>3
    <3>2. r[j] = q[j] /\ ds[j] = cs[j]
      BY <1>1, <1>2, <3>1
    <3>3. r[j].word \in {"head", "waiter", "buf"}
      BY <3>1, <3>2 DEF Copies
    <3>4. ASSUME r[j].word = "head", j > 1
          PROVE  r[j - 1].word = "buf"
      <4>1. j - 1 \in 1 .. n
        BY <1>0, <3>1, <3>4
      <4>2. q[j - 1].word = "buf"
        BY <3>1, <3>2, <3>4 DEF Copies
      <4> QED
        BY <1>1, <4>1, <4>2
    <3>5. ASSUME r[j].word = "buf"
          PROVE  Copied(r, ds, pos, fs, j)
      <4>1. Copied(q, cs, pos, fs, j)
        BY <3>1, <3>2, <3>5 DEF Copies
      <4>2. j < n
        BY <4>1 DEF Copied
      <4>3. j + 1 \in 1 .. n /\ j + 1 \in 0 .. n /\ j < n + 2
        BY <1>0, <4>2
      <4>4. r[j + 1] = q[j + 1] /\ ds[j + 1] = cs[j + 1]
        BY <1>1, <1>2, <4>3
      <4> QED
        BY <1>1, <3>2, <4>1, <4>3, <4>4 DEF Copied
    <3> QED
      BY <3>3, <3>4, <3>5
  <2> QED
    BY <2>1, <2>2, <2>3
<1>4. Copies(r, ds, pos, fs)
  BY <1>1, <1>3 DEF Copies
<1> QED
  BY <1>4 DEF r

(* What the sender has not yet stored, with the cells of the stream.       *)
HeadQ(q, cs, pos, fs) ==
  /\ q \in Seq(StoreSet)
  /\ Cursor(q, cs, "head")
  /\ Copies(q, cs, pos, fs)

(* A head store comes first in r only if it already came first in q.       *)
SameFirst(q, cs, r, ds) ==
  /\ ds[0] = cs[0]
  /\ r # <<>> /\ r[1].word = "head" => q # <<>> /\ q[1].word = "head" /\ ds[1] = cs[1]

(* The stores of a ring_push at the position m, and the cells they bring.  *)
Pushed(m, cells) == <<Copy(m % Cap, cells), Store("head", (m + Len(cells)) % Wrap)>>
CellsAt(pos, fs, m, cells) == \A i \in 1 .. Len(cells) : CellIs(pos, fs, m + i - 1, cells[i])

LEMMA PushPair ==
  ASSUME NEW q, NEW cs, NEW pos, NEW fs, HeadQ(q, cs, pos, fs),
         NEW m \in Nat, m = cs[Len(q)],
         NEW cells \in Seq(Nat),
         CellsAt(pos, fs, m, cells),
         NEW r, r = q \o Pushed(m, cells)
  PROVE  \E ds : /\ HeadQ(r, ds, pos, fs)
                 /\ ds[Len(r)] = m + Len(cells)
                 /\ SameFirst(q, cs, r, ds)
<1> DEFINE n == Len(q)
           c == Copy(m % Cap, cells)
           e == m + Len(cells)
           h == Store("head", e % Wrap)
           es == Ext(cs, n, m)
           ds == Ext(es, n + 1, e)
<1>0. /\ q \in Seq(StoreSet) /\ Cursor(q, cs, "head") /\ Copies(q, cs, pos, fs)
      /\ n \in Nat /\ cs \in [0 .. n -> Nat] /\ e \in Nat /\ m <= e /\ Len(cells) \in Nat
  BY LenProperties DEF HeadQ, Cursor
<1>1. /\ c \in StoreSet /\ c.word = "buf" /\ c.at = m % Cap /\ c.v = cells
      /\ h \in StoreSet /\ h.word = "head" /\ h.v = e % Wrap
  <2>1. m % Cap \in Nat /\ e % Wrap \in Nat
    BY <1>0, Remainders
  <2> QED
    BY <2>1 DEF Copy, Store, StoreSet, Words
<1> HIDE DEF c, h, e
<1>2. /\ es \in [0 .. n + 1 -> Nat]
      /\ \A j \in 0 .. n : es[j] = cs[j]
      /\ es[n + 1] = m
  <2>1. n \in Nat /\ cs \in [0 .. n -> Nat] /\ m \in Nat
    BY <1>0
  <2> HIDE DEF n
  <2> QED
    BY <2>1 DEF Ext
<1>3. Append(q, c) \in Seq(StoreSet) /\ Len(Append(q, c)) = n + 1
      /\ (\A i \in 1 .. n : Append(q, c)[i] = q[i]) /\ Append(q, c)[n + 1] = c
  BY <1>0, <1>1, AppendProperties
<1>4. Cursor(Append(q, c), es, "head")
  <2>1. c.word = "head" => c.v = m % Wrap
    BY <1>1
  <2>2. cs[Len(q)] <= m
    BY <1>0
  <2> QED
    BY <1>0, <1>1, <2>1, <2>2, CursorAppend
<1> DEFINE a == Append(q, c)
<1>5. a \in Seq(StoreSet) /\ Len(a) = n + 1 /\ Cursor(a, es, "head")
  BY <1>3, <1>4
<1> HIDE DEF es
<1>6. Cursor(Append(a, h), ds, "head")
  <2> HIDE DEF a
  <2>1. es[Len(a)] <= e
    BY <1>0, <1>2, <1>5
  <2>2. (h.word = "head" => h.v = e % Wrap) /\ (h.word # "head" => e = es[Len(a)])
    BY <1>1
  <2>3. Cursor(Append(a, h), Ext(es, Len(a), e), "head")
    BY <1>0, <1>1, <1>5, <2>1, <2>2, CursorAppend
  <2> QED
    BY <1>5, <2>3
<1>7. Copies(Append(a, h), ds, pos, fs)
  <2>1. ds = Ext(Ext(cs, Len(q), cs[Len(q)]), Len(q) + 1, cs[Len(q)] + Len(c.v))
    BY <1>1 DEF es, e
  <2>2. c.at = cs[Len(q)] % Cap /\ c.v \in Seq(Nat)
    BY <1>1
  <2>3. \A i \in 1 .. Len(c.v) : CellIs(pos, fs, cs[Len(q)] + i - 1, c.v[i])
    BY <1>1 DEF CellsAt
  <2> HIDE DEF ds
  <2> QED
    BY <1>0, <1>1, <2>1, <2>2, <2>3, CopiesPair
<1>8. r = Append(a, h)
  <2>1. r = q \o <<c, h>>
    BY DEF c, h, e, Pushed
  <2>2. q \o <<c, h>> = Append(Append(q, c), h)
    BY <1>0, <1>1, AppendTwo
  <2> QED
    BY <2>1, <2>2
<1>9. /\ r \in Seq(StoreSet) /\ Len(r) = n + 2
      /\ \A i \in 1 .. n + 1 : r[i] = a[i]
  <2> HIDE DEF a
  <2>1. /\ Append(a, h) \in Seq(StoreSet) /\ Len(Append(a, h)) = Len(a) + 1
        /\ \A i \in 1 .. Len(a) : Append(a, h)[i] = a[i]
    BY <1>1, <1>5, AppendProperties
  <2>2. (n + 1) + 1 = n + 2
    BY <1>0
  <2> QED
    BY <1>5, <1>8, <2>1, <2>2
<1>10. /\ \A j \in 0 .. n + 1 : ds[j] = es[j]
       /\ ds[n + 2] = e
  BY <1>0, <1>2, ExtNext
<1> HIDE DEF ds
<1>11. SameFirst(q, cs, r, ds)
  <2>1. ds[0] = cs[0]
    <3>1. 0 \in 0 .. n + 1 /\ 0 \in 0 .. n
      BY <1>0
    <3> QED
      BY <1>2, <1>10, <3>1
  <2>2. ASSUME r[1].word = "head"
        PROVE  q # <<>> /\ q[1].word = "head" /\ ds[1] = cs[1]
    <3>1. r[1] = a[1]
      <4>1. 1 \in 1 .. n + 1
        BY <1>0
      <4> QED
        BY <1>9, <4>1
    <3>2. n # 0
      <4> SUFFICES ASSUME n = 0 PROVE FALSE
        OBVIOUS
      <4>1. a[1] = c
        <5>1. n + 1 = 1
          OBVIOUS
        <5> QED
          BY <1>3, <5>1
      <4> QED
        BY <1>1, <2>2, <3>1, <4>1
    <3>3. 1 \in 1 .. n /\ 1 \in 0 .. n /\ 1 \in 0 .. n + 1
      BY <1>0, <3>2
    <3>4. a[1] = q[1]
      BY <1>3, <3>3
    <3>5. ds[1] = cs[1]
      BY <1>2, <1>10, <3>3
    <3>6. q # <<>>
      BY <3>2, EmptySeq
    <3> QED
      BY <2>2, <3>1, <3>4, <3>5, <3>6
  <2> QED
    BY <2>1, <2>2 DEF SameFirst
<1>12. HeadQ(r, ds, pos, fs)
  BY <1>6, <1>7, <1>8, <1>9 DEF HeadQ
<1>13. ds[Len(r)] = m + Len(cells)
  BY <1>9, <1>10 DEF e
<1> QED
  BY <1>11, <1>12, <1>13

-----------------------------------------------------------------------------
(* The receiver's stores: tails and the waiter word.                       *)
TailQ(q, cs) ==
  /\ q \in Seq(StoreSet)
  /\ Cursor(q, cs, "tail")
  /\ \A j \in 1 .. Len(q) : q[j].word \in {"tail", "waiter"}

LEMMA TailAppend ==
  ASSUME NEW q, NEW cs, TailQ(q, cs), NEW st \in StoreSet, st.word \in {"tail", "waiter"},
         NEW m \in Nat, cs[Len(q)] <= m,
         st.word = "tail" => st.v = m % Wrap,
         st.word # "tail" => m = cs[Len(q)]
  PROVE  \E ds : /\ TailQ(Append(q, st), ds)
                 /\ ds[0] = cs[0]
                 /\ ds[Len(Append(q, st))] = m
<1> DEFINE n == Len(q)
           r == Append(q, st)
           ds == Ext(cs, n, m)
<1>0. q \in Seq(StoreSet) /\ n \in Nat /\ cs \in [0 .. n -> Nat] /\ Cursor(q, cs, "tail")
  BY LenProperties DEF TailQ, Cursor
<1>1. r \in Seq(StoreSet) /\ Len(r) = n + 1 /\ (\A i \in 1 .. n : r[i] = q[i]) /\ r[n + 1] = st
  BY <1>0, AppendProperties
<1>2. Cursor(r, ds, "tail")
  BY <1>0, CursorAppend
<1>3. (\A j \in 0 .. n : ds[j] = cs[j]) /\ ds[n + 1] = m
  BY <1>0, ExtFacts
<1> HIDE DEF r, ds
<1>4. ds[0] = cs[0]
  BY <1>0, <1>3
<1>5. ASSUME NEW j \in 1 .. n + 1
      PROVE  r[j].word \in {"tail", "waiter"}
  <2>1. j = n + 1 \/ j \in 1 .. n
    BY <1>0
  <2> QED
    BY <1>1, <2>1 DEF TailQ
<1>6. TailQ(r, ds)
  BY <1>1, <1>2, <1>5 DEF TailQ
<1>7. ds[Len(r)] = m
  BY <1>1, <1>3
<1> QED
  BY <1>4, <1>6, <1>7 DEF r

LEMMA TailOfTailQ ==
  ASSUME NEW q, NEW cs, TailQ(q, cs), q # <<>>
  PROVE  TailQ(Tail(q), Shift(cs, Len(q)))
<1> DEFINE r == Tail(q)
<1>0. q \in Seq(StoreSet) /\ Len(q) \in Nat /\ Cursor(q, cs, "tail")
  BY LenProperties DEF TailQ
<1>1. r \in Seq(StoreSet) /\ Len(r) = Len(q) - 1 /\ \A i \in 1 .. Len(r) : r[i] = q[i + 1]
  BY <1>0, HeadTailProperties
<1>2. Cursor(r, Shift(cs, Len(q)), "tail")
  BY <1>0, CursorTail
<1> HIDE DEF r
<1>3. ASSUME NEW j \in 1 .. Len(r)
      PROVE  r[j].word \in {"tail", "waiter"}
  <2>1. j + 1 \in 1 .. Len(q)
    BY <1>0, <1>1
  <2> QED
    BY <1>1, <2>1 DEF TailQ
<1>4. TailQ(r, Shift(cs, Len(q)))
  BY <1>1, <1>2, <1>3 DEF TailQ
<1> QED
  BY <1>4 DEF r

(* Where the ends of a queue are after its oldest store has arrived.       *)
LEMMA ShiftEnds ==
  ASSUME NEW q \in Seq(StoreSet), q # <<>>, NEW cs \in [0 .. Len(q) -> Nat]
  PROVE  /\ Shift(cs, Len(q))[0] = cs[1]
         /\ Shift(cs, Len(q))[Len(Tail(q))] = cs[Len(q)]
         /\ Tail(q) # <<>> => Shift(cs, Len(q))[1] = cs[2] /\ Tail(q)[1] = q[2] /\ Len(q) >= 2
<1> DEFINE n == Len(q)
<1>0. n \in Nat /\ n > 0 /\ Tail(q) \in Seq(StoreSet) /\ Len(Tail(q)) = n - 1
  BY LenProperties, EmptySeq, HeadTailProperties
<1>1. \A j \in 0 .. n - 1 : Shift(cs, n)[j] = cs[j + 1]
  BY <1>0, ShiftFacts
<1>2. 0 \in 0 .. n - 1 /\ n - 1 \in 0 .. n - 1 /\ 0 + 1 = 1 /\ (n - 1) + 1 = n
  BY <1>0
<1>3. Shift(cs, n)[0] = cs[1] /\ Shift(cs, n)[Len(Tail(q))] = cs[n]
  BY <1>0, <1>1, <1>2
<1>4. ASSUME Tail(q) # <<>>
      PROVE  Shift(cs, n)[1] = cs[2] /\ Tail(q)[1] = q[2] /\ n >= 2
  <2>1. Len(Tail(q)) \in Nat \ {0}
    BY <1>0, <1>4, EmptySeq
  <2>2. 1 \in 0 .. n - 1 /\ 1 \in 1 .. Len(Tail(q)) /\ 1 + 1 = 2 /\ n >= 2
    BY <1>0, <2>1
  <2>3. Tail(q)[1] = q[1 + 1]
    BY <2>2, HeadTailProperties
  <2> QED
    BY <1>1, <2>2, <2>3
<1> QED
  BY <1>3, <1>4

-----------------------------------------------------------------------------
(* The ring in memory: from lo to hi it holds the cells of the stream.     *)
Buffer(buf, lo, hi, pos, fs) == \A a \in lo .. hi - 1 : CellIs(pos, fs, a, buf[a % Cap])

Landed(buf, at, v) ==
  [c \in 0 .. Cap - 1 |-> LET i == (c - at) % Cap IN IF i < Len(v) THEN v[i + 1] ELSE buf[c]]

(* Cells that arrive behind m overwrite none between lo and m, if the      *)
(* whole fits into the ring.                                               *)
LEMMA CopyLands ==
  ASSUME NEW buf \in [0 .. Cap - 1 -> Nat], NEW lo \in Nat, NEW m \in Nat, NEW v \in Seq(Nat),
         lo <= m, m + Len(v) <= lo + Cap,
         NEW pos, NEW fs, Buffer(buf, lo, m, pos, fs),
         \A i \in 1 .. Len(v) : CellIs(pos, fs, m + i - 1, v[i])
  PROVE  /\ Landed(buf, m % Cap, v) \in [0 .. Cap - 1 -> Nat]
         /\ Buffer(Landed(buf, m % Cap, v), lo, m + Len(v), pos, fs)
<1> DEFINE new == Landed(buf, m % Cap, v)
           L == Len(v)
<1>0. L \in Nat /\ Cap \in Nat /\ Cap > 0 /\ m % Cap \in 0 .. Cap - 1
  BY LenProperties, Sizes, ModDef
<1>1. ASSUME NEW c \in 0 .. Cap - 1
      PROVE  /\ (c - (m % Cap)) % Cap \in Nat
             /\ new[c] = IF (c - (m % Cap)) % Cap < L THEN v[((c - (m % Cap)) % Cap) + 1] ELSE buf[c]
             /\ new[c] \in Nat
  <2> DEFINE i == (c - (m % Cap)) % Cap
  <2>1. c - (m % Cap) \in Int
    BY <1>0
  <2>2. i \in 0 .. Cap - 1
    BY <1>0, <2>1, ModDef
  <2>3. new[c] = IF i < L THEN v[i + 1] ELSE buf[c]
    BY DEF Landed
  <2> HIDE DEF i, new
  <2>4. CASE i < L
    <3>1. i + 1 \in 1 .. L
      BY <1>0, <2>2, <2>4
    <3>2. v[i + 1] \in Nat
      BY <3>1, ElementOfSeq
    <3> QED
      BY <1>0, <2>2, <2>3, <2>4, <3>2 DEF i
  <2>5. CASE ~(i < L)
    BY <1>0, <2>2, <2>3, <2>5 DEF i
  <2> QED
    BY <2>4, <2>5
<1>2. new \in [0 .. Cap - 1 -> Nat]
  <2>1. new = [c \in 0 .. Cap - 1 |-> new[c]]
    BY DEF Landed
  <2> HIDE DEF new
  <2> QED
    BY <1>1, <2>1
<1> HIDE DEF new
<1>3. ASSUME NEW a \in Nat, m <= a, a < m + L
      PROVE  CellIs(pos, fs, a, new[a % Cap])
  <2>1. a % Cap \in 0 .. Cap - 1
    BY <1>0, ModDef
  <2>2. a - m < Cap
    BY <1>0, <1>3
  <2>3. ((a % Cap) - (m % Cap)) % Cap = a - m
    BY <1>0, <1>3, <2>2, ModDistance
  <2>4. a - m < L /\ (a - m) + 1 \in 1 .. L /\ m + ((a - m) + 1) - 1 = a
    BY <1>0, <1>3
  <2>5. new[a % Cap] = v[(a - m) + 1]
    BY <1>1, <2>1, <2>3, <2>4
  <2> QED
    BY <2>4, <2>5
<1>4. ASSUME NEW a \in Nat, lo <= a, a < m
      PROVE  CellIs(pos, fs, a, new[a % Cap])
  <2>1. a % Cap \in 0 .. Cap - 1
    BY <1>0, ModDef
  <2> DEFINE b == a + Cap
  <2>2. b \in Nat /\ m <= b /\ b - m < Cap /\ ~(b - m < L)
    BY <1>0, <1>4
  <2>3. b % Cap = a % Cap
    <3>1. b = a + 1 * Cap
      BY <1>0
    <3> HIDE DEF b
    <3> QED
      BY <1>0, <2>2, <3>1, ModEq
  <2> HIDE DEF b
  <2>4. ((b % Cap) - (m % Cap)) % Cap = b - m
    BY <1>0, <2>2, ModDistance
  <2>5. new[a % Cap] = buf[a % Cap]
    BY <1>1, <2>1, <2>2, <2>3, <2>4
  <2>6. a \in lo .. m - 1
    BY <1>4
  <2> QED
    BY <2>5, <2>6 DEF Buffer
<1>5. Buffer(new, lo, m + L, pos, fs)
  <2> SUFFICES ASSUME NEW a \in lo .. (m + L) - 1
               PROVE  CellIs(pos, fs, a, new[a % Cap])
    BY DEF Buffer
  <2>1. a \in Nat /\ lo <= a /\ a < m + L
    BY <1>0
  <2> QED
    BY <1>3, <1>4, <2>1
<1> QED
  BY <1>2, <1>5 DEF new

(* Cells behind which a further frame is put.                              *)
LEMMA BufferStays ==
  ASSUME NEW buf, NEW lo \in Nat, NEW hi \in Nat,
         NEW fs \in Seq(FrameSet), NEW pos, Layout(pos, fs), NEW f \in FrameSet,
         Buffer(buf, lo, hi, pos, fs), hi <= pos[Len(fs) + 1]
  PROVE  Buffer(buf, lo, hi, Longer(pos, Len(fs), f.len), Append(fs, f))
<1> SUFFICES ASSUME NEW a \in lo .. hi - 1
             PROVE  CellIs(Longer(pos, Len(fs), f.len), Append(fs, f), a, buf[a % Cap])
  BY DEF Buffer
<1>1. CellIs(pos, fs, a, buf[a % Cap])
  BY DEF Buffer
<1>2. pos[Len(fs) + 1] \in Nat
  BY LongerFacts
<1>3. a \in Nat /\ a < pos[Len(fs) + 1]
  BY <1>2
<1> QED
  BY <1>1, <1>3, CellStays

-----------------------------------------------------------------------------
(* The invariant.                                                          *)
Places == {"look", "payload", "recheck", "enter", "asleep", "clear"}

Kinds ==
  /\ mem = [w \in Words |-> mem[w]]
  /\ mem["buf"] \in [0 .. Cap - 1 -> Nat]
  /\ next \in Nat
  /\ sent \in Seq(FrameSet)
  /\ received \in Seq([frame : Nat, cells : Seq(Nat)])
  /\ rpc \in [at : Places, frame : Nat, len : Nat]
  /\ pending = [p \in Procs |-> pending[p]]

Got ==
  /\ Len(received) <= Len(sent)
  /\ \A i \in 1 .. Len(received) : received[i] = Frame(sent[i])

(* How far the receiver has read: in PopPayload's turn it is behind the    *)
(* header of the frame it takes.                                           *)
Taken(pos) == pos[Len(received) + 1] + (IF At("payload") THEN 2 ELSE 0)

(* Positions count from the start of the run and never wrap: pos[i] is     *)
(* where the i-th frame sent begins, hs and ts are the positions of head   *)
(* and tail in memory (hs[0], ts[0]) and after each store that is still on *)
(* its way.                                                                *)
SenderSide(pos, hs) ==
  /\ Layout(pos, sent)
  /\ HeadQ(pending["sender"], hs, pos, sent)
  /\ mem["head"] = hs[0] % Wrap
  /\ hs[Len(pending["sender"])] = pos[Len(sent) + 1]

ReceiverSide(pos, ts) ==
  /\ TailQ(pending["receiver"], ts)
  /\ mem["tail"] = ts[0] % Wrap
  /\ ts[Len(pending["receiver"])] = Taken(pos)

(* Nothing is overwritten before its tail has been seen, nothing is read   *)
(* before its head has.                                                    *)
Window(pos, hs, ts) ==
  /\ pos[Len(sent) + 1] <= ts[0] + Cap
  /\ Taken(pos) <= hs[0]

(* The cells are in memory before the head that announces them.            *)
Written(pos, hs, ts) ==
  /\ Buffer(mem["buf"], ts[0], hs[0], pos, sent)
  /\ pending["sender"] # <<>> /\ pending["sender"][1].word = "head" =>
       Buffer(mem["buf"], ts[0], hs[1], pos, sent)

(* The frame whose header was popped is there to its end.                  *)
Holding(pos, hs) ==
  At("payload") =>
    /\ Len(received) < Len(sent)
    /\ rpc.frame = sent[Len(received) + 1].frame
    /\ rpc.len = sent[Len(received) + 1].len
    /\ pos[Len(received) + 2] <= hs[0]

Ring(pos, hs, ts) ==
  /\ SenderSide(pos, hs)
  /\ ReceiverSide(pos, ts)
  /\ Window(pos, hs, ts)
  /\ Written(pos, hs, ts)
  /\ Holding(pos, hs)

RingInv ==
  /\ Kinds
  /\ Got
  /\ \E pos, hs, ts : Ring(pos, hs, ts)

LEMMA RingFacts ==
  ASSUME Kinds, Got, NEW pos, NEW hs, NEW ts, Ring(pos, hs, ts)
  PROVE  /\ Len(sent) \in Nat /\ Len(received) \in Nat
         /\ pos \in [1 .. Len(sent) + 1 -> Nat]
         /\ pos[Len(received) + 1] \in Nat
         /\ pos[Len(sent) + 1] \in Nat
         /\ hs \in [0 .. Len(pending["sender"]) -> Nat]
         /\ ts \in [0 .. Len(pending["receiver"]) -> Nat]
         /\ hs[0] \in Nat /\ ts[0] \in Nat /\ Taken(pos) \in Nat
         /\ ts[0] <= Taken(pos) /\ Taken(pos) <= hs[0]
         /\ hs[0] <= pos[Len(sent) + 1] /\ pos[Len(sent) + 1] <= ts[0] + Cap
<1> DEFINE n == Len(pending["sender"])
           m == Len(pending["receiver"])
<1>1. Len(sent) \in Nat /\ Len(received) \in Nat /\ Len(received) <= Len(sent)
  BY LenProperties DEF Kinds, Got
<1>2. pos \in [1 .. Len(sent) + 1 -> Nat]
  BY DEF Ring, SenderSide, Layout
<1>3. Len(sent) + 1 \in 1 .. Len(sent) + 1 /\ Len(received) + 1 \in 1 .. Len(sent) + 1
  BY <1>1
<1>4. pos[Len(sent) + 1] \in Nat /\ pos[Len(received) + 1] \in Nat
  BY <1>2, <1>3
<1>5. Taken(pos) \in Nat
  BY <1>4 DEF Taken
<1>6. /\ n \in Nat /\ hs \in [0 .. n -> Nat] /\ Grows(hs, n)
      /\ m \in Nat /\ ts \in [0 .. m -> Nat] /\ Grows(ts, m)
  BY LenProperties DEF Ring, SenderSide, ReceiverSide, HeadQ, TailQ, Cursor
<1>7. hs[n] = pos[Len(sent) + 1] /\ ts[m] = Taken(pos)
  BY DEF Ring, SenderSide, ReceiverSide
<1>8. 0 \in 0 .. n /\ n \in 0 .. n /\ 0 <= n /\ 0 \in 0 .. m /\ m \in 0 .. m /\ 0 <= m
  BY <1>6
<1>9. hs[0] \in Nat /\ ts[0] \in Nat /\ hs[0] <= hs[n] /\ ts[0] <= ts[m]
  BY <1>6, <1>8 DEF Grows
<1>10. Taken(pos) <= hs[0] /\ pos[Len(sent) + 1] <= ts[0] + Cap
  BY DEF Ring, Window
<1> QED
  BY <1>1, <1>2, <1>4, <1>5, <1>6, <1>7, <1>9, <1>10

(* A word that the process has not stored is read from memory.             *)
LEMMA LoadOther ==
  ASSUME NEW p, NEW word, pending[p] \in Seq(StoreSet),
         \A i \in 1 .. Len(pending[p]) : pending[p][i].word # word
  PROVE  Load(p, word) = mem[word]
<1>1. DOMAIN pending[p] = 1 .. Len(pending[p])
  BY LenProperties
<1>2. {i \in DOMAIN pending[p] : pending[p][i].word = word} = {}
  BY <1>1
<1> QED
  BY <1>2 DEF Load

LEMMA SenderSees ==
  ASSUME Kinds, Got, NEW pos, NEW hs, NEW ts, Ring(pos, hs, ts)
  PROVE  /\ Load("sender", "head") = pos[Len(sent) + 1] % Wrap
         /\ ring_used("sender") = pos[Len(sent) + 1] - ts[0]
<1> DEFINE q == pending["sender"]
           e == pos[Len(sent) + 1]
<1>1. q \in Seq(StoreSet) /\ Cursor(q, hs, "head") /\ Copies(q, hs, pos, sent)
  BY DEF Ring, SenderSide, HeadQ
<1>2. mem["head"] = hs[0] % Wrap /\ hs[Len(q)] = e /\ mem["tail"] = ts[0] % Wrap
  BY DEF Ring, SenderSide, ReceiverSide
<1>3. Load("sender", "head") = e % Wrap
  <2>1. "sender" \in Procs /\ "head" \in Words
    BY DEF Procs, Words
  <2> QED
    BY <1>1, <1>2, <2>1, CursorLoad
<1>4. \A i \in 1 .. Len(q) : q[i].word # "tail"
  BY <1>1 DEF Copies
<1>5. Load("sender", "tail") = ts[0] % Wrap
  BY <1>1, <1>2, <1>4, LoadOther
<1>6. e \in Nat /\ ts[0] \in Nat /\ ts[0] <= e /\ e <= ts[0] + Cap
  BY RingFacts, Sizes
<1>7. e - ts[0] < Wrap /\ Wrap \in Nat
  BY <1>6, Sizes
<1> HIDE DEF e
<1>8. ((e % Wrap) - (ts[0] % Wrap)) % Wrap = e - ts[0]
  BY <1>6, <1>7, ModDistance
<1>9. ring_used("sender") = e - ts[0]
  BY <1>3, <1>5, <1>8 DEF ring_used
<1> QED
  BY <1>3, <1>9 DEF e

LEMMA ReceiverSees ==
  ASSUME Kinds, Got, NEW pos, NEW hs, NEW ts, Ring(pos, hs, ts)
  PROVE  /\ Load("receiver", "tail") = Taken(pos) % Wrap
         /\ ring_used("receiver") = hs[0] - Taken(pos)
<1> DEFINE q == pending["receiver"]
           e == Taken(pos)
<1>1. q \in Seq(StoreSet) /\ Cursor(q, ts, "tail") /\ \A i \in 1 .. Len(q) : q[i].word \in {"tail", "waiter"}
  BY DEF Ring, ReceiverSide, TailQ
<1>2. mem["head"] = hs[0] % Wrap /\ ts[Len(q)] = e /\ mem["tail"] = ts[0] % Wrap
  BY DEF Ring, SenderSide, ReceiverSide
<1>3. Load("receiver", "tail") = e % Wrap
  <2>1. "receiver" \in Procs /\ "tail" \in Words
    BY DEF Procs, Words
  <2> QED
    BY <1>1, <1>2, <2>1, CursorLoad
<1>4. \A i \in 1 .. Len(q) : q[i].word # "head"
  BY <1>1
<1>5. Load("receiver", "head") = hs[0] % Wrap
  BY <1>1, <1>2, <1>4, LoadOther
<1>6. e \in Nat /\ hs[0] \in Nat /\ e <= hs[0] /\ hs[0] <= e + Cap
  BY RingFacts, Sizes
<1>7. hs[0] - e < Wrap /\ Wrap \in Nat
  BY <1>6, Sizes
<1> HIDE DEF e
<1>8. ((hs[0] % Wrap) - (e % Wrap)) % Wrap = hs[0] - e
  BY <1>6, <1>7, ModDistance
<1>9. ring_used("receiver") = hs[0] - e
  BY <1>3, <1>5, <1>8 DEF ring_used
<1> QED
  BY <1>3, <1>9 DEF e

(* What the receiver copies out are cells of the stream.                   *)
LEMMA PeekIs ==
  ASSUME Kinds, Got, NEW pos, NEW hs, NEW ts, Ring(pos, hs, ts),
         NEW n \in Nat, Taken(pos) + n <= hs[0]
  PROVE  /\ ring_peek(n) \in Seq(Nat) /\ Len(ring_peek(n)) = n
         /\ \A i \in 1 .. n : CellIs(pos, sent, Taken(pos) + i - 1, ring_peek(n)[i])
<1> DEFINE e == Taken(pos)
           pk == ring_peek(n)
<1>0. e \in Nat /\ hs[0] \in Nat /\ ts[0] \in Nat /\ ts[0] <= e /\ e + n <= hs[0]
  BY RingFacts
<1>1. Load("receiver", "tail") = e % Wrap
  BY ReceiverSees
<1>2. pk = [i \in 1 .. n |-> mem["buf"][((e % Wrap) + i - 1) % Cap]]
  BY <1>1 DEF ring_peek
<1> HIDE DEF e, pk
<1>3. ASSUME NEW i \in 1 .. n
      PROVE  CellIs(pos, sent, e + i - 1, pk[i])
  <2>1. ((e % Wrap) + (i - 1)) % Cap = (e + (i - 1)) % Cap
    <3> DEFINE j == i - 1
    <3>1. j \in Int /\ e \in Int
      BY <1>0
    <3> HIDE DEF j
    <3>2. ((e % Wrap) + j) % Cap = (e + j) % Cap
      BY <3>1, Sizes, ModInside
    <3> QED
      BY <3>2 DEF j
  <2>2. (e % Wrap) + i - 1 = (e % Wrap) + (i - 1) /\ e + i - 1 = e + (i - 1)
    <3>1. e % Wrap \in Nat
      BY <1>0, Remainders
    <3> QED
      BY <1>0, <3>1
  <2>3. pk[i] = mem["buf"][(e + i - 1) % Cap]
    BY <1>2, <2>1, <2>2
  <2>4. e + i - 1 \in ts[0] .. hs[0] - 1
    BY <1>0
  <2>5. Buffer(mem["buf"], ts[0], hs[0], pos, sent)
    BY DEF Ring, Written
  <2> QED
    BY <2>3, <2>4, <2>5 DEF Buffer
<1>4. \A i \in 1 .. n : pk[i] \in Nat
  BY <1>3 DEF CellIs
<1>5. pk \in Seq(Nat) /\ Len(pk) = n
  <2>1. pk \in [1 .. n -> Nat]
    BY <1>2, <1>4
  <2>2. pk \in Seq(Nat)
    BY <2>1, SeqDef
  <2>3. 1 .. Len(pk) = 1 .. n /\ Len(pk) \in Nat
    BY <2>1, <2>2, LenProperties
  <2> QED
    BY <2>2, <2>3
<1> QED
  BY <1>3, <1>5 DEF e, pk

(* The header the receiver finds is the one of the next frame.             *)
LEMMA HeaderIs ==
  ASSUME Kinds, Got, NEW pos, NEW hs, NEW ts, Ring(pos, hs, ts),
         At("look"), ring_used("receiver") >= Hdr,
         NEW k, k = Len(received) + 1
  PROVE  /\ k \in 1 .. Len(sent)
         /\ sent[k] \in FrameSet
         /\ Taken(pos) = pos[k] /\ pos[k] \in Nat
         /\ pos[k + 1] = pos[k] + 2 + sent[k].len
         /\ ring_peek(Hdr)[1] = sent[k].frame
         /\ ring_peek(Hdr)[2] = sent[k].len
<1>1. /\ Len(sent) \in Nat /\ Len(received) \in Nat /\ Len(received) <= Len(sent)
      /\ Taken(pos) \in Nat /\ hs[0] \in Nat
      /\ hs[0] <= pos[Len(sent) + 1] /\ pos[Len(sent) + 1] \in Nat /\ pos[k] \in Nat
  BY RingFacts DEF Got
<1>2. Taken(pos) = pos[k]
  <2>1. ~At("payload")
    BY DEF At
  <2> QED
    BY <1>1, <2>1 DEF Taken
<1>3. hs[0] - pos[k] >= 2
  BY <1>2, ReceiverSees DEF Hdr
<1>4. k # Len(sent) + 1
  BY <1>1, <1>3
<1>5. k \in 1 .. Len(sent)
  BY <1>1, <1>4
<1>6. sent[k] \in FrameSet /\ sent[k].len \in Nat
  <2>1. sent[k] \in FrameSet
    BY <1>5, ElementOfSeq DEF Kinds
  <2> QED
    BY <2>1, Sizes DEF FrameSet, Hdr
<1>7. pos[k + 1] = pos[k] + 2 + sent[k].len
  BY <1>5 DEF Ring, SenderSide, Layout
<1>8. \A i \in 1 .. 2 : CellIs(pos, sent, pos[k] + i - 1, ring_peek(2)[i])
  <2>1. 2 \in Nat /\ Taken(pos) + 2 <= hs[0]
    BY <1>1, <1>2, <1>3
  <2> QED
    BY <1>2, <2>1, PeekIs
<1>9. CellIs(pos, sent, pos[k], ring_peek(2)[1]) /\ CellIs(pos, sent, pos[k] + 1, ring_peek(2)[2])
  <2>1. 1 \in 1 .. 2 /\ 2 \in 1 .. 2 /\ pos[k] + 1 - 1 = pos[k] /\ pos[k] + 2 - 1 = pos[k] + 1
    BY <1>1
  <2>2. CellIs(pos, sent, pos[k] + 1 - 1, ring_peek(2)[1]) /\ CellIs(pos, sent, pos[k] + 2 - 1, ring_peek(2)[2])
    BY <1>8, <2>1
  <2> QED
    BY <2>1, <2>2
<1>10. ring_peek(2)[1] = sent[k].frame
  <2>1. pos[k] <= pos[k] /\ pos[k] < pos[k + 1] /\ pos[k] # pos[k] + 1
    BY <1>1, <1>6, <1>7
  <2> QED
    BY <1>5, <1>9, <2>1 DEF CellIs
<1>11. ring_peek(2)[2] = sent[k].len
  <2>1. pos[k] <= pos[k] + 1 /\ pos[k] + 1 < pos[k + 1]
    BY <1>1, <1>6, <1>7
  <2> QED
    BY <1>5, <1>9, <2>1 DEF CellIs
<1> QED
  BY <1>1, <1>2, <1>5, <1>6, <1>7, <1>10, <1>11 DEF Hdr

(* So the receiver never meets a length that no frame has, and a frame it  *)
(* takes has arrived to its end.                                           *)
LEMMA VerdictIs ==
  ASSUME Kinds, Got, NEW pos, NEW hs, NEW ts, Ring(pos, hs, ts), At("look"), NEW n
  PROVE  /\ Verdict(n) # "EBADMSG"
         /\ Verdict(n) = "frame" =>
              /\ ring_used("receiver") >= Hdr
              /\ pos[Len(received) + 1] + 2 + sent[Len(received) + 1].len <= hs[0]
<1> DEFINE avail == ring_used("receiver")
           plen == ring_peek(Hdr)[2]
           k == Len(received) + 1
<1>1. Verdict(n) = IF ~HeaderThere(avail) THEN "wait"
                   ELSE IF plen > Cap - Hdr THEN "EBADMSG"
                   ELSE IF ~Complete(avail, plen) THEN "wait"
                   ELSE IF plen > n THEN "EMSGSIZE"
                   ELSE "frame"
  BY DEF Verdict
<1>2. ASSUME HeaderThere(avail)
      PROVE  ~(plen > Cap - Hdr)
  <2>1. avail >= Hdr
    BY <1>2 DEF HeaderThere
  <2>2. plen = sent[k].len /\ sent[k] \in FrameSet
    BY <2>1, HeaderIs
  <2>3. plen \in 0 .. Cap - 2
    BY <2>2 DEF FrameSet, Hdr
  <2> HIDE DEF plen
  <2> QED
    BY <2>3, Sizes DEF Hdr
<1>3. ASSUME HeaderThere(avail), Complete(avail, plen)
      PROVE  avail >= Hdr /\ pos[k] + 2 + sent[k].len <= hs[0]
  <2>1. avail >= Hdr
    BY <1>3 DEF HeaderThere
  <2>2. plen = sent[k].len /\ sent[k] \in FrameSet /\ Taken(pos) = pos[k] /\ pos[k] \in Nat
    BY <2>1, HeaderIs
  <2>3. avail = hs[0] - pos[k] /\ hs[0] \in Nat
    BY <2>2, ReceiverSees, RingFacts
  <2>4. avail >= 2 + plen
    BY <1>3 DEF Complete, Hdr
  <2>5. sent[k].len \in Nat
    BY <2>2, Sizes DEF FrameSet, Hdr
  <2> HIDE DEF avail, plen, k
  <2> QED
    BY <2>1, <2>2, <2>3, <2>4, <2>5
<1> HIDE DEF avail, plen
<1>4. Verdict(n) # "EBADMSG"
  BY <1>1, <1>2
<1>5. Verdict(n) = "frame" => HeaderThere(avail) /\ Complete(avail, plen)
  BY <1>1
<1> QED
  BY <1>3, <1>4, <1>5 DEF avail, k

-----------------------------------------------------------------------------
(* A step of the receiver: only its stores and what it has taken change.   *)
LEMMA ReceiverStep ==
  ASSUME Kinds, Got, NEW pos, NEW hs, NEW ts, Ring(pos, hs, ts),
         UNCHANGED <<mem, sent>>, next' \in Nat,
         pending' = [p \in Procs |-> pending'[p]],
         pending'["sender"] = pending["sender"],
         rpc' \in [at : Places, frame : Nat, len : Nat],
         received' \in Seq([frame : Nat, cells : Seq(Nat)]), Got',
         NEW ds, TailQ(pending'["receiver"], ds), ds[0] = ts[0],
         ds[Len(pending'["receiver"])] = Taken(pos)', Taken(pos)' <= hs[0],
         Holding(pos, hs)'
  PROVE  RingInv'
<1>1. Kinds'
  BY DEF Kinds
<1>2. SenderSide(pos, hs)'
  BY DEF Ring, SenderSide
<1>3. ReceiverSide(pos, ds)'
  BY DEF Ring, ReceiverSide
<1>4. Window(pos, hs, ds)'
  BY DEF Ring, Window
<1>5. Written(pos, hs, ds)'
  BY DEF Ring, Written
<1>6. Ring(pos, hs, ds)'
  BY <1>2, <1>3, <1>4, <1>5 DEF Ring
<1> QED
  BY <1>1, <1>6 DEF RingInv

(* Steps that store nothing and take nothing.                              *)
LEMMA QuietStep ==
  ASSUME RingInv, UNCHANGED <<mem, pending, sent, received>>, next' \in Nat,
         rpc' \in [at : Places, frame : Nat, len : Nat],
         rpc' = rpc \/ (~At("payload") /\ ~At("payload")')
  PROVE  RingInv'
<1>1. PICK pos, hs, ts : Ring(pos, hs, ts)
  BY DEF RingInv
<1>2. Kinds /\ Got
  BY DEF RingInv
<1>3. Taken(pos)' = Taken(pos)
  BY DEF Taken, At
<1>4. Holding(pos, hs)'
  BY <1>1 DEF Ring, Holding, At
<1>5. Got'
  BY <1>2 DEF Got
<1>6. TailQ(pending'["receiver"], ts) /\ ts[Len(pending'["receiver"])] = Taken(pos)'
  BY <1>1, <1>3 DEF Ring, ReceiverSide
<1>7. Taken(pos)' <= hs[0]
  BY <1>1, <1>3 DEF Ring, Window
<1>8. pending' = [p \in Procs |-> pending'[p]] /\ received' \in Seq([frame : Nat, cells : Seq(Nat)])
  BY <1>2 DEF Kinds
<1> QED
  BY <1>1, <1>2, <1>4, <1>5, <1>6, <1>7, <1>8, ReceiverStep

(* What Write does to the buffers.                                         *)
LEMMA WriteIs ==
  ASSUME Kinds, NEW p \in Procs, NEW stores, Write(p, stores)
  PROVE  /\ pending' = [r \in Procs |-> pending'[r]]
         /\ pending'[p] = pending[p] \o stores
         /\ \A r \in Procs : r # p => pending'[r] = pending[r]
<1>1. pending' = [pending EXCEPT ![p] = pending[p] \o stores]
  BY DEF Write
<1>2. pending = [r \in Procs |-> pending[r]]
  BY DEF Kinds
<1>3. pending' = [r \in Procs |-> IF r = p THEN pending[p] \o stores ELSE pending[r]]
  BY <1>1, <1>2
<1> QED
  BY <1>3

(* The receiver stores the waiter word.                                    *)
LEMMA WaiterStep ==
  ASSUME RingInv, NEW v \in Nat, Write("receiver", <<Store("waiter", v)>>),
         UNCHANGED <<mem, next, sent, received>>,
         rpc' \in [at : Places, frame : Nat, len : Nat],
         ~At("payload"), ~At("payload")'
  PROVE  RingInv'
<1>1. PICK pos, hs, ts : Ring(pos, hs, ts)
  BY DEF RingInv
<1>2. Kinds /\ Got
  BY DEF RingInv
<1> DEFINE st == Store("waiter", v)
           q == pending["receiver"]
<1>3. st \in StoreSet /\ st.word = "waiter"
  BY DEF Store, StoreSet, Words
<1>4. /\ pending' = [p \in Procs |-> pending'[p]]
      /\ pending'["receiver"] = q \o <<st>>
      /\ pending'["sender"] = pending["sender"]
  BY <1>2, WriteIs DEF Procs
<1> HIDE DEF st
<1>5. TailQ(q, ts) /\ ts[Len(q)] = Taken(pos) /\ Taken(pos) \in Nat
  BY <1>1, <1>2, RingFacts DEF Ring, ReceiverSide
<1>6. pending'["receiver"] = Append(q, st)
  <2>1. q \in Seq(StoreSet)
    BY <1>5 DEF TailQ
  <2> QED
    BY <1>3, <1>4, <2>1, AppendIsConcat
<1>7. PICK ds : TailQ(Append(q, st), ds) /\ ds[0] = ts[0] /\ ds[Len(Append(q, st))] = Taken(pos)
  <2> DEFINE m == Taken(pos)
  <2>1. ts[Len(q)] <= m /\ m \in Nat /\ m = ts[Len(q)]
    BY <1>5
  <2>2. st.word \in {"tail", "waiter"} /\ (st.word = "tail" => st.v = m % Wrap)
    BY <1>3
  <2> HIDE DEF q, m
  <2>3. \E ds : TailQ(Append(q, st), ds) /\ ds[0] = ts[0] /\ ds[Len(Append(q, st))] = m
    BY <1>3, <1>5, <2>1, <2>2, TailAppend
  <2> QED
    BY <2>3 DEF m
<1>8. Taken(pos)' = Taken(pos)
  BY DEF Taken
<1>9. Holding(pos, hs)'
  BY DEF Holding
<1>10. Got'
  BY <1>2 DEF Got
<1>11. Taken(pos)' <= hs[0]
  BY <1>1, <1>8 DEF Ring, Window
<1>12. received' \in Seq([frame : Nat, cells : Seq(Nat)]) /\ next' \in Nat
  BY <1>2 DEF Kinds
<1>13. TailQ(pending'["receiver"], ds) /\ ds[Len(pending'["receiver"])] = Taken(pos)'
  BY <1>6, <1>7, <1>8
<1> QED
  BY <1>1, <1>2, <1>4, <1>7, <1>9, <1>10, <1>11, <1>12, <1>13, ReceiverStep

(* The receiver moves its tail by n cells.                                 *)
LEMMA PopStep ==
  ASSUME Kinds, Got, NEW pos, NEW hs, NEW ts, Ring(pos, hs, ts),
         NEW n \in Nat, Write("receiver", ring_pop(n))
  PROVE  /\ pending' = [p \in Procs |-> pending'[p]]
         /\ pending'["sender"] = pending["sender"]
         /\ \E ds : /\ TailQ(pending'["receiver"], ds)
                    /\ ds[0] = ts[0]
                    /\ ds[Len(pending'["receiver"])] = Taken(pos) + n
<1> DEFINE q == pending["receiver"]
           e == Taken(pos)
           m == e + n
           st == Store("tail", m % Wrap)
<1>1. TailQ(q, ts) /\ ts[Len(q)] = e /\ e \in Nat
  BY RingFacts DEF Ring, ReceiverSide
<1>2. m \in Nat /\ e <= m
  BY <1>1
<1>3. ring_pop(n) = <<st>>
  <2>1. Load("receiver", "tail") = e % Wrap
    BY ReceiverSees
  <2>2. ((e % Wrap) + n) % Wrap = (e + n) % Wrap
    <3>1. e \in Int /\ n \in Int
      BY <1>1
    <3> HIDE DEF e
    <3> QED
      BY <3>1, Sizes, ModSame
  <2> QED
    BY <2>1, <2>2 DEF ring_pop
<1>4. st \in StoreSet /\ st.word = "tail" /\ st.v = m % Wrap
  <2>1. m % Wrap \in Nat
    BY <1>2, Remainders
  <2> QED
    BY <2>1 DEF Store, StoreSet, Words
<1>5. /\ pending' = [p \in Procs |-> pending'[p]]
      /\ pending'["receiver"] = q \o <<st>>
      /\ pending'["sender"] = pending["sender"]
  <2>1. Write("receiver", <<st>>)
    BY <1>3
  <2> HIDE DEF st
  <2> QED
    BY <2>1, WriteIs DEF Procs
<1> HIDE DEF st
<1>6. pending'["receiver"] = Append(q, st)
  <2>1. q \in Seq(StoreSet)
    BY <1>1 DEF TailQ
  <2> QED
    BY <1>4, <1>5, <2>1, AppendIsConcat
<1>7. \E ds : TailQ(Append(q, st), ds) /\ ds[0] = ts[0] /\ ds[Len(Append(q, st))] = m
  <2>1. ts[Len(q)] <= m
    BY <1>1, <1>2
  <2>2. st.word \in {"tail", "waiter"} /\ (st.word # "tail" => m = ts[Len(q)])
    BY <1>4
  <2> HIDE DEF q, m
  <2> QED
    BY <1>1, <1>2, <1>4, <2>1, <2>2, TailAppend
<1> QED
  BY <1>5, <1>6, <1>7

LEMMA PopHeaderKeeps ==
  ASSUME RingInv, NEW n, PopHeader(n)
  PROVE  RingInv'
<1>1. PICK pos, hs, ts : Ring(pos, hs, ts)
  BY DEF RingInv
<1>2. Kinds /\ Got
  BY DEF RingInv
<1> DEFINE k == Len(received) + 1
<1>3. At("look") /\ Verdict(n) = "frame" /\ Write("receiver", ring_pop(2))
      /\ rpc' = [at |-> "payload", frame |-> ring_peek(Hdr)[1], len |-> ring_peek(Hdr)[2]]
      /\ UNCHANGED <<mem, spc, next, sent, received>>
  BY DEF PopHeader, Hdr
<1>4. ring_used("receiver") >= Hdr /\ pos[k] + 2 + sent[k].len <= hs[0]
  BY <1>1, <1>2, <1>3, VerdictIs
<1>5. /\ k \in 1 .. Len(sent)
      /\ sent[k] \in FrameSet
      /\ Taken(pos) = pos[k] /\ pos[k] \in Nat
      /\ pos[k + 1] = pos[k] + 2 + sent[k].len
      /\ ring_peek(Hdr)[1] = sent[k].frame
      /\ ring_peek(Hdr)[2] = sent[k].len
  BY <1>1, <1>2, <1>3, <1>4, HeaderIs
<1>6. rpc' = [at |-> "payload", frame |-> sent[k].frame, len |-> sent[k].len]
  BY <1>3, <1>5
<1>7. sent[k].frame \in Nat /\ sent[k].len \in Nat /\ hs[0] \in Nat
  BY <1>1, <1>2, <1>5, RingFacts, Sizes DEF FrameSet, Hdr
<1>8. rpc' \in [at : Places, frame : Nat, len : Nat] /\ At("payload")'
  BY <1>6, <1>7 DEF At, Places
<1>9. Taken(pos)' = Taken(pos) + 2
  <2>1. Taken(pos)' = pos[k] + 2
    BY <1>3, <1>8 DEF Taken
  <2> QED
    BY <1>5, <2>1
<1>10. Taken(pos)' <= hs[0]
  BY <1>4, <1>5, <1>7, <1>9
<1>11. Holding(pos, hs)'
  <2>1. Len(received) < Len(sent) /\ Len(received) + 2 = k + 1
    <3>1. Len(received) \in Nat /\ Len(sent) \in Nat
      BY <1>1, <1>2, RingFacts
    <3> QED
      BY <1>5, <3>1
  <2>2. pos[Len(received) + 2] <= hs[0]
    BY <1>4, <1>5, <2>1
  <2>3. rpc'.frame = sent[k].frame /\ rpc'.len = sent[k].len
    BY <1>6
  <2> QED
    BY <1>3, <2>1, <2>2, <2>3 DEF Holding
<1>12. Got'
  BY <1>2, <1>3 DEF Got
<1>13. /\ pending' = [p \in Procs |-> pending'[p]]
       /\ pending'["sender"] = pending["sender"]
       /\ \E ds : /\ TailQ(pending'["receiver"], ds)
                  /\ ds[0] = ts[0]
                  /\ ds[Len(pending'["receiver"])] = Taken(pos) + 2
  BY <1>1, <1>2, <1>3, PopStep
<1>14. PICK ds : /\ TailQ(pending'["receiver"], ds)
                 /\ ds[0] = ts[0]
                 /\ ds[Len(pending'["receiver"])] = Taken(pos)'
  BY <1>9, <1>13
<1>15. received' \in Seq([frame : Nat, cells : Seq(Nat)]) /\ next' \in Nat
  BY <1>2, <1>3 DEF Kinds
<1> QED
  BY <1>1, <1>2, <1>3, <1>8, <1>10, <1>11, <1>12, <1>13, <1>14, <1>15, ReceiverStep

LEMMA PopPayloadKeeps ==
  ASSUME RingInv, PopPayload
  PROVE  RingInv'
<1>1. PICK pos, hs, ts : Ring(pos, hs, ts)
  BY DEF RingInv
<1>2. Kinds /\ Got
  BY DEF RingInv
<1> DEFINE n == Len(received)
           k == n + 1
           len == sent[k].len
           frame == sent[k].frame
           r == [frame |-> rpc.frame, cells |-> ring_peek(rpc.len)]
<1>3. At("payload") /\ received' = Append(received, r) /\ rpc' = Idle
      /\ Write("receiver", IF rpc.len = 0 THEN <<>> ELSE ring_pop(rpc.len))
      /\ UNCHANGED <<mem, spc, next, sent>>
  BY DEF PopPayload
<1>4. n < Len(sent) /\ rpc.frame = frame /\ rpc.len = len /\ pos[n + 2] <= hs[0]
  BY <1>1, <1>3 DEF Ring, Holding
<1>5. n \in Nat /\ Len(sent) \in Nat /\ k \in 1 .. Len(sent) /\ n + 2 = k + 1
  BY <1>1, <1>2, <1>4, RingFacts
<1>6. sent[k] \in FrameSet /\ len \in Nat /\ frame \in Nat
  <2>1. sent[k] \in FrameSet
    BY <1>2, <1>5, ElementOfSeq DEF Kinds
  <2> QED
    BY <2>1, Sizes DEF FrameSet, Hdr
<1>7. pos[k + 1] = pos[k] + 2 + len /\ pos[k] \in Nat /\ hs[0] \in Nat /\ Taken(pos) = pos[k] + 2
  <2>1. pos[k + 1] = pos[k] + 2 + len
    BY <1>1, <1>5 DEF Ring, SenderSide, Layout
  <2>2. pos[k] \in Nat /\ hs[0] \in Nat
    BY <1>1, <1>2, RingFacts
  <2>3. Taken(pos) = pos[k] + 2
    BY <1>3 DEF Taken
  <2> QED
    BY <2>1, <2>2, <2>3
<1>8. Taken(pos) + len <= hs[0]
  BY <1>4, <1>5, <1>6, <1>7
<1>9. r = Frame(sent[k]) /\ r \in [frame : Nat, cells : Seq(Nat)]
  <2> DEFINE pk == ring_peek(len)
  <2>1. pk \in Seq(Nat) /\ Len(pk) = len /\ \A i \in 1 .. len : CellIs(pos, sent, Taken(pos) + i - 1, pk[i])
    BY <1>1, <1>2, <1>6, <1>8, PeekIs
  <2>2. pk = [i \in 1 .. len |-> pk[i]]
    BY DEF ring_peek
  <2> HIDE DEF pk
  <2>3. ASSUME NEW i \in 1 .. len
        PROVE  pk[i] = frame
    <3> DEFINE a == Taken(pos) + i - 1
    <3>1. CellIs(pos, sent, a, pk[i])
      BY <2>1
    <3>2. pos[k] <= a /\ a < pos[k + 1] /\ a # pos[k] + 1
      <4> HIDE DEF len, k
      <4> QED
        BY <1>6, <1>7
    <3> HIDE DEF a, k
    <3> QED
      BY <1>5, <3>1, <3>2 DEF CellIs
  <2>4. pk = [i \in 1 .. len |-> frame]
    BY <2>2, <2>3
  <2>5. r = [frame |-> frame, cells |-> pk]
    BY <1>4 DEF pk
  <2>6. r = Frame(sent[k])
    BY <2>4, <2>5 DEF Frame
  <2>7. r \in [frame : Nat, cells : Seq(Nat)]
    BY <1>6, <2>1, <2>5
  <2> QED
    BY <2>6, <2>7
<1> HIDE DEF r
<1>10. /\ received' \in Seq([frame : Nat, cells : Seq(Nat)]) /\ Len(received') = k
       /\ (\A i \in 1 .. n : received'[i] = received[i]) /\ received'[k] = r
  <2>1. received \in Seq([frame : Nat, cells : Seq(Nat)])
    BY <1>2 DEF Kinds
  <2> QED
    BY <1>3, <1>9, <2>1, AppendProperties
<1>11. Got'
  <2>1. ASSUME NEW i \in 1 .. k
        PROVE  received'[i] = Frame(sent[i])
    <3>1. i \in 1 .. n \/ i = k
      BY <1>5
    <3> QED
      BY <1>2, <1>9, <1>10, <3>1 DEF Got
  <2>2. k <= Len(sent)
    BY <1>5
  <2> QED
    BY <1>3, <1>10, <2>1, <2>2 DEF Got
<1>12. rpc' \in [at : Places, frame : Nat, len : Nat] /\ ~At("payload")'
  BY <1>3 DEF At, Idle, Places
<1>13. Taken(pos)' = Taken(pos) + len
  <2>1. Taken(pos)' = pos[k + 1]
    <3>1. Taken(pos)' = pos[k + 1] + 0
      BY <1>10, <1>12 DEF Taken
    <3>2. pos[k + 1] \in Nat
      BY <1>6, <1>7
    <3> QED
      BY <3>1, <3>2
  <2> QED
    BY <1>6, <1>7, <2>1
<1>14. /\ pending' = [p \in Procs |-> pending'[p]]
       /\ pending'["sender"] = pending["sender"]
       /\ \E ds : /\ TailQ(pending'["receiver"], ds)
                  /\ ds[0] = ts[0]
                  /\ ds[Len(pending'["receiver"])] = Taken(pos) + len
  <2>1. CASE len = 0
    <3>1. Write("receiver", <<>>)
      BY <1>3, <1>4, <2>1
    <3>2. /\ pending' = [p \in Procs |-> pending'[p]]
          /\ pending'["receiver"] = pending["receiver"] \o <<>>
          /\ pending'["sender"] = pending["sender"]
      BY <1>2, <3>1, WriteIs DEF Procs
    <3>3. TailQ(pending["receiver"], ts) /\ ts[Len(pending["receiver"])] = Taken(pos)
      BY <1>1 DEF Ring, ReceiverSide
    <3>4. pending["receiver"] \o <<>> = pending["receiver"]
      BY <3>3, ConcatEmptySeq DEF TailQ
    <3>5. Taken(pos) + len = Taken(pos)
      BY <1>7, <2>1
    <3> QED
      BY <3>2, <3>3, <3>4, <3>5
  <2>2. CASE len # 0
    <3>1. Write("receiver", ring_pop(len))
      BY <1>3, <1>4, <2>2
    <3> HIDE DEF len
    <3> QED
      BY <1>1, <1>2, <1>6, <3>1, PopStep
  <2> QED
    BY <2>1, <2>2
<1>15. PICK ds : /\ TailQ(pending'["receiver"], ds)
                 /\ ds[0] = ts[0]
                 /\ ds[Len(pending'["receiver"])] = Taken(pos)'
  BY <1>13, <1>14
<1>16. Taken(pos)' <= hs[0]
  BY <1>8, <1>13
<1>17. Holding(pos, hs)'
  BY <1>12 DEF Holding
<1>18. next' \in Nat
  BY <1>2, <1>3 DEF Kinds
<1> QED
  BY <1>1, <1>2, <1>3, <1>10, <1>11, <1>12, <1>14, <1>15, <1>16, <1>17, <1>18, ReceiverStep

(* The steps in which the receiver waits or refuses.                       *)
LEMMA IdleKeeps ==
  ASSUME RingInv, NEW n, Refuse(n) \/ Park(n) \/ Recheck \/ Enter \/ Timeout \/ Clear
  PROVE  RingInv'
<1>1. PICK pos, hs, ts : Ring(pos, hs, ts)
  BY DEF RingInv
<1>2. Kinds /\ Got
  BY DEF RingInv
<1>3. rpc \in [at : Places, frame : Nat, len : Nat] /\ next \in Nat
  BY <1>2 DEF Kinds
<1>4. ASSUME NEW l \in Places, Goto(l), l # "payload"
      PROVE  rpc' \in [at : Places, frame : Nat, len : Nat] /\ ~At("payload")'
  BY <1>3, <1>4 DEF Goto, At
<1>5. "recheck" \in Places /\ "look" \in Places /\ "enter" \in Places /\ "asleep" \in Places /\ "clear" \in Places
  BY DEF Places
<1>6. CASE Refuse(n)
  <2>1. At("look") /\ Verdict(n) = "EMSGSIZE"
    BY <1>1, <1>2, <1>6, VerdictIs DEF Refuse
  <2>2. Write("receiver", <<>>) /\ UNCHANGED <<mem, spc, next, rpc, sent, received>>
    BY <1>6, <2>1 DEF Refuse
  <2>3. pending["receiver"] \in Seq(StoreSet)
    BY <1>1 DEF Ring, ReceiverSide, TailQ
  <2>4. pending["receiver"] \o <<>> = pending["receiver"]
    BY <2>3, ConcatEmptySeq
  <2>5. /\ pending' = [p \in Procs |-> pending'[p]]
        /\ \A p \in Procs : pending'[p] = pending[p]
    BY <1>2, <2>2, <2>4, WriteIs DEF Procs
  <2>6. pending' = pending
    BY <1>2, <2>5 DEF Kinds
  <2> QED
    BY <1>3, <2>2, <2>6, QuietStep
<1>7. CASE Park(n)
  <2>1. /\ At("look") /\ Write("receiver", <<Store("waiter", 1)>>) /\ Goto("recheck")
        /\ UNCHANGED <<mem, next, sent, received>>
    BY <1>7 DEF Park
  <2>2. ~At("payload")
    BY <2>1 DEF At
  <2> QED
    BY <1>4, <1>5, <2>1, <2>2, WaiterStep
<1>8. CASE Recheck
  <2>0. At("recheck") /\ UNCHANGED <<mem, next, sent, received>>
    BY <1>8 DEF Recheck
  <2>1. ~At("payload")
    BY <2>0 DEF At
  <2>2. CASE Write("receiver", <<Store("waiter", 0)>>) /\ Goto("look")
    BY <1>4, <1>5, <2>0, <2>1, <2>2, WaiterStep
  <2>3. CASE Goto("enter") /\ UNCHANGED pending
    BY <1>3, <1>4, <1>5, <2>0, <2>1, <2>3, QuietStep
  <2> QED
    BY <1>8, <2>2, <2>3 DEF Recheck
<1>9. CASE Enter
  <2>1. At("enter") /\ UNCHANGED <<mem, pending, next, sent, received>>
        /\ Goto(IF mem["waiter"] = 1 THEN "asleep" ELSE "clear")
    BY <1>9 DEF Enter
  <2>2. ~At("payload")
    BY <2>1 DEF At
  <2>3. rpc' \in [at : Places, frame : Nat, len : Nat] /\ ~At("payload")'
    BY <1>4, <1>5, <2>1
  <2> QED
    BY <1>3, <2>1, <2>2, <2>3, QuietStep
<1>10. CASE Timeout
  <2>1. At("asleep") /\ UNCHANGED <<mem, pending, next, sent, received>> /\ Goto("clear")
    BY <1>10 DEF Timeout
  <2>2. ~At("payload")
    BY <2>1 DEF At
  <2> QED
    BY <1>3, <1>4, <1>5, <2>1, <2>2, QuietStep
<1>11. CASE Clear
  <2>1. At("clear") /\ UNCHANGED <<mem, next, sent, received>> /\ Goto("look")
        /\ Write("receiver", <<Store("waiter", 0)>>)
    BY <1>11 DEF Clear
  <2>2. ~At("payload")
    BY <2>1 DEF At
  <2> QED
    BY <1>4, <1>5, <2>1, <2>2, WaiterStep
<1> QED
  BY <1>6, <1>7, <1>8, <1>9, <1>10, <1>11

-----------------------------------------------------------------------------
(* A store reaches memory.                                                 *)
LEMMA FlushIs ==
  ASSUME Kinds, NEW p \in Procs, pending[p] \in Seq(StoreSet), Flush(p),
         NEW s, s = pending[p][1]
  PROVE  /\ pending[p] # <<>> /\ s \in StoreSet
         /\ pending' = [r \in Procs |-> pending'[r]]
         /\ pending'[p] = Tail(pending[p])
         /\ \A r \in Procs : r # p => pending'[r] = pending[r]
         /\ mem' = [w \in Words |-> mem'[w]]
         /\ \A w \in Words : w # s.word => mem'[w] = mem[w]
         /\ s.word # "buf" => mem'[s.word] = s.v
         /\ s.word = "buf" => mem'["buf"] = Landed(mem["buf"], s.at, s.v)
         /\ UNCHANGED <<next, rpc, sent, received>>
<1>1. pending[p] # <<>> /\ UNCHANGED <<next, rpc, sent, received>>
  BY DEF Flush
<1>2. s = Head(pending[p]) /\ s \in StoreSet
  BY <1>1, HeadTailProperties
<1>3. pending' = [pending EXCEPT ![p] = Tail(pending[p])]
  BY DEF Flush
<1>4. pending' = [r \in Procs |-> IF r = p THEN Tail(pending[p]) ELSE pending[r]]
  BY <1>3 DEF Kinds
<1> DEFINE new == IF s.word # "buf" THEN s.v ELSE Landed(mem[s.word], s.at, s.v)
<1>5. mem' = [mem EXCEPT ![s.word] = new]
  BY <1>2 DEF Flush, Landed
<1>6. new = IF s.word # "buf" THEN s.v ELSE Landed(mem["buf"], s.at, s.v)
  OBVIOUS
<1> HIDE DEF new
<1>7. s.word \in Words
  BY <1>2 DEF StoreSet
<1>8. mem' = [w \in Words |-> IF w = s.word THEN new ELSE mem[w]]
  BY <1>5 DEF Kinds
<1>9. /\ mem' = [w \in Words |-> mem'[w]]
      /\ \A w \in Words : w # s.word => mem'[w] = mem[w]
      /\ mem'[s.word] = new
  BY <1>7, <1>8
<1> QED
  BY <1>1, <1>2, <1>4, <1>6, <1>9

LEMMA BufferPart ==
  ASSUME NEW buf, NEW lo \in Nat, NEW hi \in Nat, NEW l \in Nat, NEW h \in Nat,
         lo <= l, h <= hi, NEW pos, NEW fs, Buffer(buf, lo, hi, pos, fs)
  PROVE  Buffer(buf, l, h, pos, fs)
<1> SUFFICES ASSUME NEW a \in l .. h - 1
             PROVE  CellIs(pos, fs, a, buf[a % Cap])
  BY DEF Buffer
<1>1. a \in lo .. hi - 1
  OBVIOUS
<1> QED
  BY <1>1 DEF Buffer

LEMMA FlushReceiver ==
  ASSUME RingInv, Flush("receiver")
  PROVE  RingInv'
<1>1. PICK pos, hs, ts : Ring(pos, hs, ts)
  BY DEF RingInv
<1>2. Kinds /\ Got
  BY DEF RingInv
<1> DEFINE q == pending["receiver"]
           n == Len(q)
           s == q[1]
<1>3. TailQ(q, ts) /\ mem["tail"] = ts[0] % Wrap /\ ts[n] = Taken(pos) /\ q \in Seq(StoreSet)
      /\ Cursor(q, ts, "tail")
  BY <1>1 DEF Ring, ReceiverSide, TailQ
<1>4. /\ q # <<>> /\ s \in StoreSet
      /\ pending' = [r \in Procs |-> pending'[r]]
      /\ pending'["receiver"] = Tail(q)
      /\ pending'["sender"] = pending["sender"]
      /\ mem' = [w \in Words |-> mem'[w]]
      /\ \A w \in Words : w # s.word => mem'[w] = mem[w]
      /\ s.word # "buf" => mem'[s.word] = s.v
      /\ UNCHANGED <<next, rpc, sent, received>>
  BY <1>2, <1>3, FlushIs DEF Procs
<1>5. n \in Nat /\ n > 0 /\ ts \in [0 .. n -> Nat] /\ 1 \in 1 .. n /\ 0 \in 0 .. n /\ 1 \in 0 .. n
  <2>1. n \in Nat /\ n > 0 /\ ts \in [0 .. n -> Nat]
    BY <1>3, <1>4, LenProperties, EmptySeq DEF Cursor
  <2> QED
    BY <2>1
<1>6. s.word \in {"tail", "waiter"}
  BY <1>3, <1>5 DEF TailQ
<1>0. PICK ds : ds = Shift(ts, n)
  OBVIOUS
<1>7. TailQ(Tail(q), ds) /\ ds[0] = ts[1] /\ ds[Len(Tail(q))] = ts[n]
  BY <1>0, <1>3, <1>4, <1>5, TailOfTailQ, ShiftEnds
<1>8. ts[0] \in Nat /\ ts[1] \in Nat /\ ts[0] <= ts[1]
  BY <1>3, <1>5 DEF Cursor, Grows
<1>9. mem'["tail"] = ts[1] % Wrap
  <2>1. Stored(q, ts, "tail", 1)
    BY <1>3, <1>5 DEF Cursor
  <2>2. CASE s.word = "tail"
    BY <1>4, <2>1, <2>2 DEF Stored
  <2>3. CASE s.word # "tail"
    <3>1. ts[1] = ts[1 - 1] /\ 1 - 1 = 0
      BY <2>1, <2>3 DEF Stored
    <3>2. mem'["tail"] = mem["tail"]
      BY <1>4, <2>3 DEF Words
    <3> QED
      BY <1>3, <3>1, <3>2
  <2> QED
    BY <2>2, <2>3
<1>10. mem'["head"] = mem["head"] /\ mem'["buf"] = mem["buf"]
  BY <1>4, <1>6 DEF Words
<1>11. Taken(pos)' = Taken(pos)
  BY <1>4 DEF Taken, At
<1>12. Kinds'
  BY <1>2, <1>4, <1>10 DEF Kinds
<1>13. Got'
  BY <1>2, <1>4 DEF Got
<1>14. SenderSide(pos, hs)'
  BY <1>1, <1>4, <1>10 DEF Ring, SenderSide
<1>15. ReceiverSide(pos, ds)'
  BY <1>3, <1>4, <1>7, <1>9, <1>11 DEF ReceiverSide
<1>16. Window(pos, hs, ds)'
  <2>1. pos[Len(sent) + 1] <= ts[0] + Cap /\ pos[Len(sent) + 1] \in Nat /\ Taken(pos) <= hs[0]
    BY <1>1, <1>2, RingFacts
  <2>2. pos[Len(sent) + 1] <= ts[1] + Cap
    BY <1>8, <2>1, Sizes
  <2> QED
    BY <1>4, <1>7, <1>11, <2>1, <2>2 DEF Window
<1>17. Written(pos, hs, ds)'
  <2>1. Buffer(mem["buf"], ts[0], hs[0], pos, sent)
    BY <1>1 DEF Ring, Written
  <2>2. hs[0] \in Nat /\ hs \in [0 .. Len(pending["sender"]) -> Nat]
    BY <1>1, <1>2, RingFacts
  <2>3. Buffer(mem["buf"], ts[1], hs[0], pos, sent)
    BY <1>8, <2>1, <2>2, BufferPart
  <2>4. ASSUME pending["sender"] # <<>>, pending["sender"][1].word = "head"
        PROVE  Buffer(mem["buf"], ts[1], hs[1], pos, sent)
    <3>1. Buffer(mem["buf"], ts[0], hs[1], pos, sent)
      BY <1>1, <2>4 DEF Ring, Written
    <3>2. pending["sender"] \in Seq(StoreSet)
      BY <1>1 DEF Ring, SenderSide, HeadQ
    <3>3. Len(pending["sender"]) \in Nat /\ Len(pending["sender"]) > 0
      BY <2>4, <3>2, LenProperties, EmptySeq
    <3>4. hs[1] \in Nat
      BY <2>2, <3>3
    <3> QED
      BY <1>8, <3>1, <3>4, BufferPart
  <2> QED
    BY <1>4, <1>7, <1>10, <2>3, <2>4 DEF Written
<1>18. Holding(pos, hs)'
  BY <1>1, <1>4 DEF Ring, Holding, At
<1>19. Ring(pos, hs, ds)'
  BY <1>14, <1>15, <1>16, <1>17, <1>18 DEF Ring
<1> QED
  BY <1>12, <1>13, <1>19 DEF RingInv

LEMMA FlushSender ==
  ASSUME RingInv, Flush("sender")
  PROVE  RingInv'
<1>1. PICK pos, hs, ts : Ring(pos, hs, ts)
  BY DEF RingInv
<1>2. Kinds /\ Got
  BY DEF RingInv
<1> DEFINE q == pending["sender"]
           n == Len(q)
           s == q[1]
           end == pos[Len(sent) + 1]
<1>3. /\ Layout(pos, sent) /\ HeadQ(q, hs, pos, sent) /\ mem["head"] = hs[0] % Wrap /\ hs[n] = end
      /\ q \in Seq(StoreSet) /\ Cursor(q, hs, "head") /\ Copies(q, hs, pos, sent)
  BY <1>1 DEF Ring, SenderSide, HeadQ
<1>4. /\ q # <<>> /\ s \in StoreSet
      /\ pending' = [r \in Procs |-> pending'[r]]
      /\ pending'["sender"] = Tail(q)
      /\ pending'["receiver"] = pending["receiver"]
      /\ mem' = [w \in Words |-> mem'[w]]
      /\ \A w \in Words : w # s.word => mem'[w] = mem[w]
      /\ s.word # "buf" => mem'[s.word] = s.v
      /\ s.word = "buf" => mem'["buf"] = Landed(mem["buf"], s.at, s.v)
      /\ UNCHANGED <<next, rpc, sent, received>>
  BY <1>2, <1>3, FlushIs DEF Procs
<1>5. n \in Nat /\ n > 0 /\ hs \in [0 .. n -> Nat] /\ 1 \in 1 .. n /\ 0 \in 0 .. n /\ 1 \in 0 .. n /\ n \in 0 .. n
  <2>1. n \in Nat /\ n > 0 /\ hs \in [0 .. n -> Nat]
    BY <1>3, <1>4, LenProperties, EmptySeq DEF Cursor
  <2> QED
    BY <2>1
<1>6. s.word \in {"head", "waiter", "buf"}
  BY <1>3, <1>5 DEF Copies
<1>0. PICK ds : ds = Shift(hs, n)
  OBVIOUS
<1>7. /\ Cursor(Tail(q), ds, "head") /\ Copies(Tail(q), ds, pos, sent) /\ Tail(q) \in Seq(StoreSet)
      /\ ds[0] = hs[1] /\ ds[Len(Tail(q))] = end
      /\ Tail(q) # <<>> => ds[1] = hs[2] /\ Tail(q)[1] = q[2] /\ n >= 2
  BY <1>0, <1>3, <1>4, <1>5, CursorTail, CopiesTail, ShiftEnds, HeadTailProperties
<1>8. hs[0] \in Nat /\ hs[1] \in Nat /\ hs[0] <= hs[1] /\ hs[1] <= end /\ end \in Nat
  <2>1. 0 <= 1 /\ 1 <= n
    BY <1>5
  <2>2. hs[0] <= hs[1] /\ hs[1] <= hs[n]
    BY <1>3, <1>5, <2>1 DEF Cursor, Grows
  <2> QED
    BY <1>3, <1>5, <2>2
<1>9. mem'["head"] = hs[1] % Wrap
  <2>1. Stored(q, hs, "head", 1)
    BY <1>3, <1>5 DEF Cursor
  <2>2. CASE s.word = "head"
    BY <1>4, <2>1, <2>2 DEF Stored
  <2>3. CASE s.word # "head"
    <3>1. hs[1] = hs[1 - 1] /\ 1 - 1 = 0
      BY <2>1, <2>3 DEF Stored
    <3>2. mem'["head"] = mem["head"]
      BY <1>4, <2>3 DEF Words
    <3> QED
      BY <1>3, <3>1, <3>2
  <2> QED
    BY <2>2, <2>3
<1>10. s.word # "head" => hs[1] = hs[0]
  <2>1. Stored(q, hs, "head", 1)
    BY <1>3, <1>5 DEF Cursor
  <2>2. 1 - 1 = 0
    OBVIOUS
  <2> QED
    BY <2>1, <2>2 DEF Stored
<1>11. mem'["tail"] = mem["tail"]
  BY <1>4, <1>6 DEF Words
<1>12. Taken(pos)' = Taken(pos)
  BY <1>4 DEF Taken, At
<1>13. /\ ts[0] \in Nat /\ Taken(pos) \in Nat /\ ts[0] <= Taken(pos) /\ Taken(pos) <= hs[0]
       /\ end <= ts[0] + Cap /\ mem["buf"] \in [0 .. Cap - 1 -> Nat]
       /\ Buffer(mem["buf"], ts[0], hs[0], pos, sent)
  BY <1>1, <1>2, RingFacts DEF Kinds, Ring, Written
<1>14. ASSUME s.word # "buf"
       PROVE  Written(pos, ds, ts)' /\ mem'["buf"] \in [0 .. Cap - 1 -> Nat]
  <2>1. mem'["buf"] = mem["buf"]
    BY <1>4, <1>14 DEF Words
  <2>2. Buffer(mem["buf"], ts[0], hs[1], pos, sent)
    <3>1. CASE s.word = "head"
      BY <1>1, <1>4, <3>1 DEF Ring, Written
    <3>2. CASE s.word # "head"
      BY <1>10, <1>13, <3>2
    <3> QED
      BY <3>1, <3>2
  <2>3. ~(Tail(q) # <<>> /\ Tail(q)[1].word = "head")
    <3> SUFFICES ASSUME Tail(q) # <<>>, Tail(q)[1].word = "head"
                 PROVE  FALSE
      OBVIOUS
    <3>1. q[2].word = "head" /\ 2 \in 1 .. n /\ 2 > 1 /\ 2 - 1 = 1
      BY <1>5, <1>7
    <3>2. q[2 - 1].word = "buf"
      BY <1>3, <3>1 DEF Copies
    <3> QED
      BY <1>14, <3>1, <3>2
  <2>4. Written(pos, ds, ts)'
    BY <1>4, <1>7, <2>1, <2>2, <2>3 DEF Written
  <2> QED
    BY <1>13, <2>1, <2>4
<1>15. ASSUME s.word = "buf"
       PROVE  Written(pos, ds, ts)' /\ mem'["buf"] \in [0 .. Cap - 1 -> Nat]
  <2>1. Copied(q, hs, pos, sent, 1)
    BY <1>3, <1>5, <1>15 DEF Copies
  <2> DEFINE v == s.v
             L == Len(v)
  <2>2. /\ 1 < n /\ hs[2] = hs[1] + L /\ s.at = hs[1] % Cap /\ v \in Seq(Nat)
        /\ \A i \in 1 .. L : CellIs(pos, sent, hs[1] + i - 1, v[i])
    <3>1. 1 + 1 = 2
      OBVIOUS
    <3> QED
      BY <2>1, <3>1 DEF Copied
  <2>3. hs[2] <= end /\ L \in Nat
    <3>1. 2 \in 0 .. n /\ 2 <= n
      BY <1>5, <2>2
    <3>2. hs[2] <= hs[n]
      BY <1>3, <1>5, <3>1 DEF Cursor, Grows
    <3> QED
      BY <1>3, <2>2, <3>2, LenProperties
  <2> DEFINE new == Landed(mem["buf"], hs[1] % Cap, v)
  <2>4. new \in [0 .. Cap - 1 -> Nat] /\ Buffer(new, ts[0], hs[1] + L, pos, sent)
    <3>1. hs[1] + L <= ts[0] + Cap
      <4>1. hs[1] + L <= end
        BY <2>2, <2>3
      <4> HIDE DEF L, end
      <4> QED
        BY <1>8, <1>13, <2>3, <4>1, Sizes
    <3>2. ts[0] <= hs[1]
      BY <1>8, <1>13
    <3>3. Buffer(mem["buf"], ts[0], hs[1], pos, sent)
      BY <1>10, <1>13, <1>15
    <3>4. hs[1] \in Nat /\ v \in Seq(Nat) /\ ts[0] \in Nat /\ mem["buf"] \in [0 .. Cap - 1 -> Nat]
      BY <1>8, <1>13, <2>2
    <3>5. \A i \in 1 .. Len(v) : CellIs(pos, sent, hs[1] + i - 1, v[i])
      BY <2>2
    <3> HIDE DEF v
    <3> QED
      BY <3>1, <3>2, <3>3, <3>4, <3>5, CopyLands
  <2>5. mem'["buf"] = new
    BY <1>4, <1>15, <2>2
  <2> HIDE DEF new
  <2>6. Buffer(new, ts[0], hs[1], pos, sent)
    <3> DEFINE hi == hs[1] + L
    <3> HIDE DEF L
    <3>1. hi \in Nat /\ hs[1] <= hi /\ Buffer(new, ts[0], hi, pos, sent)
      BY <1>8, <2>3, <2>4
    <3> HIDE DEF hi
    <3>2. ts[0] <= ts[0]
      BY <1>13
    <3> QED
      BY <1>8, <1>13, <3>1, <3>2, BufferPart
  <2>7. Written(pos, ds, ts)'
    <3>1. Buffer(mem'["buf"], ts[0], ds[0], pos, sent')
      BY <1>4, <1>7, <2>5, <2>6
    <3>2. Tail(q) # <<>> => Buffer(mem'["buf"], ts[0], ds[1], pos, sent')
      BY <1>4, <1>7, <2>2, <2>4, <2>5
    <3> QED
      BY <1>4, <3>1, <3>2 DEF Written
  <2> QED
    BY <2>4, <2>5, <2>7
<1>16. Written(pos, ds, ts)' /\ mem'["buf"] \in [0 .. Cap - 1 -> Nat]
  BY <1>14, <1>15
<1>17. Kinds'
  BY <1>2, <1>4, <1>16 DEF Kinds
<1>18. Got'
  BY <1>2, <1>4 DEF Got
<1>19. SenderSide(pos, ds)'
  BY <1>3, <1>4, <1>7, <1>9 DEF SenderSide, HeadQ
<1>20. ReceiverSide(pos, ts)'
  BY <1>1, <1>4, <1>11, <1>12 DEF Ring, ReceiverSide
<1>21. Window(pos, ds, ts)'
  BY <1>4, <1>7, <1>8, <1>12, <1>13 DEF Window
<1>22. Holding(pos, ds)'
  <2> SUFFICES ASSUME At("payload")
               PROVE  /\ Len(received) < Len(sent)
                      /\ rpc.frame = sent[Len(received) + 1].frame
                      /\ rpc.len = sent[Len(received) + 1].len
                      /\ pos[Len(received) + 2] <= ds[0]
    BY <1>4 DEF Holding, At
  <2>1. /\ Len(received) < Len(sent)
        /\ rpc.frame = sent[Len(received) + 1].frame
        /\ rpc.len = sent[Len(received) + 1].len
        /\ pos[Len(received) + 2] <= hs[0]
    BY <1>1 DEF Ring, Holding
  <2>2. pos[Len(received) + 2] \in Nat
    <3>1. /\ pos \in [1 .. Len(sent) + 1 -> Nat] /\ Len(received) \in Nat /\ Len(sent) \in Nat
      BY <1>1, <1>2, RingFacts
    <3>2. Len(received) + 2 \in 1 .. Len(sent) + 1
      BY <2>1, <3>1
    <3> QED
      BY <3>1, <3>2
  <2>3. pos[Len(received) + 2] <= ds[0]
    BY <1>7, <1>8, <2>1, <2>2
  <2> QED
    BY <2>1, <2>3
<1>23. Ring(pos, ds, ts)'
  BY <1>16, <1>19, <1>20, <1>21, <1>22 DEF Ring
<1> QED
  BY <1>17, <1>18, <1>23 DEF RingInv

-----------------------------------------------------------------------------
(* The sender's steps.  The cells and the head of one ring_push, by their  *)
(* positions.                                                              *)
LEMMA RingPushIs ==
  ASSUME NEW e \in Nat, NEW d \in Nat, NEW cells \in Seq(Nat)
  PROVE  ring_push((e % Wrap) + d, cells)
           = Pushed(e + d, cells)
<1> DEFINE x == e % Wrap
           L == Len(cells)
<1>1. x \in Nat /\ L \in Nat /\ e \in Int /\ d \in Int
  <2>1. x \in Nat
    BY Remainders
  <2>2. L \in Nat
    BY LenProperties
  <2> QED
    BY <2>1, <2>2
<1>2. (x + d) % Cap = (e + d) % Cap
  BY <1>1, Sizes, ModInside
<1>3. ((x + d) + L) % Wrap = ((e + d) + L) % Wrap
  <2> DEFINE y == d + L
  <2>1. y \in Int
    BY <1>1
  <2>2. (x + y) % Wrap = (e + y) % Wrap
    <3> HIDE DEF y
    <3> QED
      BY <1>1, <2>1, Sizes, ModSame
  <2> HIDE DEF x, L
  <2>3. (x + d) + L = x + y /\ (e + d) + L = e + y
    BY <1>1
  <2> QED
    BY <2>2, <2>3
<1> QED
  BY <1>2, <1>3 DEF ring_push, Pushed

(* A frame is put behind the last one.                                     *)
LEMMA SenderStep ==
  ASSUME Kinds, Got, NEW pos, NEW hs, NEW ts, Ring(pos, hs, ts),
         NEW f \in FrameSet, sent' = Append(sent, f),
         pos[Len(sent) + 1] + 2 + f.len <= ts[0] + Cap,
         NEW new, new = Longer(pos, Len(sent), f.len),
         NEW ds, HeadQ(pending'["sender"], ds, new, sent'),
         ds[Len(pending'["sender"])] = pos[Len(sent) + 1] + 2 + f.len,
         SameFirst(pending["sender"], hs, pending'["sender"], ds),
         pending' = [p \in Procs |-> pending'[p]],
         pending'["receiver"] = pending["receiver"],
         UNCHANGED <<mem, rpc, received>>, next' \in Nat
  PROVE  RingInv'
<1> DEFINE n == Len(sent)
           q == pending["sender"]
<1>1. sent \in Seq(FrameSet) /\ Layout(pos, sent) /\ HeadQ(q, hs, pos, sent) /\ hs[Len(q)] = pos[n + 1]
  BY DEF Kinds, Ring, SenderSide
<1>2. /\ n \in Nat
      /\ \A i \in 1 .. n + 1 : new[i] = pos[i] /\ pos[i] \in Nat /\ pos[i] <= pos[n + 1]
      /\ new[n + 2] = pos[n + 1] + 2 + f.len
      /\ pos[n + 1] \in Nat
  <2>1. n \in Nat /\ pos \in [1 .. n + 1 -> Nat] /\ n + 1 \in 1 .. n + 1
    BY RingFacts
  <2>2. \A i \in 1 .. n + 1 : pos[i] \in Nat /\ pos[i] <= pos[n + 1]
    BY <1>1, <2>1 DEF Layout
  <2>3. new = Longer(pos, n, f.len)
    OBVIOUS
  <2> HIDE DEF n
  <2>4. \A i \in 1 .. n + 1 : new[i] = pos[i]
    BY <2>1, <2>3 DEF Longer
  <2>5. new[n + 2] = pos[n + 1] + 2 + f.len
    BY <2>1, <2>3 DEF Longer
  <2> QED
    BY <2>1, <2>2, <2>4, <2>5
<1>3. Layout(new, sent')
  BY <1>1, LayoutGrows
<1>4. sent' \in Seq(FrameSet) /\ Len(sent') = n + 1 /\ \A i \in 1 .. n : sent'[i] = sent[i]
  BY <1>1, AppendProperties
<1>5. (n + 1) + 1 = n + 2
  BY <1>2
<1>6. /\ Len(received) \in Nat /\ Len(received) <= n
      /\ Len(received) + 1 \in 1 .. n + 1
  <2>1. Len(received) \in Nat /\ Len(received) <= n
    BY RingFacts DEF Got
  <2> QED
    BY <1>2, <2>1
<1>7. Taken(new)' = Taken(pos)
  BY <1>2, <1>6 DEF Taken, At
<1>8. ds[0] = hs[0] /\ hs[0] \in Nat /\ ts[0] \in Nat /\ hs[0] <= pos[n + 1] /\ Taken(pos) <= hs[0]
  BY RingFacts DEF SameFirst
<1>9. Kinds'
  BY <1>4 DEF Kinds
<1>10. Got'
  <2>1. \A i \in 1 .. Len(received) : i \in 1 .. n
    BY <1>2, <1>6
  <2>2. Len(received) <= n + 1
    BY <1>2, <1>6
  <2> QED
    BY <1>4, <2>1, <2>2 DEF Got
<1>11. SenderSide(new, ds)'
  <2>1. mem'["head"] = ds[0] % Wrap
    BY <1>8 DEF Ring, SenderSide
  <2>2. ds[Len(pending'["sender"])] = new[Len(sent') + 1]
    BY <1>2, <1>4, <1>5
  <2> QED
    BY <1>3, <2>1, <2>2 DEF SenderSide
<1>12. ReceiverSide(new, ts)'
  BY <1>7 DEF Ring, ReceiverSide
<1>13. Window(new, ds, ts)'
  <2>1. new[Len(sent') + 1] <= ts[0] + Cap
    BY <1>2, <1>4, <1>5
  <2> QED
    BY <1>7, <1>8, <2>1 DEF Window
<1>14. Written(new, ds, ts)'
  <2>1. Buffer(mem["buf"], ts[0], hs[0], new, sent')
    <3>1. Buffer(mem["buf"], ts[0], hs[0], pos, sent)
      BY DEF Ring, Written
    <3> QED
      BY <1>1, <1>8, <3>1, BufferStays
  <2>2. ASSUME pending'["sender"] # <<>>, pending'["sender"][1].word = "head"
        PROVE  Buffer(mem["buf"], ts[0], ds[1], new, sent')
    <3>1. q # <<>> /\ q[1].word = "head" /\ ds[1] = hs[1]
      BY <2>2 DEF SameFirst
    <3>2. Buffer(mem["buf"], ts[0], hs[1], pos, sent)
      BY <3>1 DEF Ring, Written
    <3>3. hs[1] \in Nat /\ hs[1] <= pos[n + 1]
      <4>1. q \in Seq(StoreSet) /\ Cursor(q, hs, "head")
        BY <1>1 DEF HeadQ
      <4>2. Len(q) \in Nat /\ Len(q) > 0
        BY <3>1, <4>1, LenProperties, EmptySeq
      <4>3. 1 \in 0 .. Len(q) /\ Len(q) \in 0 .. Len(q) /\ 1 <= Len(q)
        BY <4>2
      <4>4. hs[1] \in Nat /\ hs[1] <= hs[Len(q)]
        BY <4>1, <4>3 DEF Cursor, Grows
      <4> QED
        BY <1>1, <4>4
    <3>4. Buffer(mem["buf"], ts[0], hs[1], new, sent')
      BY <1>1, <1>8, <3>2, <3>3, BufferStays
    <3> QED
      BY <3>1, <3>4
  <2> QED
    BY <1>8, <2>1, <2>2 DEF Written
<1>15. Holding(new, ds)'
  <2> SUFFICES ASSUME At("payload")
               PROVE  /\ Len(received) < n + 1
                      /\ rpc.frame = sent'[Len(received) + 1].frame
                      /\ rpc.len = sent'[Len(received) + 1].len
                      /\ new[Len(received) + 2] <= hs[0]
    BY <1>4, <1>8 DEF Holding, At
  <2>1. /\ Len(received) < n
        /\ rpc.frame = sent[Len(received) + 1].frame
        /\ rpc.len = sent[Len(received) + 1].len
        /\ pos[Len(received) + 2] <= hs[0]
    BY DEF Ring, Holding
  <2>2. Len(received) + 1 \in 1 .. n /\ Len(received) + 2 \in 1 .. n + 1 /\ Len(received) < n + 1
    BY <1>2, <1>6, <2>1
  <2> QED
    BY <1>2, <1>4, <2>1, <2>2
<1>16. Ring(new, ds, ts)'
  BY <1>11, <1>12, <1>13, <1>14, <1>15 DEF Ring
<1> QED
  BY <1>9, <1>10, <1>16 DEF RingInv

LEMMA PushKeeps ==
  ASSUME RingInv, NEW len \in Lengths, Push(len)
  PROVE  RingInv'
<1>1. PICK pos, hs, ts : Ring(pos, hs, ts)
  BY DEF RingInv
<1>2. Kinds /\ Got
  BY DEF RingInv
<1>3. PICK f : f = [frame |-> next, len |-> len]
  OBVIOUS
<1>4. PICK e : e = pos[Len(sent) + 1]
  OBVIOUS
<1>5. PICK new : new = Longer(pos, Len(sent), len)
  OBVIOUS
<1> DEFINE q == pending["sender"]
           hdr == <<next, len>>
           body == [i \in 1 .. len |-> next]
           h == Load("sender", "head")
           one == ring_push(h, hdr)
           two == ring_push(h + Hdr, body)
<1>6. /\ Hdr + len <= Cap /\ HasRoom(len)
      /\ Write("sender", one \o (IF len = 0 THEN <<>> ELSE two))
      /\ next' = next + 1 /\ sent' = Append(sent, f)
      /\ UNCHANGED <<mem, rpc, received>>
  BY <1>3 DEF Push
<1>7. len \in Nat /\ next \in Nat /\ f \in FrameSet /\ f.len = len /\ f.frame = next
  <2>1. len \in Nat /\ next \in Nat
    BY <1>2, ShmLengthAssumption DEF Kinds
  <2>2. len \in 0 .. Cap - Hdr
    BY <1>6, <2>1, Sizes DEF Hdr
  <2> QED
    BY <1>3, <2>1, <2>2 DEF FrameSet
<1>8. e \in Nat /\ h = e % Wrap /\ ts[0] \in Nat /\ e + 2 + len <= ts[0] + Cap
  <2>1. e \in Nat /\ ts[0] \in Nat
    BY <1>1, <1>2, <1>4, RingFacts
  <2>2. h = e % Wrap /\ ring_used("sender") = e - ts[0]
    BY <1>1, <1>2, <1>4, SenderSees
  <2>3. Cap - (e - ts[0]) >= 2 + len
    BY <1>6, <2>2 DEF HasRoom, ring_free, Hdr
  <2> QED
    BY <1>7, <2>1, <2>2, <2>3, Sizes
<1>9. sent \in Seq(FrameSet) /\ Layout(pos, sent) /\ HeadQ(q, hs, pos, sent) /\ hs[Len(q)] = e
      /\ q \in Seq(StoreSet)
  BY <1>1, <1>2, <1>4 DEF Kinds, Ring, SenderSide, HeadQ
<1>10. HeadQ(q, hs, new, sent')
  <2>1. Cursor(q, hs, "head") /\ Copies(q, hs, pos, sent)
    BY <1>9 DEF HeadQ
  <2>2. hs[Len(q)] <= pos[Len(sent) + 1]
    BY <1>4, <1>8, <1>9
  <2>3. Copies(q, hs, new, sent')
    BY <1>5, <1>6, <1>7, <1>9, <2>1, <2>2, CopiesStay
  <2> QED
    BY <1>9, <2>1, <2>3 DEF HeadQ
<1>11. ASSUME NEW a \in Nat, e <= a, NEW v \in Nat, v = IF a = e + 1 THEN len ELSE next
       PROVE  CellIs(new, sent', a, v)
  BY <1>4, <1>5, <1>6, <1>7, <1>9, <1>11, NewCell
<1>12. hdr \in Seq(Nat) /\ Len(hdr) = 2 /\ hdr[1] = next /\ hdr[2] = len
  BY <1>7
<1>13. body \in Seq(Nat) /\ Len(body) = len /\ \A i \in 1 .. len : body[i] = next
  <2>1. body \in [1 .. len -> Nat]
    BY <1>7
  <2>2. body \in Seq(Nat)
    BY <1>7, <2>1, SeqDef
  <2>3. 1 .. Len(body) = 1 .. len /\ Len(body) \in Nat
    BY <2>1, <2>2, LenProperties
  <2>4. Len(body) = len
    BY <1>7, <2>3
  <2> QED
    BY <2>2, <2>4
<1> HIDE DEF hdr, body, h
<1>14. one = Pushed(e, hdr)
  <2>1. ring_push((e % Wrap) + 0, hdr) = Pushed(e + 0, hdr)
    BY <1>8, <1>12, RingPushIs
  <2>2. (e % Wrap) + 0 = e % Wrap /\ e + 0 = e
    BY <1>8, Remainders
  <2> QED
    BY <1>8, <2>1, <2>2
<1>15. two = Pushed(e + 2, body)
  BY <1>8, <1>13, RingPushIs DEF Hdr
<1> HIDE DEF one, two
<1>16. PICK r1 : r1 = q \o one
  OBVIOUS
<1>17. PICK d1 : HeadQ(r1, d1, new, sent') /\ d1[Len(r1)] = e + 2 /\ SameFirst(q, hs, r1, d1)
  <2>0. ASSUME NEW i \in 1 .. Len(hdr)
        PROVE  CellIs(new, sent', e + i - 1, hdr[i])
    <3>1. CASE i = 1
      <4>1. e + i - 1 = e /\ e # e + 1
        BY <1>8, <3>1
      <4>2. CellIs(new, sent', e, next)
        BY <1>7, <1>8, <1>11, <4>1
      <4> QED
        BY <1>12, <3>1, <4>1, <4>2
    <3>2. CASE i = 2
      <4>1. e + i - 1 = e + 1 /\ e + 1 \in Nat /\ e <= e + 1
        BY <1>8, <3>2
      <4>2. CellIs(new, sent', e + 1, len)
        BY <1>7, <1>11, <4>1
      <4> QED
        BY <1>12, <3>2, <4>1, <4>2
    <3> QED
      BY <1>12, <3>1, <3>2
  <2>1. CellsAt(new, sent', e, hdr)
    BY <2>0 DEF CellsAt
  <2>2. e = hs[Len(q)]
    BY <1>9
  <2>3. \E d1 : HeadQ(r1, d1, new, sent') /\ d1[Len(r1)] = e + Len(hdr) /\ SameFirst(q, hs, r1, d1)
    <3>1. r1 = q \o Pushed(e, hdr)
      BY <1>14, <1>16
    <3>2. e \in Nat /\ hdr \in Seq(Nat)
      BY <1>8, <1>12
    <3> HIDE DEF q
    <3> QED
      BY <1>10, <2>1, <2>2, <3>1, <3>2, PushPair
  <2> QED
    BY <1>12, <2>3
<1>18. one \in Seq(StoreSet) /\ two \in Seq(StoreSet) /\ r1 \in Seq(StoreSet)
  <2>1. ASSUME NEW a \in Nat, NEW cells \in Seq(Nat)
        PROVE  Pushed(a, cells) \in Seq(StoreSet)
    <3>0. a + Len(cells) \in Nat
      BY LenProperties
    <3>1. a % Cap \in Nat /\ (a + Len(cells)) % Wrap \in Nat
      BY <3>0, Remainders
    <3>2. Copy(a % Cap, cells) \in StoreSet /\ Store("head", (a + Len(cells)) % Wrap) \in StoreSet
      BY <3>1 DEF Copy, Store, StoreSet, Words
    <3> QED
      BY <3>2 DEF Pushed
  <2>2. e + 2 \in Nat
    BY <1>8
  <2>3. one \in Seq(StoreSet)
    BY <1>8, <1>12, <1>14, <2>1, <2>2
  <2>4. two \in Seq(StoreSet)
    BY <1>13, <1>15, <2>1, <2>2
  <2> QED
    BY <1>17, <2>3, <2>4 DEF HeadQ
<1>19. /\ pending' = [p \in Procs |-> pending'[p]]
       /\ pending'["sender"] = q \o (one \o (IF len = 0 THEN <<>> ELSE two))
       /\ pending'["receiver"] = pending["receiver"]
  BY <1>2, <1>6, WriteIs DEF Procs
<1>20. PICK ds : /\ HeadQ(pending'["sender"], ds, new, sent')
                 /\ ds[Len(pending'["sender"])] = e + 2 + len
                 /\ SameFirst(q, hs, pending'["sender"], ds)
  <2>1. CASE len = 0
    <3>1. one \o <<>> = one
      BY <1>18, ConcatEmptySeq
    <3>2. pending'["sender"] = r1
      BY <1>16, <1>19, <2>1, <3>1
    <3>3. e + 2 + len = e + 2
      BY <1>8, <2>1
    <3> QED
      BY <1>17, <3>2, <3>3
  <2>2. CASE len # 0
    <3>1. pending'["sender"] = r1 \o two
      <4>1. q \o (one \o two) = (q \o one) \o two
        <5>1. q \in Seq(StoreSet) /\ one \in Seq(StoreSet) /\ two \in Seq(StoreSet)
          BY <1>9, <1>18
        <5> HIDE DEF q
        <5> QED
          BY <5>1, ConcatAssociative
      <4> QED
        BY <1>16, <1>19, <2>2, <4>1
    <3>2. PICK r2 : r2 = r1 \o two
      OBVIOUS
    <3> DEFINE m == e + 2
    <3>3. ASSUME NEW i \in 1 .. Len(body)
          PROVE  CellIs(new, sent', m + i - 1, body[i])
      <4>1. m + i - 1 \in Nat /\ e <= m + i - 1 /\ m + i - 1 # e + 1
        BY <1>7, <1>8, <1>13
      <4> DEFINE a == m + i - 1
      <4> HIDE DEF a
      <4>2. CellIs(new, sent', a, next)
        BY <1>7, <1>11, <4>1 DEF a
      <4> QED
        BY <1>13, <4>2 DEF a
    <3>4. m \in Nat /\ m = d1[Len(r1)] /\ two = Pushed(m, body)
      BY <1>8, <1>15, <1>17
    <3> HIDE DEF m
    <3>5. PICK ds : /\ HeadQ(r2, ds, new, sent') /\ ds[Len(r2)] = m + Len(body)
                    /\ SameFirst(r1, d1, r2, ds)
      <4>1. r2 = r1 \o Pushed(m, body) /\ CellsAt(new, sent', m, body)
        BY <3>2, <3>3, <3>4 DEF CellsAt
      <4>2. m \in Nat /\ m = d1[Len(r1)] /\ body \in Seq(Nat) /\ HeadQ(r1, d1, new, sent')
        BY <1>13, <1>17, <3>4
      <4> QED
        BY <4>1, <4>2, PushPair
    <3>6. SameFirst(q, hs, r2, ds)
      BY <1>17, <3>5 DEF SameFirst
    <3> QED
      BY <1>13, <3>1, <3>2, <3>5, <3>6 DEF m
  <2> QED
    BY <2>1, <2>2
<1>21. next' \in Nat
  BY <1>6, <1>7
<1> QED
  BY <1>1, <1>2, <1>4, <1>5, <1>6, <1>7, <1>8, <1>19, <1>20, <1>21, SenderStep

LEMMA CheckWaiterKeeps ==
  ASSUME RingInv, CheckWaiter
  PROVE  RingInv'
<1>1. PICK pos, hs, ts : Ring(pos, hs, ts)
  BY DEF RingInv
<1>2. Kinds /\ Got
  BY DEF RingInv
<1>3. UNCHANGED <<mem, next, rpc, sent, received>>
  BY DEF CheckWaiter
<1>4. CASE UNCHANGED pending
  <2>1. next' \in Nat /\ rpc' \in [at : Places, frame : Nat, len : Nat]
    BY <1>2, <1>3 DEF Kinds
  <2> QED
    BY <1>3, <1>4, <2>1, QuietStep
<1>5. CASE Write("sender", <<Store("waiter", 0)>>)
  <2> DEFINE q == pending["sender"]
             n == Len(q)
  <2>0. PICK st : st = Store("waiter", 0)
    OBVIOUS
  <2>1. st \in StoreSet /\ st.word = "waiter"
    BY <2>0 DEF Store, StoreSet, Words
  <2>2. /\ pending' = [p \in Procs |-> pending'[p]]
        /\ pending'["sender"] = q \o <<st>>
        /\ pending'["receiver"] = pending["receiver"]
    BY <1>2, <1>5, <2>0, WriteIs DEF Procs
  <2>3. /\ q \in Seq(StoreSet) /\ Cursor(q, hs, "head") /\ Copies(q, hs, pos, sent)
        /\ mem["head"] = hs[0] % Wrap /\ hs[n] = pos[Len(sent) + 1] /\ Layout(pos, sent)
    BY <1>1 DEF Ring, SenderSide, HeadQ
  <2>4. pending'["sender"] = Append(q, st)
    BY <2>1, <2>2, <2>3, AppendIsConcat
  <2>5. n \in Nat /\ hs \in [0 .. n -> Nat] /\ hs[n] \in Nat
    <3>1. n \in Nat /\ hs \in [0 .. n -> Nat]
      BY <2>3, LenProperties DEF Cursor
    <3> QED
      BY <3>1
  <2>6. PICK ds : ds = Ext(hs, n, hs[n])
    OBVIOUS
  <2>7. /\ Len(Append(q, st)) = n + 1 /\ (\A i \in 1 .. n : Append(q, st)[i] = q[i])
        /\ Append(q, st)[n + 1] = st /\ Append(q, st) \in Seq(StoreSet)
    BY <2>1, <2>3, AppendProperties
  <2>8. (\A j \in 0 .. n : ds[j] = hs[j]) /\ ds[n + 1] = hs[n]
    <3> DEFINE m == hs[n]
    <3>1. m \in Nat /\ ds = Ext(hs, n, m)
      BY <2>5, <2>6
    <3> HIDE DEF m, n
    <3>2. (\A j \in 0 .. n : ds[j] = hs[j]) /\ ds[n + 1] = m
      BY <2>5, <3>1 DEF Ext
    <3> QED
      BY <3>2 DEF m
  <2>9. HeadQ(Append(q, st), ds, pos, sent)
    <3>1. Cursor(Append(q, st), ds, "head")
      <4> DEFINE m == hs[n]
      <4>1. m \in Nat /\ hs[Len(q)] <= m /\ m = hs[Len(q)] /\ st.word # "head"
        BY <2>1, <2>5
      <4>2. ds = Ext(hs, Len(q), m)
        BY <2>6
      <4> HIDE DEF m, q
      <4> QED
        BY <2>1, <2>3, <4>1, <4>2, CursorAppend
    <3>2. Copies(Append(q, st), ds, pos, sent)
      <4> DEFINE m == hs[n]
      <4>1. m \in Nat /\ ds = Ext(hs, Len(q), m) /\ hs \in [0 .. Len(q) -> Nat]
        BY <2>5, <2>6
      <4> HIDE DEF m, q
      <4> QED
        BY <2>1, <2>3, <4>1, CopiesWaiter
    <3> QED
      BY <2>7, <3>1, <3>2 DEF HeadQ
  <2>10. ds[0] = hs[0] /\ ds[n + 1] = pos[Len(sent) + 1]
    BY <2>3, <2>5, <2>8
  <2>11. Append(q, st)[1].word = "head" => q # <<>> /\ q[1].word = "head" /\ ds[1] = hs[1]
    <3> SUFFICES ASSUME Append(q, st)[1].word = "head"
                 PROVE  q # <<>> /\ q[1].word = "head" /\ ds[1] = hs[1]
      OBVIOUS
    <3>1. n # 0
      <4> SUFFICES ASSUME n = 0 PROVE FALSE
        OBVIOUS
      <4>1. Append(q, st)[1] = st
        <5>1. n + 1 = 1
          OBVIOUS
        <5> QED
          BY <2>7, <5>1
      <4> QED
        BY <2>1, <4>1
    <3>2. 1 \in 1 .. n /\ 1 \in 0 .. n
      BY <2>5, <3>1
    <3>3. q # <<>>
      BY <2>3, <3>1, EmptySeq
    <3> QED
      BY <2>7, <2>8, <3>2, <3>3
  <2>12. Taken(pos)' = Taken(pos)
    BY <1>3 DEF Taken, At
  <2>13. Kinds' /\ Got'
    BY <1>2, <1>3, <2>2 DEF Kinds, Got
  <2>14. SenderSide(pos, ds)'
    BY <1>3, <2>3, <2>4, <2>7, <2>9, <2>10 DEF SenderSide
  <2>15. ReceiverSide(pos, ts)'
    BY <1>1, <1>3, <2>2, <2>12 DEF Ring, ReceiverSide
  <2>16. Window(pos, ds, ts)'
    BY <1>1, <1>3, <2>10, <2>12 DEF Ring, Window
  <2>17. Written(pos, ds, ts)'
    BY <1>1, <1>3, <2>4, <2>10, <2>11 DEF Ring, Written
  <2>18. Holding(pos, ds)'
    BY <1>1, <1>3, <2>10 DEF Ring, Holding, At
  <2>19. Ring(pos, ds, ts)'
    BY <2>14, <2>15, <2>16, <2>17, <2>18 DEF Ring
  <2> QED
    BY <2>13, <2>19 DEF RingInv
<1> QED
  BY <1>4, <1>5 DEF CheckWaiter

LEMMA RingInit ==
  ASSUME Init
  PROVE  RingInv
<1>1. PICK pos : pos = [i \in 1 .. 1 |-> 0]
  OBVIOUS
<1>2. PICK cs : cs = [i \in 0 .. 0 |-> 0]
  OBVIOUS
<1>3. sent = <<>> /\ received = <<>> /\ rpc = Idle /\ next = 1
  BY DEF Init
<1>4. pending["sender"] = <<>> /\ pending["receiver"] = <<>> /\ pending = [p \in Procs |-> pending[p]]
  BY DEF Init, Procs
<1>5. mem = [w \in Words |-> mem[w]] /\ mem["head"] = 0 /\ mem["tail"] = 0
      /\ mem["buf"] \in [0 .. Cap - 1 -> Nat]
  BY DEF Init, Words
<1>6. Len(<<>>) = 0 /\ \A S : <<>> \in Seq(S)
  OBVIOUS
<1>7. Kinds
  BY <1>3, <1>4, <1>5, <1>6 DEF Kinds, Idle, Places
<1>8. Got
  BY <1>3, <1>6 DEF Got
<1>9. pos \in [1 .. 1 -> Nat] /\ pos[1] = 0 /\ cs \in [0 .. 0 -> Nat] /\ cs[0] = 0
  BY <1>1, <1>2
<1>10. Layout(pos, <<>>)
  <2>1. \A i \in 1 .. 1 : i = 1
    OBVIOUS
  <2>2. 0 + 1 = 1 /\ 1 .. 0 = {}
    OBVIOUS
  <2> QED
    BY <1>6, <1>9, <2>1, <2>2 DEF Layout
<1>11. ASSUME NEW word
       PROVE  Cursor(<<>>, cs, word)
  <2>1. \A i \in 0 .. 0 : i = 0
    OBVIOUS
  <2>2. 1 .. 0 = {}
    OBVIOUS
  <2> QED
    BY <1>6, <1>9, <2>1, <2>2 DEF Cursor, Grows, Youngest
<1>12. HeadQ(<<>>, cs, pos, <<>>) /\ TailQ(<<>>, cs)
  <2>1. 1 .. 0 = {}
    OBVIOUS
  <2> QED
    BY <1>6, <1>11, <2>1 DEF HeadQ, TailQ, Copies
<1>13. 0 % Wrap = 0
  BY Sizes, ModSmall
<1>14. Taken(pos) = 0
  <2>1. ~At("payload")
    BY <1>3 DEF At, Idle
  <2>2. 0 + 1 = 1
    OBVIOUS
  <2> QED
    BY <1>3, <1>6, <1>9, <2>1, <2>2 DEF Taken
<1>15. SenderSide(pos, cs)
  <2>1. 0 + 1 = 1
    OBVIOUS
  <2> QED
    BY <1>3, <1>4, <1>5, <1>6, <1>9, <1>10, <1>12, <1>13, <2>1 DEF SenderSide
<1>16. ReceiverSide(pos, cs)
  BY <1>4, <1>5, <1>6, <1>9, <1>12, <1>13, <1>14 DEF ReceiverSide
<1>17. Window(pos, cs, cs)
  <2>1. 0 + 1 = 1 /\ 0 <= 0 + Cap
    BY Sizes
  <2> QED
    BY <1>3, <1>6, <1>9, <1>14, <2>1 DEF Window
<1>18. Written(pos, cs, cs)
  <2>1. 0 .. 0 - 1 = {}
    OBVIOUS
  <2> QED
    BY <1>4, <1>9, <2>1 DEF Written, Buffer
<1>19. Holding(pos, cs)
  BY <1>3 DEF Holding, At, Idle
<1>20. Ring(pos, cs, cs)
  BY <1>15, <1>16, <1>17, <1>18, <1>19 DEF Ring
<1> QED
  BY <1>7, <1>8, <1>20 DEF RingInv

LEMMA RingStep ==
  ASSUME RingInv, [Next]_vars
  PROVE  RingInv'
<1>0. rpc \in [at : Places, frame : Nat, len : Nat] /\ next \in Nat
  BY DEF RingInv, Kinds
<1>1. ASSUME NEW len \in Lengths, Push(len)
      PROVE  RingInv'
  BY <1>1, PushKeeps
<1>2. ASSUME NEW len \in Lengths, GiveUp(len)
      PROVE  RingInv'
  <2>1. next' = next + 1 /\ UNCHANGED <<mem, pending, rpc, sent, received>>
    BY <1>2 DEF GiveUp
  <2>2. next' \in Nat
    BY <1>0, <2>1
  <2> QED
    BY <1>0, <2>1, <2>2, QuietStep
<1>3. CASE Wake
  <2>1. UNCHANGED <<mem, pending, next, sent, received>>
    BY <1>3 DEF Wake
  <2>2. CASE rpc.at = "asleep"
    <3>1. rpc' = [rpc EXCEPT !.at = "clear"]
      BY <1>3, <2>2 DEF Wake
    <3>2. rpc' \in [at : Places, frame : Nat, len : Nat] /\ ~At("payload") /\ ~At("payload")'
      BY <1>0, <2>2, <3>1 DEF At, Places
    <3> QED
      BY <1>0, <2>1, <3>2, QuietStep
  <2>3. CASE rpc.at # "asleep"
    <3>1. rpc' = rpc
      BY <1>3, <2>3 DEF Wake
    <3> QED
      BY <1>0, <2>1, <3>1, QuietStep
  <2> QED
    BY <2>2, <2>3
<1>4. ASSUME NEW n \in Bufs, Receive(n)
      PROVE  RingInv'
  <2>1. CASE PopHeader(n)
    BY <2>1, PopHeaderKeeps
  <2>2. CASE Refuse(n) \/ Park(n)
    BY <2>2, IdleKeeps
  <2> QED
    BY <1>4, <2>1, <2>2 DEF Receive
<1>5. CASE Recheck \/ Enter \/ Timeout \/ Clear
  BY <1>5, IdleKeeps
<1>6. ASSUME NEW p \in Procs, Flush(p)
      PROVE  RingInv'
  <2>1. p = "sender" \/ p = "receiver"
    BY DEF Procs
  <2> QED
    BY <1>6, <2>1, FlushSender, FlushReceiver
<1>7. CASE UNCHANGED vars
  <2>1. UNCHANGED <<mem, pending, next, rpc, sent, received>>
    BY <1>7 DEF vars
  <2> QED
    BY <1>0, <2>1, QuietStep
<1> QED
  BY <1>1, <1>2, <1>3, <1>4, <1>5, <1>6, <1>7, CheckWaiterKeeps, PopPayloadKeeps DEF Next, Send

LEMMA RingShows ==
  ASSUME RingInv
  PROVE  InOrderAndWhole
<1>1. PICK pos, hs, ts : Ring(pos, hs, ts)
  BY DEF RingInv
<1>2. Kinds /\ Got
  BY DEF RingInv
<1>3. ASSUME NEW i \in DOMAIN received
      PROVE  i <= Len(sent) /\ received[i] = Frame(sent[i])
  <2>1. i \in 1 .. Len(received) /\ Len(received) \in Nat /\ Len(sent) \in Nat
    BY <1>2, LenProperties DEF Kinds
  <2>2. Len(received) <= Len(sent)
    BY <1>2 DEF Got
  <2>3. i <= Len(sent)
    BY <2>1, <2>2
  <2> QED
    BY <1>2, <2>1, <2>3 DEF Got
<1>4. ASSUME NEW n \in Bufs, At("look")
      PROVE  Verdict(n) # "EBADMSG"
  BY <1>1, <1>2, <1>4, VerdictIs
<1> QED
  BY <1>3, <1>4 DEF InOrderAndWhole

(* Whatever the store buffers delay and wherever the cursors overflow, the *)
(* receiver gets the frames that were sent, whole, in order and once, and  *)
(* cosim_shm_recv_frame never takes the ring for corrupt: for every ring   *)
(* size, cursor range that is a multiple of it, and store buffer depth.    *)
THEOREM FramesInOrderAndWhole == Spec => []InOrderAndWhole
<1>1. Init => RingInv
  BY RingInit
<1>2. RingInv /\ [Next]_vars => RingInv'
  BY RingStep
<1>3. RingInv => InOrderAndWhole
  BY RingShows
<1> QED
  BY <1>1, <1>2, <1>3, PTL DEF Spec
=============================================================================

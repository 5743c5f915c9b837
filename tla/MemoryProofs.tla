---------------------------- MODULE MemoryProofs ----------------------------
(***************************************************************************)
(* Proofs about the machine, its memory and its frames, for the programs   *)
(* of FrameProofs: the collections that SLIDE, RET and RETHROW start take  *)
(* nothing the program still needs, no assignment writes over what a       *)
(* reference leads to, every array has the elements its dimensions say,    *)
(* every activation keeps the vector of its captured cells, and the frames *)
(* implement the calls of the module Calls.                                *)
(***************************************************************************)
EXTENDS FrameProofs, FiniteSetTheorems

-----------------------------------------------------------------------------
(***************************************************************************)
(* The arithmetic of arrays (module Arrays), for any number of dimensions. *)
(* What is defined there by recursive functions is unfolded here, and what *)
(* follows from it is shown for sets of numbers, by their least element.   *)
(***************************************************************************)

\* Induction over 0 .. n, for a set of numbers.
LEMMA UpTo ==
  ASSUME NEW n \in Nat, NEW S, 0 \in S, \A d \in 1 .. n : d - 1 \in S => d \in S
  PROVE  \A d \in 0 .. n : d \in S
<1> DEFINE T == {d \in Nat : d <= n /\ d \notin S}
<1> SUFFICES ASSUME T # {} PROVE FALSE
  OBVIOUS
<1>1. PICK d \in T : \A e \in T : ~(<<e, d>> \in OpToRel(<, Nat))
  BY WFMin, NatLessThanWellFounded
<1>0. d \in Nat /\ d <= n /\ d \notin S
  BY <1>1
<1>2. d \in 1 .. n /\ d - 1 \in Nat /\ d - 1 <= n /\ d - 1 < d
  <2>1. d # 0
    BY <1>0
  <2>2. QED
    BY <1>0, <2>1
<1>3. d - 1 \notin T
  BY <1>1, <1>2 DEF OpToRel
<1>4. QED
  BY <1>0, <1>2, <1>3

\* A recursion over 0 .. n whose steps are functions on numbers has a value.
Recursion(n, b, step, f) == f[0] = b /\ \A d \in 1 .. n : f[d] = step[d][f[d - 1]]

LEMMA RecursionExists ==
  ASSUME NEW n \in Nat, NEW b \in Int, NEW step \in [1 .. n -> [Int -> Int]]
  PROVE  \E f \in [0 .. n -> Int] : Recursion(n, b, step, f)
<1> DEFINE S == {k \in Nat : \E f \in [0 .. k -> Int] : Recursion(k, b, step, f)}
<1>1. 0 \in S
  <2> DEFINE g == [d \in 0 .. 0 |-> b]
  <2>1. g \in [0 .. 0 -> Int] /\ g[0] = b /\ \A d \in 1 .. 0 : FALSE
    OBVIOUS
  <2> HIDE DEF g
  <2>2. Recursion(0, b, step, g)
    BY <2>1 DEF Recursion
  <2>3. QED
    BY <2>1, <2>2
<1>2. ASSUME NEW k \in 1 .. n, k - 1 \in S PROVE k \in S
  <2>1. PICK f \in [0 .. k - 1 -> Int] : f[0] = b /\ \A d \in 1 .. k - 1 : f[d] = step[d][f[d - 1]]
    BY <1>2 DEF Recursion
  <2> DEFINE g == [d \in 0 .. k |-> IF d = k THEN step[k][f[k - 1]] ELSE f[d]]
  <2>2. f[k - 1] \in Int /\ step[k][f[k - 1]] \in Int
    OBVIOUS
  <2>3. \A d \in 0 .. k : d # k => d \in 0 .. k - 1
    OBVIOUS
  <2>4. g \in [0 .. k -> Int]
    BY <2>2, <2>3
  <2>5. g[0] = b
    BY <2>1
  <2>6. \A d \in 1 .. k : g[d] = step[d][g[d - 1]]
    <3>1. ASSUME NEW d \in 1 .. k PROVE g[d] = step[d][g[d - 1]]
      <4>1. d - 1 \in 0 .. k /\ d - 1 # k /\ d \in 0 .. k
        OBVIOUS
      <4>2. g[d - 1] = f[d - 1]
        BY <4>1
      <4>3. CASE d = k
        BY <4>1, <4>2, <4>3
      <4>4. CASE d # k
        BY <2>1, <4>1, <4>2, <4>4
      <4>5. QED
        BY <4>3, <4>4
    <3>2. QED
      BY <3>1
  <2> HIDE DEF g
  <2>7. Recursion(k, b, step, g)
    BY <2>5, <2>6 DEF Recursion
  <2>8. QED
    BY <2>4, <2>7
<1>3. n \in S
  <2> HIDE DEF S
  <2>1. \A d \in 0 .. n : d \in S
    BY <1>1, <1>2, UpTo
  <2>2. QED
    BY <2>1
<1>4. QED
  BY <1>3

\* What grows from each number to the next is greatest at the last.
LEMMA Growing ==
  ASSUME NEW n \in Nat, NEW f \in [0 .. n -> Int], \A d \in 1 .. n : f[d - 1] <= f[d]
  PROVE  \A d \in 0 .. n : f[d] <= f[n]
<1> DEFINE S == {k \in 0 .. n : f[n - k] <= f[n]}
<1>1. 0 \in S
  OBVIOUS
<1>2. ASSUME NEW k \in 1 .. n, k - 1 \in S PROVE k \in S
  <2>1. f[n - (k - 1)] <= f[n]
    BY <1>2
  <2>2. n - k + 1 \in 1 .. n /\ (n - k + 1) - 1 = n - k /\ n - (k - 1) = n - k + 1
    OBVIOUS
  <2>3. f[n - k] <= f[n - k + 1]
    BY <2>2
  <2>4. n - k \in 0 .. n /\ n - k + 1 \in 0 .. n
    OBVIOUS
  <2>5. f[n - k] <= f[n]
    BY <2>1, <2>2, <2>3, <2>4
  <2>6. QED
    BY <2>5
<1>3. \A k \in 0 .. n : k \in S
  <2> HIDE DEF S
  <2>1. QED
    BY <1>1, <1>2, UpTo
<1>4. ASSUME NEW d \in 0 .. n PROVE f[d] <= f[n]
  <2>1. n - d \in 0 .. n /\ n - (n - d) = d
    OBVIOUS
  <2>2. n - d \in S
    <3> HIDE DEF S
    <3>1. QED
      BY <1>3, <2>1
  <2>3. QED
    BY <2>1, <2>2
<1>5. QED
  BY <1>4

-----------------------------------------------------------------------------
\* What is multiplied for Size, ...
LEMMA SizeIs ==
  ASSUME NEW lens \in Seq(Nat)
  PROVE  /\ SizeUpTo(lens) \in [0 .. Len(lens) -> Nat]
         /\ SizeUpTo(lens)[0] = 1
         /\ \A d \in 1 .. Len(lens) : SizeUpTo(lens)[d] = SizeUpTo(lens)[d - 1] * lens[d]
<1>n. PICK n : n = Len(lens)
  OBVIOUS
<1>1. n \in Nat /\ \A d \in 1 .. n : lens[d] \in Nat
  BY <1>n
<1> DEFINE step == [d \in 1 .. n |-> [x \in Int |-> x * lens[d]]]
           Is(f) == f = [d \in 0 .. n |-> IF d = 0 THEN 1 ELSE f[d - 1] * lens[d]]
<1>2. step \in [1 .. n -> [Int -> Int]] /\ \A d \in 1 .. n, x \in Int : step[d][x] = x * lens[d]
  BY <1>1
<1>3. PICK f \in [0 .. n -> Int] : Recursion(n, 1, step, f)
  <2>1. n \in Nat /\ 1 \in Int /\ step \in [1 .. n -> [Int -> Int]]
    BY <1>1, <1>2
  <2> HIDE DEF step
  <2>2. QED
    BY <2>1, RecursionExists
<1>4. f[0] = 1 /\ \A d \in 1 .. n : f[d] = f[d - 1] * lens[d]
  <2>1. ASSUME NEW d \in 1 .. n PROVE f[d] = f[d - 1] * lens[d]
    <3>1. d - 1 \in 0 .. n /\ f[d - 1] \in Int
      BY <1>1
    <3>2. f[d] = step[d][f[d - 1]]
      BY <1>3 DEF Recursion
    <3> HIDE DEF step
    <3>3. QED
      BY <1>2, <3>1, <3>2
  <2>2. QED
    BY <1>3, <2>1 DEF Recursion
<1>5. Is(f)
  <2>1. \A d \in 0 .. n : d # 0 => d \in 1 .. n
    BY <1>1
  <2>2. QED
    BY <1>4, <2>1
<1>p. PICK p : p = SizeUpTo(lens)
  OBVIOUS
<1>6. Is(p)
  <2>1. p = CHOOSE g : Is(g)
    BY <1>n, <1>p DEF SizeUpTo
  <2> HIDE DEF Is
  <2>2. QED
    BY <1>5, <2>1
<1>7. p[0] = 1 /\ \A d \in 1 .. n : p[d] = p[d - 1] * lens[d]
  <2>1. \A d \in 0 .. n : p[d] = IF d = 0 THEN 1 ELSE p[d - 1] * lens[d]
    BY <1>6
  <2>2. 0 \in 0 .. n /\ \A d \in 1 .. n : d \in 0 .. n /\ d # 0
    BY <1>1
  <2>3. QED
    BY <2>1, <2>2
<1>8. p \in [0 .. n -> Nat]
  <2> DEFINE S == {d \in 0 .. n : p[d] \in Nat}
  <2>1. 0 \in S
    BY <1>1, <1>7
  <2>2. ASSUME NEW d \in 1 .. n, d - 1 \in S PROVE d \in S
    <3>1. p[d] = p[d - 1] * lens[d] /\ p[d - 1] \in Nat /\ lens[d] \in Nat /\ d \in 0 .. n
      BY <1>1, <1>7, <2>2
    <3>2. p[d] \in Nat
      BY <3>1
    <3>3. QED
      BY <3>1, <3>2
  <2>3. \A d \in 0 .. n : d \in S
    <3> HIDE DEF S
    <3>1. QED
      BY <1>1, <2>1, <2>2, UpTo
  <2>4. \A d \in 0 .. n : p[d] \in Nat
    BY <2>3
  <2>5. DOMAIN p = 0 .. n /\ p = [d \in DOMAIN p |-> p[d]]
    BY <1>6
  <2>6. QED
    BY <2>4, <2>5
<1>9. QED
  BY <1>n, <1>p, <1>7, <1>8

LEMMA SizeIsNat ==
  ASSUME NEW lens \in Seq(Nat)
  PROVE  Size(lens) \in Nat
<1>1. Len(lens) \in 0 .. Len(lens)
  OBVIOUS
<1>2. QED
  BY <1>1, SizeIs DEF Size

\* How many elements lie behind each dimension: the products from the back.
LEMMA BehindExists ==
  ASSUME NEW lens \in Seq(Nat)
  PROVE  \E s \in [0 .. Len(lens) -> Nat] :
            /\ s[Len(lens)] = 1 /\ s[0] = Size(lens)
            /\ \A d \in 1 .. Len(lens) : s[d - 1] = lens[d] * s[d]
<1>n. PICK n : n = Len(lens)
  OBVIOUS
<1>1. n \in Nat /\ \A d \in 1 .. n : lens[d] \in Nat
  BY <1>n
<1>2. ASSUME NEW k \in 1 .. n
      PROVE  n - k + 1 \in 1 .. n
  BY <1>1
<1> DEFINE back == [k \in 1 .. n |-> lens[n - k + 1]]
<1>3. back \in [1 .. n -> Nat]
  BY <1>1, <1>2
<1>4. back \in Seq(Nat) /\ Len(back) = n
  BY <1>1, <1>3
<1>5. \A k \in 1 .. n : back[k] = lens[n - k + 1]
  OBVIOUS
<1> HIDE DEF back
<1>f. PICK f : f = SizeUpTo(back)
  OBVIOUS
<1>6. f \in [0 .. n -> Nat] /\ f[0] = 1 /\ \A k \in 1 .. n : f[k] = f[k - 1] * back[k]
  BY <1>4, <1>f, SizeIs
<1>p. PICK p : p = SizeUpTo(lens)
  OBVIOUS
<1>7. p \in [0 .. n -> Nat] /\ p[0] = 1 /\ (\A d \in 1 .. n : p[d] = p[d - 1] * lens[d]) /\ Size(lens) = p[n]
  BY <1>n, <1>p, SizeIs DEF Size
<1> DEFINE s == [d \in 0 .. n |-> f[n - d]]
<1>8. \A d \in 0 .. n : n - d \in 0 .. n
  BY <1>1
<1>9. s \in [0 .. n -> Nat] /\ \A d \in 0 .. n : s[d] = f[n - d]
  BY <1>6, <1>8
<1> HIDE DEF s
<1>10. s[n] = 1
  BY <1>1, <1>6, <1>9
<1>11. ASSUME NEW d \in 1 .. n PROVE s[d - 1] = lens[d] * s[d]
  <2>1. /\ n - d + 1 \in 1 .. n /\ d - 1 \in 0 .. n /\ d \in 0 .. n
        /\ n - (d - 1) = n - d + 1 /\ (n - d + 1) - 1 = n - d /\ n - (n - d + 1) + 1 = d
    BY <1>1
  <2>2. s[d - 1] = f[n - d + 1] /\ s[d] = f[n - d]
    BY <1>9, <2>1
  <2>3. f[n - d + 1] = f[n - d] * back[n - d + 1]
    BY <1>6, <2>1
  <2>4. back[n - d + 1] = lens[d]
    BY <1>5, <2>1
  <2>5. s[d] \in Nat /\ lens[d] \in Nat
    BY <1>1, <1>9, <2>1
  <2>6. s[d - 1] = s[d] * lens[d]
    BY <2>2, <2>3, <2>4
  <2>7. QED
    BY <2>5, <2>6
\* The products from the front and from the back make up the whole at each place.
<1>12. \A d \in 0 .. n : p[d] * s[d] = s[0]
  <2> DEFINE S == {d \in 0 .. n : p[d] * s[d] = s[0]}
  <2>1. 0 \in S
    <3>1. s[0] \in Nat /\ 0 \in 0 .. n
      BY <1>1, <1>9
    <3>2. QED
      BY <1>7, <3>1
  <2>2. ASSUME NEW d \in 1 .. n, d - 1 \in S PROVE d \in S
    <3>1. d \in 0 .. n /\ d - 1 \in 0 .. n
      BY <1>1
    <3>2. p[d] \in Nat /\ p[d - 1] \in Nat /\ s[d] \in Nat /\ lens[d] \in Nat
      BY <1>1, <1>7, <1>9, <3>1
    <3>3. p[d] * s[d] = (p[d - 1] * lens[d]) * s[d]
      BY <1>7
    <3>4. (p[d - 1] * lens[d]) * s[d] = p[d - 1] * (lens[d] * s[d])
      BY <3>2
    <3>5. p[d - 1] * s[d - 1] = s[0]
      BY <2>2
    <3>6. p[d] * s[d] = s[0]
      BY <1>11, <3>3, <3>4, <3>5
    <3>7. QED
      BY <3>1, <3>6
  <2>3. QED
    <3>1. \A d \in 0 .. n : d \in S
      <4> HIDE DEF S
      <4>1. QED
        BY <1>1, <2>1, <2>2, UpTo
    <3>2. QED
      BY <3>1
<1>13. s[0] = p[n]
  <2>1. n \in 0 .. n /\ p[n] \in Nat
    BY <1>1, <1>7
  <2>2. p[n] * s[n] = s[0]
    BY <1>12, <2>1
  <2>3. QED
    BY <1>10, <2>1, <2>2
<1>14. QED
  BY <1>n, <1>7, <1>9, <1>10, <1>11, <1>13

\* Dividing undoes multiplying.
LEMMA Divides ==
  ASSUME NEW l \in Nat \ {0}, NEW s \in Nat
  PROVE  (l * s) \div l = s
OBVIOUS

\* An index inside a dimension leaves room for what lies behind it.
LEMMA RoomFor ==
  ASSUME NEW l \in Nat, NEW s \in Nat, NEW i \in Nat, i + 1 <= l
  PROVE  s * i + s <= l * s
<1>1. (i + 1) * s <= l * s
  <2>1. (l - (i + 1)) * s >= 0
    <3>1. l - (i + 1) \in Nat
      OBVIOUS
    <3>2. QED
      BY <3>1
  <2>2. (l - (i + 1)) * s = l * s - (i + 1) * s
    OBVIOUS
  <2>3. QED
    BY <2>1, <2>2
<1>2. (i + 1) * s = s * i + s
  OBVIOUS
<1>3. QED
  BY <1>1, <1>2

\* When no dimension is empty, an element of one is as many elements apart from
\* the next as lie behind it.
LEMMA MultIs ==
  ASSUME NEW lens \in Seq(Nat), \A d \in 1 .. Len(lens) : lens[d] # 0,
         NEW s \in [0 .. Len(lens) -> Nat], s[0] = Size(lens), \A d \in 1 .. Len(lens) : s[d - 1] = lens[d] * s[d]
  PROVE  \A d \in 1 .. Len(lens) : MultOf(lens, d) = s[d]
<1>n. PICK n : n = Len(lens)
  OBVIOUS
<1>1. n \in Nat /\ \A d \in 1 .. n : lens[d] \in Nat \ {0}
  BY <1>n
<1> DEFINE Is(f) == f = [d \in 0 .. n |-> IF d = 0 THEN Size(lens) ELSE DividedBy(f[d - 1], lens[d])]
<1>2. ASSUME NEW d \in 1 .. n PROVE DividedBy(s[d - 1], lens[d]) = s[d]
  <2>1. d \in 0 .. n /\ d \in 1 .. Len(lens)
    BY <1>n, <1>1
  <2>2. s[d] \in Nat /\ lens[d] \in Nat \ {0}
    BY <1>n, <1>1, <2>1
  <2>3. s[d - 1] = lens[d] * s[d]
    BY <2>1
  <2>4. QED
    BY <2>2, <2>3, Divides DEF DividedBy
<1>3. Is(s)
  <2>1. \A d \in 0 .. n : d # 0 => d \in 1 .. n
    BY <1>1
  <2>2. QED
    BY <1>n, <1>2, <2>1
<1>r. PICK r : r = MultUpTo(lens)
  OBVIOUS
<1>4. Is(r)
  <2>1. r = CHOOSE g : Is(g)
    BY <1>n, <1>r DEF MultUpTo
  <2> HIDE DEF Is
  <2>2. QED
    BY <1>3, <2>1
<1>5. \A d \in 0 .. n : r[d] = s[d]
  <2> DEFINE S == {d \in 0 .. n : r[d] = s[d]}
  <2>1. 0 \in S
    BY <1>1, <1>4
  <2>2. ASSUME NEW d \in 1 .. n, d - 1 \in S PROVE d \in S
    <3>1. d \in 0 .. n /\ d # 0 /\ r[d - 1] = s[d - 1]
      BY <1>1, <2>2
    <3>2. r[d] = DividedBy(s[d - 1], lens[d])
      BY <1>4, <3>1
    <3>3. QED
      BY <1>2, <3>1, <3>2
  <2>3. QED
    <3>1. \A d \in 0 .. n : d \in S
      <4> HIDE DEF S
      <4>1. QED
        BY <1>1, <2>1, <2>2, UpTo
    <3>2. QED
      BY <3>1
<1>6. QED
  BY <1>n, <1>r, <1>1, <1>5 DEF MultOf

\* The address of an element, dimension by dimension.
LEMMA AddrIs ==
  ASSUME NEW dv, Len(dv) \in Nat, NEW index, \A d \in 1 .. Len(dv) : dv[d].mult * index[d] \in Nat
  PROVE  /\ AddrUpTo(dv, index) \in [0 .. Len(dv) -> Nat]
         /\ AddrUpTo(dv, index)[0] = 0
         /\ \A d \in 1 .. Len(dv) : AddrUpTo(dv, index)[d] = AddrUpTo(dv, index)[d - 1] + dv[d].mult * index[d]
<1>n. PICK n : n = Len(dv)
  OBVIOUS
<1>m. PICK by : by = [d \in 1 .. n |-> dv[d].mult * index[d]]
  OBVIOUS
<1>1. n \in Nat /\ \A d \in 1 .. n : by[d] \in Nat /\ by[d] = dv[d].mult * index[d]
  BY <1>n, <1>m
<1> DEFINE step == [d \in 1 .. n |-> [x \in Int |-> x + by[d]]]
           Is(f) == f = [d \in 0 .. n |-> IF d = 0 THEN 0 ELSE f[d - 1] + dv[d].mult * index[d]]
<1>2. step \in [1 .. n -> [Int -> Int]] /\ \A d \in 1 .. n, x \in Int : step[d][x] = x + by[d]
  BY <1>1
<1>3. PICK f \in [0 .. n -> Int] : Recursion(n, 0, step, f)
  <2>1. n \in Nat /\ 0 \in Int /\ step \in [1 .. n -> [Int -> Int]]
    BY <1>1, <1>2
  <2> HIDE DEF step
  <2>2. QED
    BY <2>1, RecursionExists
<1>4. f[0] = 0 /\ \A d \in 1 .. n : f[d] = f[d - 1] + by[d]
  <2>1. ASSUME NEW d \in 1 .. n PROVE f[d] = f[d - 1] + by[d]
    <3>1. d - 1 \in 0 .. n /\ f[d - 1] \in Int
      BY <1>1
    <3>2. f[d] = step[d][f[d - 1]]
      BY <1>3 DEF Recursion
    <3> HIDE DEF step
    <3>3. QED
      BY <1>2, <3>1, <3>2
  <2>2. QED
    BY <1>3, <2>1 DEF Recursion
<1>5. Is(f)
  <2>1. \A d \in 0 .. n : d # 0 => d \in 1 .. n
    BY <1>1
  <2>2. \A d \in 0 .. n : d # 0 => f[d] = f[d - 1] + dv[d].mult * index[d]
    BY <1>1, <1>4, <2>1
  <2>3. QED
    BY <1>4, <2>2
<1>a. PICK a : a = AddrUpTo(dv, index)
  OBVIOUS
<1>6. Is(a)
  <2>1. a = CHOOSE g : Is(g)
    BY <1>n, <1>a DEF AddrUpTo
  <2> HIDE DEF Is
  <2>2. QED
    BY <1>5, <2>1
<1>7. a[0] = 0 /\ \A d \in 1 .. n : a[d] = a[d - 1] + by[d]
  <2>1. \A d \in 0 .. n : a[d] = IF d = 0 THEN 0 ELSE a[d - 1] + dv[d].mult * index[d]
    BY <1>6
  <2>2. 0 \in 0 .. n /\ \A d \in 1 .. n : d \in 0 .. n /\ d # 0
    BY <1>1
  <2>3. QED
    BY <1>1, <2>1, <2>2
<1>8. \A d \in 0 .. n : a[d] \in Nat
  <2> DEFINE S == {d \in 0 .. n : a[d] \in Nat}
  <2>1. 0 \in S
    BY <1>1, <1>7
  <2>2. ASSUME NEW d \in 1 .. n, d - 1 \in S PROVE d \in S
    <3>1. a[d] = a[d - 1] + by[d] /\ a[d - 1] \in Nat /\ by[d] \in Nat /\ d \in 0 .. n
      BY <1>1, <1>7, <2>2
    <3>2. a[d] \in Nat
      BY <3>1
    <3>3. QED
      BY <3>1, <3>2
  <2>3. QED
    <3>1. \A d \in 0 .. n : d \in S
      <4> HIDE DEF S
      <4>1. QED
        BY <1>1, <2>1, <2>2, UpTo
    <3>2. QED
      BY <3>1
<1>9. a \in [0 .. n -> Nat]
  <2>1. DOMAIN a = 0 .. n /\ a = [d \in DOMAIN a |-> a[d]]
    BY <1>6
  <2>2. QED
    BY <1>8, <2>1
<1>10. \A d \in 1 .. n : a[d] = a[d - 1] + dv[d].mult * index[d]
  BY <1>1, <1>7
<1>11. QED
  BY <1>n, <1>a, <1>7, <1>9, <1>10

\* Where an index inside leads to, dimension by dimension: what lies behind each
\* has room, and the rest of the way stays within it.
LEMMA Inside ==
  ASSUME NEW lens \in Seq(Nat), NEW index, \A d \in 1 .. Len(lens) : index[d] \in Nat /\ index[d] < lens[d]
  PROVE  \E s \in [0 .. Len(lens) -> Nat \ {0}], a \in [0 .. Len(lens) -> Nat] :
            /\ s[Len(lens)] = 1 /\ s[0] = Size(lens)
            /\ a = AddrUpTo(DimVec(lens), index) /\ a[0] = 0
            /\ \A d \in 1 .. Len(lens) : s[d - 1] = lens[d] * s[d] /\ a[d] = a[d - 1] + s[d] * index[d]
            /\ \A d \in 0 .. Len(lens) : a[Len(lens)] - a[d] \in 0 .. s[d] - 1
<1>n. PICK n : n = Len(lens)
  OBVIOUS
<1>1. n \in Nat /\ \A d \in 1 .. n : lens[d] \in Nat /\ lens[d] # 0 /\ index[d] \in Nat /\ index[d] < lens[d]
  BY <1>n
<1>2. PICK s \in [0 .. n -> Nat] : s[n] = 1 /\ s[0] = Size(lens) /\ \A d \in 1 .. n : s[d - 1] = lens[d] * s[d]
  BY <1>n, BehindExists
<1>3. \A d \in 1 .. n : MultOf(lens, d) = s[d]
  BY <1>n, <1>1, <1>2, MultIs
<1>v. PICK dv : dv = DimVec(lens)
  OBVIOUS
<1>4. Len(dv) = n /\ \A d \in 1 .. n : dv[d].elems = lens[d] /\ dv[d].mult = s[d]
  BY <1>n, <1>v, <1>3 DEF DimVec
<1>5. ASSUME NEW d \in 1 .. n
      PROVE  /\ d \in 0 .. n /\ d - 1 \in 0 .. n /\ s[d] \in Nat /\ s[d - 1] \in Nat /\ s[d] * index[d] \in Nat
             /\ s[d] * index[d] + s[d] <= s[d - 1]
  <2>1. d \in 0 .. n /\ d - 1 \in 0 .. n
    BY <1>1
  <2>2. s[d] \in Nat /\ s[d - 1] \in Nat /\ index[d] \in Nat /\ lens[d] \in Nat /\ index[d] + 1 <= lens[d]
    BY <1>1, <2>1
  <2>3. s[d] * index[d] \in Nat
    BY <2>2
  <2>4. s[d] * index[d] + s[d] <= lens[d] * s[d]
    BY <2>2, RoomFor
  <2>5. QED
    BY <1>2, <2>1, <2>2, <2>3, <2>4
<1>a. PICK a : a = AddrUpTo(dv, index)
  OBVIOUS
<1>6. a \in [0 .. n -> Nat] /\ a[0] = 0 /\ \A d \in 1 .. n : a[d] = a[d - 1] + s[d] * index[d]
  <2>1. Len(dv) \in Nat /\ \A d \in 1 .. Len(dv) : dv[d].mult * index[d] \in Nat
    BY <1>1, <1>4, <1>5
  <2>2. /\ a \in [0 .. Len(dv) -> Nat] /\ a[0] = 0
        /\ \A d \in 1 .. Len(dv) : a[d] = a[d - 1] + dv[d].mult * index[d]
    BY <1>a, <2>1, AddrIs
  <2>3. QED
    BY <1>4, <2>2
\* a grows, and a + s does not.
<1>7. \A d \in 0 .. n : a[d] <= a[n]
  <2>1. a \in [0 .. n -> Int] /\ \A d \in 1 .. n : a[d - 1] <= a[d]
    <3>1. ASSUME NEW d \in 1 .. n PROVE a[d - 1] <= a[d]
      <4>1. a[d - 1] \in Nat /\ s[d] * index[d] \in Nat /\ a[d] = a[d - 1] + s[d] * index[d]
        BY <1>5, <1>6
      <4>2. QED
        BY <4>1
    <3>2. QED
      BY <1>6, <3>1
  <2>2. QED
    BY <1>1, <2>1, Growing
<1>8. \A d \in 0 .. n : a[n] + s[n] <= a[d] + s[d]
  <2> DEFINE g == [d \in 0 .. n |-> -(a[d] + s[d])]
  <2>1. \A d \in 0 .. n : a[d] \in Nat /\ s[d] \in Nat
    BY <1>2, <1>6
  <2>2. g \in [0 .. n -> Int] /\ \A d \in 0 .. n : g[d] = -(a[d] + s[d])
    BY <2>1
  <2>3. ASSUME NEW d \in 1 .. n PROVE g[d - 1] <= g[d]
    <3>1. a[d] = a[d - 1] + s[d] * index[d] /\ s[d] * index[d] + s[d] <= s[d - 1] /\ d \in 0 .. n /\ d - 1 \in 0 .. n
          /\ s[d] * index[d] \in Nat
      BY <1>5, <1>6
    <3>2. a[d - 1] \in Nat /\ s[d - 1] \in Nat /\ s[d] \in Nat
      BY <2>1, <3>1
    <3>3. a[d] + s[d] <= a[d - 1] + s[d - 1]
      BY <3>1, <3>2
    <3> HIDE DEF g
    <3>4. QED
      BY <2>1, <2>2, <3>1, <3>3
  <2> HIDE DEF g
  <2>4. \A d \in 0 .. n : g[d] <= g[n]
    BY <1>1, <2>2, <2>3, Growing
  <2>5. n \in 0 .. n
    BY <1>1
  <2>6. QED
    BY <2>1, <2>2, <2>4, <2>5
<1>9. \A d \in 0 .. n : a[n] - a[d] \in 0 .. s[d] - 1
  <2>1. ASSUME NEW d \in 0 .. n PROVE a[n] - a[d] \in 0 .. s[d] - 1
    <3>1. n \in 0 .. n /\ a[n] \in Nat /\ a[d] \in Nat /\ s[d] \in Nat /\ s[n] = 1
      BY <1>1, <1>2, <1>6
    <3>2. a[d] <= a[n] /\ a[n] + s[n] <= a[d] + s[d]
      BY <1>7, <1>8
    <3>3. QED
      BY <3>1, <3>2
  <2>2. QED
    BY <2>1
<1>10. s \in [0 .. n -> Nat \ {0}]
  <2>1. ASSUME NEW d \in 0 .. n PROVE s[d] # 0
    <3>1. a[n] - a[d] \in 0 .. s[d] - 1 /\ s[d] \in Nat
      BY <1>2, <1>9
    <3>2. QED
      BY <3>1
  <2>2. QED
    BY <1>2, <2>1
<1>11. QED
  BY <1>n, <1>v, <1>a, <1>2, <1>6, <1>9, <1>10

\* A number of whole strides and a rest below one stride is that in one way only.
LEMMA OneWay ==
  ASSUME NEW s \in Nat \ {0}, NEW i \in Nat, NEW j \in Nat, NEW t \in 0 .. s - 1, NEW u \in 0 .. s - 1,
         s * i + t = s * j + u
  PROVE  i = j
<1>1. ASSUME NEW x \in Nat, NEW y \in Nat, NEW v \in 0 .. s - 1, NEW w \in 0 .. s - 1, s * x + v = s * y + w
      PROVE  ~(x < y)
  <2> SUFFICES ASSUME x < y PROVE FALSE
    OBVIOUS
  <2>1. s * x + s <= y * s
    BY RoomFor
  <2>2. y * s = s * y /\ s * x \in Nat /\ s * y \in Nat
    OBVIOUS
  <2>3. QED
    BY <1>1, <2>1, <2>2
<1>2. ~(i < j) /\ ~(j < i)
  BY <1>1
<1>3. QED
  BY <1>2

(***************************************************************************)
(* The arithmetic of arrays (Arrays!AddrOf, object_arr_dim_addr): an index *)
(* inside the dimensions leads to an element of the array, whatever and    *)
(* however many these are.                                                 *)
(***************************************************************************)
THEOREM AddressInside ==
  ASSUME NEW lens \in Seq(Nat), NEW index, \A d \in 1 .. Len(lens) : index[d] \in Nat,
         InBounds(DimVec(lens), index)
  PROVE  AddrOf(DimVec(lens), index) \in 0 .. Size(lens) - 1
<1>1. DOMAIN DimVec(lens) = 1 .. Len(lens) /\ Len(DimVec(lens)) = Len(lens)
      /\ \A d \in 1 .. Len(lens) : DimVec(lens)[d].elems = lens[d]
  BY DEF DimVec
<1>2. \A d \in 1 .. Len(lens) : index[d] \in Nat /\ index[d] < lens[d]
  BY <1>1 DEF InBounds
<1>3. PICK s \in [0 .. Len(lens) -> Nat \ {0}], a \in [0 .. Len(lens) -> Nat] :
        /\ s[0] = Size(lens) /\ a[0] = 0 /\ a = AddrUpTo(DimVec(lens), index)
        /\ \A d \in 0 .. Len(lens) : a[Len(lens)] - a[d] \in 0 .. s[d] - 1
  BY <1>2, Inside, ZenonT(60)
<1>4. 0 \in 0 .. Len(lens) /\ Len(lens) \in 0 .. Len(lens)
  OBVIOUS
<1>5. a[Len(lens)] - 0 \in 0 .. Size(lens) - 1 /\ a[Len(lens)] \in Nat
  BY <1>3, <1>4
<1>6. QED
  BY <1>1, <1>3, <1>5 DEF AddrOf

(***************************************************************************)
(* And different indices lead to different elements: no element of an      *)
(* array is written under two names.                                       *)
(***************************************************************************)
THEOREM AddressesDiffer ==
  ASSUME NEW lens \in Seq(Nat), NEW i, NEW j, \A d \in 1 .. Len(lens) : i[d] \in Nat /\ j[d] \in Nat,
         InBounds(DimVec(lens), i), InBounds(DimVec(lens), j),
         AddrOf(DimVec(lens), i) = AddrOf(DimVec(lens), j)
  PROVE  \A d \in 1 .. Len(lens) : i[d] = j[d]
<1>n. PICK n : n = Len(lens)
  OBVIOUS
<1>1. DOMAIN DimVec(lens) = 1 .. n /\ Len(DimVec(lens)) = n /\ n \in Nat
      /\ \A d \in 1 .. n : DimVec(lens)[d].elems = lens[d]
  BY <1>n DEF DimVec
<1>2. /\ \A d \in 1 .. Len(lens) : i[d] \in Nat /\ i[d] < lens[d]
      /\ \A d \in 1 .. Len(lens) : j[d] \in Nat /\ j[d] < lens[d]
  BY <1>n, <1>1 DEF InBounds
<1>3. PICK s \in [0 .. Len(lens) -> Nat \ {0}], a \in [0 .. Len(lens) -> Nat] :
        /\ s[Len(lens)] = 1 /\ s[0] = Size(lens) /\ a[0] = 0 /\ a = AddrUpTo(DimVec(lens), i)
        /\ \A d \in 1 .. Len(lens) : s[d - 1] = lens[d] * s[d] /\ a[d] = a[d - 1] + s[d] * i[d]
        /\ \A d \in 0 .. Len(lens) : a[Len(lens)] - a[d] \in 0 .. s[d] - 1
  BY <1>2, Inside, ZenonT(60)
<1>3n. /\ s \in [0 .. n -> Nat \ {0}] /\ a \in [0 .. n -> Nat]
       /\ s[n] = 1 /\ s[0] = Size(lens) /\ a[0] = 0 /\ a = AddrUpTo(DimVec(lens), i)
       /\ \A d \in 1 .. n : s[d - 1] = lens[d] * s[d] /\ a[d] = a[d - 1] + s[d] * i[d]
       /\ \A d \in 0 .. n : a[n] - a[d] \in 0 .. s[d] - 1
  BY <1>n, <1>3
<1>4. PICK t \in [0 .. Len(lens) -> Nat \ {0}], b \in [0 .. Len(lens) -> Nat] :
        /\ t[Len(lens)] = 1 /\ t[0] = Size(lens) /\ b[0] = 0 /\ b = AddrUpTo(DimVec(lens), j)
        /\ \A d \in 1 .. Len(lens) : t[d - 1] = lens[d] * t[d] /\ b[d] = b[d - 1] + t[d] * j[d]
        /\ \A d \in 0 .. Len(lens) : b[Len(lens)] - b[d] \in 0 .. t[d] - 1
  BY <1>2, Inside, ZenonT(60)
<1>4n. /\ t \in [0 .. n -> Nat \ {0}] /\ b \in [0 .. n -> Nat]
       /\ t[n] = 1 /\ t[0] = Size(lens) /\ b[0] = 0 /\ b = AddrUpTo(DimVec(lens), j)
       /\ \A d \in 1 .. n : t[d - 1] = lens[d] * t[d] /\ b[d] = b[d - 1] + t[d] * j[d]
       /\ \A d \in 0 .. n : b[n] - b[d] \in 0 .. t[d] - 1
  BY <1>n, <1>4
<1>5. a[n] = b[n]
  BY <1>1, <1>3n, <1>4n DEF AddrOf
<1>6. ASSUME NEW d \in 1 .. n
      PROVE  d \in 0 .. n /\ d - 1 \in 0 .. n /\ i[d] \in Nat /\ j[d] \in Nat /\ lens[d] \in Nat \ {0}
  <2>1. d \in 0 .. n /\ d - 1 \in 0 .. n
    BY <1>1
  <2>2. d \in 1 .. Len(lens)
    BY <1>n
  <2>3. i[d] \in Nat /\ i[d] < lens[d] /\ j[d] \in Nat
    BY <1>2, <2>2
  <2>4. lens[d] \in Nat
    BY <2>2
  <2>5. QED
    BY <2>1, <2>3, <2>4
<1> DEFINE S == {d \in 0 .. n : s[d] = t[d] /\ a[d] = b[d] /\ \A e \in 1 .. d : i[e] = j[e]}
<1>7. 0 \in S
  BY <1>1, <1>3n, <1>4n
<1>8. ASSUME NEW d \in 1 .. n, d - 1 \in S PROVE d \in S
  <2>1. s[d - 1] = t[d - 1] /\ a[d - 1] = b[d - 1] /\ \A e \in 1 .. d - 1 : i[e] = j[e]
    BY <1>8
  <2>2. /\ s[d] \in Nat \ {0} /\ t[d] \in Nat \ {0} /\ a[d] \in Nat /\ b[d] \in Nat /\ a[n] \in Nat
        /\ a[d - 1] \in Nat /\ lens[d] \in Nat \ {0} /\ i[d] \in Nat /\ j[d] \in Nat /\ d \in 0 .. n
    <3>1. d \in 0 .. n /\ d - 1 \in 0 .. n /\ n \in 0 .. n
      BY <1>1, <1>6
    <3>2. s[d] \in Nat \ {0} /\ a[d] \in Nat /\ a[n] \in Nat /\ a[d - 1] \in Nat
      BY <1>3n, <3>1
    <3>3. t[d] \in Nat \ {0} /\ b[d] \in Nat
      BY <1>4n, <3>1
    <3>4. QED
      BY <1>6, <3>1, <3>2, <3>3
  <2>3. s[d] = t[d]
    <3>1. lens[d] * s[d] = lens[d] * t[d]
      BY <1>3n, <1>4n, <2>1
    <3>2. (lens[d] * s[d]) \div lens[d] = s[d] /\ (lens[d] * t[d]) \div lens[d] = t[d]
      BY <2>2, Divides
    <3>3. QED
      BY <3>1, <3>2
  <2>4. PICK x, y : x = a[n] - a[d] /\ y = b[n] - b[d]
    OBVIOUS
  <2>5. x \in 0 .. s[d] - 1 /\ y \in 0 .. s[d] - 1
    BY <1>3n, <1>4n, <2>2, <2>3, <2>4
  <2>6. s[d] * i[d] \in Nat /\ s[d] * j[d] \in Nat
    <3>1. \A u, v \in Nat : u * v \in Nat
      OBVIOUS
    <3>2. QED
      BY <2>2, <3>1
  <2>7. a[d] = a[d - 1] + s[d] * i[d] /\ b[d] = a[d - 1] + s[d] * j[d]
    BY <1>3n, <1>4n, <2>1, <2>3
  <2>8. s[d] * i[d] + x = s[d] * j[d] + y
    <3>1. PICK p, q, v, w : p = s[d] * i[d] /\ q = s[d] * j[d] /\ v = a[d - 1] /\ w = a[n]
      OBVIOUS
    <3>2. p \in Nat /\ q \in Nat /\ v \in Nat /\ w \in Nat
      BY <2>2, <2>6, <3>1
    <3>3. x = w - (v + p) /\ y = w - (v + q)
      BY <1>5, <2>4, <2>7, <3>1
    <3>4. p + x = q + y
      BY <3>2, <3>3
    <3>5. QED
      BY <3>1, <3>4
  <2>9. i[d] = j[d]
    BY <2>2, <2>5, <2>8, OneWay
  <2>10. a[d] = b[d]
    BY <2>7, <2>9
  <2>11. \A e \in 1 .. d : i[e] = j[e]
    BY <2>1, <2>9
  <2>12. QED
    BY <2>2, <2>3, <2>10, <2>11
<1>9. \A d \in 0 .. n : d \in S
  <2> HIDE DEF S
  <2>1. QED
    BY <1>1, <1>7, <1>8, UpTo
<1>10. n \in S
  BY <1>1, <1>9
<1>11. QED
  BY <1>n, <1>10

\* Dividing with a rest.
LEMMA Rest ==
  ASSUME NEW s \in Nat \ {0}, NEW x \in Int
  PROVE  x % s \in 0 .. s - 1 /\ x = s * (x \div s) + (x % s) /\ x \div s \in Int
<1>1. x \div s \in Int
  OBVIOUS
<1>2. x % s \in 0 .. s - 1
  OBVIOUS
<1>3. x = s * (x \div s) + (x % s)
  OBVIOUS
<1>4. QED
  BY <1>1, <1>2, <1>3

LEMMA RestBelow ==
  ASSUME NEW s \in Nat \ {0}, NEW l \in Nat, NEW x \in 0 .. l * s - 1
  PROVE  x \div s \in Nat /\ x \div s < l
<1>0. l * s \in Nat
  OBVIOUS
<1>1. x \in Nat /\ x < l * s
  BY <1>0
<1>q. PICK q, r : q = x \div s /\ r = x % s
  OBVIOUS
<1>2. q \in Int /\ r \in 0 .. s - 1 /\ x = s * q + r
  BY <1>q, <1>1, Rest
<1>3. q \in Nat
  <2> SUFFICES ASSUME q < 0 PROVE FALSE
    BY <1>2
  <2>1. PICK m \in Nat : q + 1 = -m
    <3>1. -(q + 1) \in Nat /\ q + 1 = -(-(q + 1))
      BY <1>2
    <3>2. QED
      BY <3>1
  <2>2. s * q = -(s * m) - s
    <3>1. q = -m - 1
      BY <1>2, <2>1
    <3>2. QED
      BY <3>1
  <2>3. s * m \in Nat
    OBVIOUS
  <2>4. QED
    BY <1>1, <1>2, <2>2, <2>3
<1>4. q < l
  <2> SUFFICES ASSUME l <= q PROVE FALSE
    BY <1>3
  <2>1. PICK m \in Nat : q = l + m
    <3>1. q - l \in Nat /\ q = l + (q - l)
      BY <1>3
    <3>2. QED
      BY <3>1
  <2>2. s * q = l * s + s * m
    BY <2>1
  <2>3. s * m \in Nat
    OBVIOUS
  <2>4. QED
    BY <1>0, <1>1, <1>2, <2>2, <2>3
<1>5. QED
  BY <1>q, <1>3, <1>4

(***************************************************************************)
(* And there is no element that no index leads to.                         *)
(***************************************************************************)
THEOREM AddressesCover ==
  ASSUME NEW lens \in Seq(Nat), NEW e \in 0 .. Size(lens) - 1
  PROVE  \E index \in [1 .. Len(lens) -> Nat] :
           InBounds(DimVec(lens), index) /\ AddrOf(DimVec(lens), index) = e
<1>n. PICK n : n = Len(lens)
  OBVIOUS
<1>1. n \in Nat /\ \A d \in 1 .. n : lens[d] \in Nat
  BY <1>n
<1>2. PICK s \in [0 .. n -> Nat] : s[n] = 1 /\ s[0] = Size(lens) /\ \A d \in 1 .. n : s[d - 1] = lens[d] * s[d]
  BY <1>n, BehindExists
<1>3. \A d \in 0 .. n : s[d] # 0
  <2> DEFINE S == {d \in 0 .. n : s[d] # 0}
  <2>1. 0 \in S
    BY <1>1, <1>2
  <2>2. ASSUME NEW d \in 1 .. n, d - 1 \in S PROVE d \in S
    <3>1. d \in 0 .. n /\ s[d - 1] # 0 /\ lens[d] \in Nat
      BY <1>1, <2>2
    <3>2. s[d - 1] = lens[d] * s[d]
      BY <1>2
    <3>3. s[d] # 0
      BY <3>1, <3>2
    <3>4. QED
      BY <3>1, <3>3
  <2>3. QED
    <3>1. \A d \in 0 .. n : d \in S
      <4> HIDE DEF S
      <4>1. QED
        BY <1>1, <2>1, <2>2, UpTo
    <3>2. QED
      BY <3>1
<1>4. \A d \in 1 .. n : d \in 0 .. n /\ d - 1 \in 0 .. n /\ s[d] \in Nat \ {0} /\ s[d - 1] \in Nat \ {0} /\ lens[d] # 0
  <2>1. ASSUME NEW d \in 1 .. n
        PROVE  d \in 0 .. n /\ d - 1 \in 0 .. n /\ s[d] \in Nat \ {0} /\ s[d - 1] \in Nat \ {0} /\ lens[d] # 0
    <3>1. d \in 0 .. n /\ d - 1 \in 0 .. n
      BY <1>1
    <3>2. s[d] \in Nat \ {0} /\ s[d - 1] \in Nat \ {0}
      BY <1>2, <1>3, <3>1
    <3>3. s[d - 1] = lens[d] * s[d]
      BY <1>2
    <3>4. lens[d] # 0
      BY <3>2, <3>3
    <3>5. QED
      BY <3>1, <3>2, <3>4
  <2>2. QED
    BY <2>1
<1>5. \A d \in 1 .. n : MultOf(lens, d) = s[d]
  BY <1>n, <1>2, <1>4, MultIs
<1> DEFINE step == [d \in 1 .. n |-> [x \in Int |-> x % s[d]]]
<1>6. step \in [1 .. n -> [Int -> Int]] /\ \A d \in 1 .. n, x \in Int : step[d][x] = x % s[d]
  <2>1. ASSUME NEW d \in 1 .. n, NEW x \in Int PROVE x % s[d] \in Int
    <3>1. s[d] \in Nat \ {0}
      BY <1>4
    <3>2. x % s[d] \in 0 .. s[d] - 1
      BY <3>1, Rest
    <3>3. QED
      BY <3>1, <3>2
  <2>2. QED
    BY <2>1
<1> HIDE DEF step
<1>7. PICK r \in [0 .. n -> Int] : Recursion(n, e, step, r)
  <2>1. n \in Nat /\ e \in Int
    BY <1>1
  <2>2. QED
    BY <1>6, <2>1, RecursionExists
<1>8. r[0] = e /\ \A d \in 1 .. n : r[d - 1] \in Int /\ r[d] = r[d - 1] % s[d]
  BY <1>4, <1>6, <1>7 DEF Recursion
<1>9. \A d \in 0 .. n : r[d] \in 0 .. s[d] - 1
  <2> SUFFICES ASSUME NEW d \in 0 .. n PROVE r[d] \in 0 .. s[d] - 1
    OBVIOUS
  <2>1. CASE d = 0
    BY <1>2, <1>8, <2>1
  <2>2. CASE d # 0
    <3>1. d \in 1 .. n
      BY <1>1, <2>2
    <3>2. QED
      BY <1>4, <1>8, <3>1, Rest
  <2>3. QED
    BY <2>1, <2>2
<1>i. PICK index : index = [d \in 1 .. n |-> r[d - 1] \div s[d]]
  OBVIOUS
<1>10. ASSUME NEW d \in 1 .. n
       PROVE  index[d] \in Nat /\ index[d] < lens[d] /\ r[d - 1] = s[d] * index[d] + r[d]
  <2>1. s[d] \in Nat \ {0} /\ lens[d] \in Nat /\ r[d - 1] \in Int /\ r[d - 1] \in 0 .. s[d - 1] - 1
    BY <1>1, <1>4, <1>8, <1>9
  <2>2. r[d - 1] \in 0 .. lens[d] * s[d] - 1
    BY <1>2, <2>1
  <2>3. index[d] = r[d - 1] \div s[d]
    BY <1>i
  <2>4. r[d - 1] = s[d] * (r[d - 1] \div s[d]) + (r[d - 1] % s[d])
    BY <2>1, Rest
  <2>5. r[d - 1] \div s[d] \in Nat /\ r[d - 1] \div s[d] < lens[d]
    BY <2>1, <2>2, RestBelow
  <2>6. r[d] = r[d - 1] % s[d]
    BY <1>8
  <2>7. QED
    BY <2>3, <2>4, <2>5, <2>6
<1>11. index \in [1 .. n -> Nat]
  BY <1>i, <1>10
<1>v. PICK dv : dv = DimVec(lens)
  OBVIOUS
<1>12. DOMAIN dv = 1 .. n /\ Len(dv) = n /\ \A d \in 1 .. n : dv[d].elems = lens[d] /\ dv[d].mult = s[d]
  BY <1>n, <1>v, <1>5 DEF DimVec
<1>13. InBounds(dv, index)
  BY <1>10, <1>12 DEF InBounds
<1>a. PICK a : a = AddrUpTo(dv, index)
  OBVIOUS
<1>14. a \in [0 .. n -> Nat] /\ a[0] = 0 /\ \A d \in 1 .. n : a[d] = a[d - 1] + s[d] * index[d]
  <2>0. \A u, v \in Nat : u * v \in Nat
    OBVIOUS
  <2>1. Len(dv) \in Nat /\ \A d \in 1 .. Len(dv) : dv[d].mult * index[d] \in Nat
    BY <1>1, <1>4, <1>10, <1>12, <2>0
  <2>2. /\ a \in [0 .. Len(dv) -> Nat] /\ a[0] = 0
        /\ \A d \in 1 .. Len(dv) : a[d] = a[d - 1] + dv[d].mult * index[d]
    BY <1>a, <2>1, AddrIs
  <2>3. QED
    BY <1>12, <2>2
<1>15. \A d \in 0 .. n : a[d] + r[d] = e
  <2> DEFINE S == {d \in 0 .. n : a[d] + r[d] = e}
  <2>1. 0 \in S
    BY <1>1, <1>8, <1>14
  <2>2. ASSUME NEW d \in 1 .. n, d - 1 \in S PROVE d \in S
    <3>1. d \in 0 .. n /\ d - 1 \in 0 .. n /\ a[d - 1] + r[d - 1] = e
      BY <1>4, <2>2
    <3>2. a[d - 1] \in Nat /\ a[d] \in Nat /\ r[d - 1] \in Int /\ r[d] \in Int
      BY <1>14, <3>1
    <3>3. PICK x : x = s[d] * index[d]
      OBVIOUS
    <3>4. x \in Nat /\ a[d] = a[d - 1] + x /\ r[d - 1] = x + r[d]
      <4>1. \A u, v \in Nat : u * v \in Nat
        OBVIOUS
      <4>2. s[d] \in Nat /\ index[d] \in Nat
        BY <1>4, <1>10
      <4>3. QED
        BY <1>10, <1>14, <3>3, <4>1, <4>2
    <3>5. a[d] + r[d] = e
      BY <3>1, <3>2, <3>4
    <3>6. QED
      BY <3>1, <3>5
  <2>3. QED
    <3>1. \A d \in 0 .. n : d \in S
      <4> HIDE DEF S
      <4>1. QED
        BY <1>1, <2>1, <2>2, UpTo
    <3>2. QED
      BY <3>1
<1>16. a[n] = e
  <2>1. n \in 0 .. n /\ r[n] \in 0 .. 0 /\ a[n] + r[n] = e /\ a[n] \in Nat
    BY <1>1, <1>2, <1>9, <1>14, <1>15
  <2>2. QED
    BY <2>1
<1>17. AddrOf(dv, index) = e
  BY <1>12, <1>a, <1>16 DEF AddrOf
<1>18. QED
  BY <1>n, <1>v, <1>11, <1>13, <1>17

-----------------------------------------------------------------------------
(***************************************************************************)
(* The dimensions and the number of elements of an array belong together:  *)
(* they are those of some sizes.                                           *)
(***************************************************************************)
Laid(dv, n) == \E lens \in Seq(Nat) : dv = DimVec(lens) /\ n = Size(lens)

\* The sizes are read off the dimensions, ...
LEMMA LensIs ==
  ASSUME NEW lens \in Seq(Nat)
  PROVE  Lens(DimVec(lens)) = lens /\ Len(DimVec(lens)) = Len(lens)
<1>1. DOMAIN DimVec(lens) = 1 .. Len(lens) /\ \A d \in 1 .. Len(lens) : DimVec(lens)[d].elems = lens[d]
  BY DEF DimVec
<1>2. Lens(DimVec(lens)) = [d \in 1 .. Len(lens) |-> lens[d]]
  BY <1>1 DEF Lens
<1>3. lens = [d \in 1 .. Len(lens) |-> lens[d]]
  OBVIOUS
<1>4. Len(DimVec(lens)) = Len(lens)
  BY <1>1 DEF DimVec
<1>5. QED
  BY <1>2, <1>3, <1>4

LEMMA LaidAgain ==
  ASSUME NEW dv, NEW n, Laid(dv, n)
  PROVE  Lens(dv) \in Seq(Nat) /\ n = Size(Lens(dv)) /\ n \in Nat /\ dv = DimVec(Lens(dv))
BY LensIs, SizeIsNat DEF Laid

\* ... and one dimension grows with its elements.
LEMMA OneDimension ==
  ASSUME NEW k \in Nat
  PROVE  DimVec(<<k>>) = <<[elems |-> k, mult |-> 1]>> /\ Size(<<k>>) = k
<1>l. PICK lens : lens = <<k>>
  OBVIOUS
<1>1. lens \in Seq(Nat) /\ Len(lens) = 1 /\ lens[1] = k /\ DOMAIN lens = 1 .. 1
  BY <1>l
<1>2. SizeUpTo(lens)[0] = 1 /\ SizeUpTo(lens)[1] = SizeUpTo(lens)[1 - 1] * k
  BY <1>1, SizeIs
<1>3. Size(lens) = k
  BY <1>1, <1>2 DEF Size
<1>4. MultOf(lens, 1) = 1
  <2>1. CASE k = 0
    BY <1>1, <2>1 DEF MultOf
  <2>2. CASE k # 0
    <3>1. PICK s \in [0 .. Len(lens) -> Nat] :
            s[Len(lens)] = 1 /\ s[0] = Size(lens) /\ \A d \in 1 .. Len(lens) : s[d - 1] = lens[d] * s[d]
      BY <1>1, BehindExists
    <3>2. \A d \in 1 .. Len(lens) : lens[d] # 0
      BY <1>1, <2>2
    <3>3. \A d \in 1 .. Len(lens) : MultOf(lens, d) = s[d]
      BY <1>1, <3>1, <3>2, MultIs
    <3>4. QED
      BY <1>1, <3>1, <3>3
  <2>3. QED
    BY <2>1, <2>2
<1>5. DimVec(lens) = <<[elems |-> k, mult |-> 1]>>
  BY <1>1, <1>4 DEF DimVec
<1>6. QED
  BY <1>l, <1>3, <1>5

LEMMA LongerIsLaid ==
  ASSUME NEW dv, NEW n, Laid(dv, n), Len(dv) = 1
  PROVE  Laid(Longer(dv), n + 1)
<1>1. PICK lens \in Seq(Nat) : dv = DimVec(lens) /\ n = Size(lens)
  BY DEF Laid
<1>2. Len(lens) = 1
  BY <1>1, LensIs
<1>3. PICK k \in Nat : lens = <<k>>
  BY <1>2
<1>4. dv = <<[elems |-> k, mult |-> 1]>> /\ n = k
  BY <1>1, <1>3, OneDimension
<1>5. Longer(dv) = <<[elems |-> k + 1, mult |-> 1]>>
  BY <1>4 DEF Longer
<1>6. DimVec(<<k + 1>>) = Longer(dv) /\ Size(<<k + 1>>) = n + 1 /\ <<k + 1>> \in Seq(Nat)
  <2>1. k + 1 \in Nat
    OBVIOUS
  <2>2. QED
    BY <1>4, <1>5, <2>1, OneDimension
<1>7. QED
  BY <1>6 DEF Laid

\* Such an array has one element for each index, and one index for each element.
LEMMA IndicesAre ==
  ASSUME NEW lens \in Seq(Nat), NEW index
  PROVE  index \in Indices(DimVec(lens)) <=>
           index \in [1 .. Len(lens) -> Nat] /\ InBounds(DimVec(lens), index)
<1>d. PICK dv : dv = DimVec(lens)
  OBVIOUS
<1>1. DOMAIN dv = 1 .. Len(lens) /\ \A d \in 1 .. Len(lens) : dv[d].elems = lens[d] /\ lens[d] \in Nat
  BY <1>d DEF DimVec
<1> DEFINE U == UNION {0 .. dv[d].elems - 1 : d \in DOMAIN dv}
<1>2. U \subseteq Nat
  BY <1>1
<1>3. ASSUME index \in [1 .. Len(lens) -> Nat], InBounds(dv, index)
      PROVE  index \in [DOMAIN dv -> U]
  <2>1. ASSUME NEW d \in 1 .. Len(lens) PROVE index[d] \in U
    <3>1. index[d] \in Nat /\ index[d] < lens[d]
      BY <1>1, <1>3 DEF InBounds
    <3>2. index[d] \in 0 .. dv[d].elems - 1
      BY <1>1, <3>1
    <3>3. QED
      BY <1>1, <3>2
  <2> HIDE DEF U
  <2>2. QED
    BY <1>1, <1>3, <2>1
<1>4. index \in Indices(dv) <=> index \in [DOMAIN dv -> U] /\ InBounds(dv, index)
  BY DEF Indices
<1> HIDE DEF U
<1>5. QED
  BY <1>d, <1>1, <1>2, <1>3, <1>4

LEMMA OneForEach ==
  ASSUME NEW dv, NEW n, Laid(dv, n)
  PROVE  OneEach(dv, n)
<1>1. PICK lens \in Seq(Nat) : dv = DimVec(lens) /\ n = Size(lens)
  BY DEF Laid
<1>2. n \in Nat /\ Len(lens) \in Nat
  BY <1>1, SizeIsNat
<1>3. ASSUME NEW i \in Indices(dv)
      PROVE  i \in [1 .. Len(lens) -> Nat] /\ InBounds(DimVec(lens), i) /\ AddrOf(dv, i) \in 0 .. n - 1
  <2>1. i \in [1 .. Len(lens) -> Nat] /\ InBounds(DimVec(lens), i)
    BY <1>1, IndicesAre
  <2>2. \A d \in 1 .. Len(lens) : i[d] \in Nat
    BY <2>1
  <2>3. AddrOf(DimVec(lens), i) \in 0 .. Size(lens) - 1
    BY <2>1, <2>2, AddressInside
  <2>4. QED
    BY <1>1, <2>1, <2>3
<1>4. ASSUME NEW i \in Indices(dv) PROVE AddrOf(dv, i) + 1 \in 1 .. n
  <2>1. PICK x : x = AddrOf(dv, i)
    OBVIOUS
  <2>2. x \in 0 .. n - 1
    BY <1>3, <2>1
  <2>3. QED
    BY <1>2, <2>1, <2>2
<1>5. ASSUME NEW i \in Indices(dv), NEW j \in Indices(dv), AddrOf(dv, i) = AddrOf(dv, j)
      PROVE  i = j
  <2>1. /\ i \in [1 .. Len(lens) -> Nat] /\ InBounds(DimVec(lens), i)
        /\ j \in [1 .. Len(lens) -> Nat] /\ InBounds(DimVec(lens), j)
    BY <1>3
  <2>2. \A d \in 1 .. Len(lens) : i[d] \in Nat /\ j[d] \in Nat
    BY <2>1
  <2>3. \A d \in 1 .. Len(lens) : i[d] = j[d]
    BY <1>1, <1>5, <2>1, <2>2, AddressesDiffer
  <2>4. QED
    BY <2>1, <2>3
<1>6. ASSUME NEW e \in 1 .. n PROVE \E i \in Indices(dv) : AddrOf(dv, i) + 1 = e
  <2>1. PICK x \in 0 .. Size(lens) - 1 : x + 1 = e
    <3>1. e - 1 \in 0 .. Size(lens) - 1 /\ (e - 1) + 1 = e
      BY <1>1, <1>2
    <3>2. QED
      BY <3>1
  <2>2. PICK i \in [1 .. Len(lens) -> Nat] : InBounds(DimVec(lens), i) /\ AddrOf(DimVec(lens), i) = x
    BY AddressesCover
  <2>3. i \in Indices(DimVec(lens))
    BY <2>2, IndicesAre
  <2>4. QED
    BY <1>1, <2>1, <2>2, <2>3
<1>7. QED
  BY <1>4, <1>5, <1>6 DEF OneEach

-----------------------------------------------------------------------------
(***************************************************************************)
(* The inductive invariant.  All objects are whole: what they point to is  *)
(* there and is what such a reference leads to; a function that can be     *)
(* called has as many captured cells as the compiler has listed.  So is    *)
(* what the machine holds: the values on the stack, the vector of the      *)
(* running activation and those the frames have saved for the others.      *)
(***************************************************************************)
Exists(v)    == v \in Allocated \cup {Nil}
Leading(v, t) == v = Nil \/ (v \in Allocated /\ obj[v].type = t)

\* The vector v will do for the code at x.
VectorFor(v, x) == Exists(v) /\ (InFunction(prog, x) => IsVector(v, FuncAt(x).captures))

WellFormed(o) ==
  /\ o.type = "FUNC" =>
       /\ Exists(o.vec)
       /\ o.addr # Nil => IsVector(o.vec, FuncAt(o.addr).captures) /\ \E i \in DOMAIN Funcs : Funcs[i].start = o.addr
  /\ o.type = "VEC_REF" => Leading(o.vec, "VEC")
  /\ o.type = "ARR_REF" => Leading(o.arr, "ARR")
  /\ o.type = "STR_REF" => Leading(o.str, "STR")
  /\ o.type \in {"VEC", "ARR"} => o.elems \in Seq(Allocated)
  /\ o.type = "ARR" => Laid(o.dv, Len(o.elems))

HeapOK  == obj = [a \in Addr |-> obj[a]] /\ \A a \in Allocated : WellFormed(obj[a])
RootsOK == Exists(gp) /\ \A i \in 0 .. sp : stack[i].type = "ADDR" => Exists(stack[i].val)

\* The values outside the frames, and the vectors inside.
Held(F) ==
  /\ \A i \in 0 .. sp : Outside(F, i) /\ stack[i].type = "ADDR" => stack[i].val \in Allocated
  /\ \A c \in F : VectorFor(Vec(c), Back(c))

MemInv ==
  /\ Inv
  /\ HeapOK /\ RootsOK
  /\ running = "RUNNING" =>
       /\ VectorFor(gp, ip)
       /\ \E F, A \in SUBSET Int : FrameInv(F, A) /\ Held(F)

-----------------------------------------------------------------------------
(***************************************************************************)
(* The cells an instruction takes: the least free ones, all different.     *)
(***************************************************************************)
LEMMA FreeIsFinite ==
  /\ Free \in SUBSET Addr /\ Addr \in SUBSET Nat /\ Nil \notin Addr
  /\ IsFiniteSet(Free) /\ Cardinality(Free) \in Nat
  /\ IsFiniteSet(Addr) /\ Cardinality(Addr) = MemSize - 1
<1>1. IsFiniteSet(Addr) /\ Cardinality(Addr) = MemSize - 1
  BY SizesAssumption, FS_Interval DEF Addr
<1>2. Free \in SUBSET Addr /\ Addr \in SUBSET Nat /\ Nil \notin Addr
  BY SizesAssumption DEF Free, Addr, Nil
<1>3. QED
  BY <1>1, <1>2, FS_Subset, FS_CardinalityType

\* Every number below its size counts the elements below some element.
LEMMA Numbered ==
  ASSUME NEW S \in SUBSET Nat, IsFiniteSet(S), NEW k \in Nat, k < Cardinality(S)
  PROVE  \E a \in S : Cardinality({b \in S : b < a}) = k
<1> DEFINE Bad == {j \in Nat : j < Cardinality(S) /\ ~ \E a \in S : Cardinality({b \in S : b < a}) = j}
<1> SUFFICES ASSUME Bad # {}
             PROVE  FALSE
  OBVIOUS
<1>0. Cardinality(S) \in Nat
  BY FS_CardinalityType
<1>1. PICK j \in Bad : \A i \in Bad : ~(<<i, j>> \in OpToRel(<, Nat))
  BY WFMin, NatLessThanWellFounded
<1>2. /\ j \in Nat /\ j < Cardinality(S) /\ ~ \E a \in S : Cardinality({b \in S : b < a}) = j
      /\ \A i \in Nat : i < j => \E a \in S : Cardinality({b \in S : b < a}) = i
  <2>1. ASSUME NEW i \in Nat, i < j PROVE \E a \in S : Cardinality({b \in S : b < a}) = i
    <3>1. i < Cardinality(S)
      BY <1>0, <2>1
    <3>2. i \notin Bad
      BY <1>1, <2>1 DEF OpToRel
    <3>3. QED
      BY <3>1, <3>2
  <2>2. QED
    BY <1>1, <2>1
\* The elements passed so far, and the next one.
<1>3. PICK T \in SUBSET S : /\ Cardinality(T) = j
                            /\ \A a \in S \ T : \A b \in T : b < a
  <2>1. CASE j = 0
    BY <2>1, FS_EmptySet
  <2>2. CASE j > 0
    <3>1. PICK a \in S : Cardinality({b \in S : b < a}) = j - 1
      BY <1>2, <2>2
    <3> DEFINE L == {b \in S : b < a}
    <3>2. IsFiniteSet(L) /\ a \notin L /\ Cardinality(L) = j - 1
      BY <3>1, FS_Subset
    <3>3. Cardinality(L \cup {a}) = j
      <4> HIDE DEF L
      <4>1. Cardinality(L \cup {a}) = Cardinality(L) + 1
        BY <3>2, FS_AddElement
      <4>2. QED
        BY <1>2, <3>2, <4>1
    <3>4. \A c \in S \ (L \cup {a}) : \A b \in L \cup {a} : b < c
      OBVIOUS
    <3>5. QED
      BY <3>3, <3>4
  <2>3. QED
    BY <1>2, <2>1, <2>2
<1>4. S \ T # {}
  <2>1. T # S
    BY <1>2, <1>3, FS_CardinalityType
  <2>2. QED
    BY <2>1
<1>5. PICK a \in S \ T : \A b \in S \ T : ~(<<b, a>> \in OpToRel(<, Nat))
  BY <1>4, WFMin, NatLessThanWellFounded
<1>6. {b \in S : b < a} = T
  <2>1. \A b \in S \ T : ~(b < a)
    BY <1>5 DEF OpToRel
  <2>2. QED
    BY <1>3, <2>1
<1>7. QED
  BY <1>2, <1>3, <1>5, <1>6

LEMMA NewIsFree ==
  ASSUME NEW i \in 1 .. Cardinality(Free)
  PROVE  New(i) \in Free /\ New(i) # Nil /\ Cardinality({b \in Free : b < New(i)}) = i - 1
<1>1. i - 1 \in Nat /\ i - 1 < Cardinality(Free)
  BY FreeIsFinite
<1>2. \E a \in Free : Cardinality({b \in Free : b < a}) = i - 1
  BY <1>1, FreeIsFinite, Numbered
<1>3. QED
  BY <1>2, FreeIsFinite DEF New

LEMMA NewDiffer ==
  ASSUME NEW i \in 1 .. Cardinality(Free), NEW j \in 1 .. Cardinality(Free), New(i) = New(j)
  PROVE  i = j
<1>1. i - 1 = j - 1
  BY NewIsFree
<1>2. QED
  BY <1>1

\* What is in memory once the n objects of os have been allocated.
Added(os, n) ==
  /\ obj' = [a \in Addr |-> obj'[a]]
  /\ \A i \in 1 .. n : New(i) \in Free /\ New(i) # Nil /\ obj'[New(i)] = os[i]
  /\ \A a \in Addr : obj'[a] = obj[a] \/ \E i \in 1 .. n : a = New(i)
  /\ \A a \in Allocated : obj'[a] = obj[a]

LEMMA AllocatesAll ==
  ASSUME NEW os, NEW n \in Nat, DOMAIN os = 1 .. n, n <= Cardinality(Free), AllocateAll(os)
  PROVE  Added(os, n)
<1>c. PICK cells : cells = [i \in DOMAIN os |-> New(i)]
  OBVIOUS
<1>1. obj' = [a \in Addr |-> IF \E i \in DOMAIN os : cells[i] = a
                             THEN os[CHOOSE i \in DOMAIN os : cells[i] = a] ELSE obj[a]]
  BY <1>c DEF AllocateAll
<1>2. \A i \in 1 .. n : cells[i] = New(i) /\ i \in 1 .. Cardinality(Free)
  BY <1>c, FreeIsFinite
<1>3. \A i \in 1 .. n : New(i) \in Free /\ New(i) # Nil /\ New(i) \in Addr
  BY <1>2, NewIsFree, FreeIsFinite
<1>4. ASSUME NEW i \in 1 .. n PROVE obj'[New(i)] = os[i]
  <2>1. \A j \in 1 .. n : cells[j] = New(i) => j = i
    BY <1>2, NewDiffer
  <2>2. (CHOOSE j \in DOMAIN os : cells[j] = New(i)) = i
    BY <1>2, <2>1
  <2>3. QED
    BY <1>1, <1>2, <1>3, <2>2
<1>5. \A a \in Addr : obj'[a] = obj[a] \/ \E i \in 1 .. n : a = New(i)
  BY <1>1, <1>2
<1>6. \A a \in Allocated : obj'[a] = obj[a]
  BY <1>3, <1>5 DEF Free, Allocated
<1>7. QED
  BY <1>1, <1>3, <1>4, <1>5, <1>6 DEF Added

LEMMA AllocatesOne ==
  ASSUME HeapOK, NEW o, 1 <= Cardinality(Free), Allocate(o)
  PROVE  Added(<<o>>, 1)
<1>1. 1 \in 1 .. Cardinality(Free)
  BY FreeIsFinite
<1>2. New(1) \in Free /\ New(1) # Nil /\ New(1) \in Addr
  BY <1>1, NewIsFree, FreeIsFinite
<1>3. obj' = [a \in Addr |-> IF a = New(1) THEN o ELSE obj[a]]
  BY <1>2 DEF Allocate, HeapOK
<1>4. QED
  BY <1>2, <1>3 DEF Added, Free, Allocated

-----------------------------------------------------------------------------
(***************************************************************************)
(* What allocating and writing leave whole.                                *)
(***************************************************************************)

\* No object goes or becomes another kind, and no vector is written.
Grown ==
  \A a \in Allocated : a \in Allocated' /\ obj'[a].type = obj[a].type /\ (obj[a].type = "VEC" => obj'[a] = obj[a])

LEMMA GrownExists ==
  ASSUME Grown, NEW v
  PROVE  /\ v \in Allocated => v \in Allocated'
         /\ Exists(v) => Exists(v)'
         /\ \A t : Leading(v, t) => Leading(v, t)'
         /\ \A n : IsVector(v, n) => IsVector(v, n)'
BY DEF Grown, Exists, Leading, IsVector

LEMMA GrownVectorFor ==
  ASSUME Grown, prog' = prog, NEW v, NEW x, VectorFor(v, x)
  PROVE  VectorFor(v, x)'
BY GrownExists DEF VectorFor, InFunction, FuncAt, Funcs

LEMMA GrownWellFormed ==
  ASSUME Grown, prog' = prog, NEW o, WellFormed(o)
  PROVE  WellFormed(o)'
<1>1. Allocated \subseteq Allocated'
  BY DEF Grown
<1>2. o.type = "FUNC" =>
        /\ Exists(o.vec)' /\ (o.addr # Nil => IsVector(o.vec, FuncAt(o.addr).captures)')
        /\ o.addr # Nil => \E i \in DOMAIN Funcs' : Funcs'[i].start = o.addr
  BY GrownExists DEF WellFormed, FuncAt, Funcs
<1>3. /\ o.type = "VEC_REF" => Leading(o.vec, "VEC")'
      /\ o.type = "ARR_REF" => Leading(o.arr, "ARR")'
      /\ o.type = "STR_REF" => Leading(o.str, "STR")'
  BY GrownExists DEF WellFormed
<1>4. o.type \in {"VEC", "ARR"} => o.elems \in Seq(Allocated')
  BY <1>1 DEF WellFormed
<1>5. o.type = "ARR" => Laid(o.dv, Len(o.elems))
  BY DEF WellFormed
<1>6. QED
  BY <1>2, <1>3, <1>4, <1>5 DEF WellFormed, FuncAt

\* New objects may point to each other as well.
LEMMA AddingKeeps ==
  ASSUME HeapOK, prog' = prog, NEW os, NEW n, Added(os, n),
         \A i \in 1 .. n : os[i].type # "NULL",
         Grown => \A i \in 1 .. n : WellFormed(os[i])'
  PROVE  HeapOK' /\ Grown /\ \A i \in 1 .. n : New(i) \in Allocated'
<1>1. Grown
  BY DEF Added, Grown, Allocated
<1>2. \A i \in 1 .. n : New(i) \in Allocated'
  BY DEF Added, Allocated, Free
<1>3. ASSUME NEW a \in Allocated' PROVE WellFormed(obj[a])'
  <2>1. a \in Addr /\ obj'[a].type # "NULL"
    BY DEF Allocated
  <2>2. CASE \E i \in 1 .. n : a = New(i)
    BY <1>1, <2>2 DEF Added
  <2>3. CASE obj'[a] = obj[a]
    <3>1. a \in Allocated
      BY <2>1, <2>3 DEF Allocated
    <3>2. PICK o : o = obj[a]
      OBVIOUS
    <3>3. WellFormed(o)'
      BY <1>1, <3>1, <3>2, GrownWellFormed DEF HeapOK
    <3>4. QED
      BY <2>3, <3>2, <3>3
  <2>4. QED
    BY <2>1, <2>2, <2>3 DEF Added
<1>4. QED
  BY <1>1, <1>2, <1>3 DEF HeapOK, Added

\* An object is replaced by one of its kind, other than a vector.
LEMMA WritingKeeps ==
  ASSUME HeapOK, prog' = prog, NEW a \in Allocated, NEW o, obj' = [obj EXCEPT ![a] = o],
         o.type = obj[a].type, o.type # "VEC", WellFormed(o)
  PROVE  HeapOK' /\ Grown
<1>1. obj' = [b \in Addr |-> IF b = a THEN o ELSE obj[b]]
  BY DEF HeapOK
<1>2. Allocated' = Allocated /\ a \in Addr
  BY <1>1 DEF Allocated
<1>3. Grown
  BY <1>1, <1>2 DEF Grown, Allocated
<1>4. ASSUME NEW b \in Allocated PROVE WellFormed(obj[b])'
  <2>1. PICK e : e = obj'[b]
    OBVIOUS
  <2>2. e = o \/ e = obj[b]
    BY <1>1, <2>1 DEF Allocated
  <2>3. WellFormed(e)
    BY <2>2 DEF HeapOK
  <2>4. QED
    BY <1>3, <2>1, <2>3, GrownWellFormed
<1>5. QED
  BY <1>1, <1>2, <1>3, <1>4 DEF HeapOK

-----------------------------------------------------------------------------
(***************************************************************************)
(* The calls the frames stand for, as a function of what they are read     *)
(* from.                                                                   *)
(***************************************************************************)
CapturedIn(o, v) == IF v \in {a \in Addr : o[a].type # "NULL"} /\ o[v].type = "VEC" THEN o[v].elems ELSE << >>

FuncAtCall(p, st, x, bs, i) == FuncIn(p.funcs, IF i = Len(bs) THEN x ELSE st[bs[i + 1]].val)
VecAtCall(st, g, bs, i)     == IF i = Len(bs) THEN g ELSE st[bs[i + 1] - 2].val
CallIn(p, o, st, x, g, bs, i) ==
  [func |-> FuncAtCall(p, st, x, bs, i).uid, back |-> st[bs[i]].val, captured |-> CapturedIn(o, VecAtCall(st, g, bs, i)),
   args |-> [k \in 1 .. FuncAtCall(p, st, x, bs, i).params |-> st[bs[i] + k].val]]
CallsIn(p, o, st, x, g, bs) == [i \in 1 .. Len(bs) - 1 |-> CallIn(p, o, st, x, g, bs, i + 1)]

LEMMA CallsNow == CallStack = CallsIn(prog, obj, stack, ip, gp, Activations)
BY DEF CallStack, CallOf, FuncOf, VecOf, FuncAt, Funcs, Captured, Allocated,
       CallsIn, CallIn, FuncAtCall, VecAtCall, CapturedIn

LEMMA CallsThen == (CallStack = CallsIn(prog, obj, stack, ip, gp, Activations))'
BY CallsNow, PTL

\* The chain of activations, now and in the next state.
Follows(st, f) ==
  \A b \in -1 .. StackSize - 1 :
    f[b] = IF b < 4 THEN <<-1>> ELSE Append(IF st[b - 4].val \in 4 .. b - 1 THEN f[st[b - 4].val] ELSE <<-1>>, b)

LEMMA FollowsNow == Follows(stack, LinkedFrom(4))
BY LinkedFromIs DEF Follows, Below

LEMMA FollowsThen == Follows(stack, LinkedFrom(4))'
BY FollowsNow, PTL

LEMMA FollowsStep ==
  ASSUME NEW st, NEW f, Follows(st, f),
         NEW S \in SUBSET (4 .. StackSize - 1), NEW c \in S, IsGreatest(st[c - 4].val, S, c)
  PROVE  f[c] = Append(f[st[c - 4].val], c) /\ f[-1] = <<-1>>
<1>1. c \in 4 .. StackSize - 1 /\ StackSize \in Nat /\ (\A e \in S : e \in Int /\ 4 <= e)
  BY SizesAssumption
<1>p. PICK p : p = st[c - 4].val
  OBVIOUS
<1>2. p \in S \cup {-1} /\ p < c
  BY <1>p DEF IsGreatest
<1>3. -1 \in -1 .. StackSize - 1 /\ c \in -1 .. StackSize - 1
  BY <1>1
<1>4. f[-1] = <<-1>>
  BY <1>3 DEF Follows
<1>5. f[c] = IF c < 4 THEN <<-1>> ELSE Append(IF p \in 4 .. c - 1 THEN f[p] ELSE <<-1>>, c)
  BY <1>3, <1>p DEF Follows
<1>6. ~(c < 4) /\ (p = -1 \/ p \in 4 .. c - 1)
  BY <1>1, <1>2
<1>7. CASE p = -1
  <2>1. ~(p \in 4 .. c - 1)
    BY <1>1, <1>7
  <2>2. f[c] = Append(<<-1>>, c)
    BY <1>5, <1>6, <2>1
  <2>3. QED
    BY <1>4, <1>7, <1>p, <2>2
<1>8. CASE p \in 4 .. c - 1
  BY <1>4, <1>5, <1>6, <1>8, <1>p
<1>9. QED
  BY <1>6, <1>7, <1>8

\* The same entries make the same chain.
LEMMA FollowsSame ==
  ASSUME NEW st, NEW f, Follows(st, f), NEW st1, NEW f1, Follows(st1, f1),
         NEW S \in SUBSET (4 .. StackSize - 1), \A c \in S : IsGreatest(st[c - 4].val, S, c),
         NEW m \in S \cup {-1}, \A c \in S : c <= m => st1[c - 4] = st[c - 4]
  PROVE  f1[m] = f[m]
<1>0. StackSize \in Nat /\ (\A c \in S : c \in Nat /\ 4 <= c /\ c < StackSize)
  BY SizesAssumption
<1>1. f1[-1] = f[-1]
  BY <1>0 DEF Follows
<1>a. \A c \in S : IsGreatest(st1[c - 4].val, S, c) => f1[c] = Append(f1[st1[c - 4].val], c)
  BY FollowsStep
<1>b. \A c \in S : f[c] = Append(f[st[c - 4].val], c)
  BY FollowsStep
<1> DEFINE T == {c \in S : c <= m /\ f1[c] # f[c]}
<1> SUFFICES ASSUME T # {}
             PROVE  FALSE
  BY <1>0, <1>1
<1>2. PICK c \in T : \A j \in T : ~(<<j, c>> \in OpToRel(<, Nat))
  BY <1>0, WFMin, NatLessThanWellFounded
<1>3. c \in S /\ c <= m /\ f1[c] # f[c] /\ c \in Nat
  BY <1>0
<1>p. PICK p : p = st[c - 4].val
  OBVIOUS
<1>4. p = st1[c - 4].val /\ IsGreatest(p, S, c)
  BY <1>3, <1>p
<1>5. f[c] = Append(f[p], c) /\ f1[c] = Append(f1[p], c)
  <2>1. f[c] = Append(f[p], c)
    BY <1>3, <1>b, <1>p
  <2>2. f1[c] = Append(f1[p], c)
    BY <1>3, <1>4, <1>a
  <2>3. QED
    BY <2>1, <2>2
<1>6. f1[p] # f[p] /\ p \in S /\ p < c
  BY <1>1, <1>3, <1>4, <1>5 DEF IsGreatest
<1>7. p \in T /\ p \in Nat
  BY <1>0, <1>3, <1>6
<1>8. <<p, c>> \in OpToRel(<, Nat)
  BY <1>3, <1>6, <1>7 DEF OpToRel
<1>9. QED
  BY <1>2, <1>7, <1>8

\* A call that waits is read from the frame of the one above it.
LEMMA WaitingSame ==
  ASSUME NEW p, NEW o, NEW st, NEW x, NEW g, NEW bs, NEW o1, NEW st1, NEW x1, NEW g1, NEW bs1,
         NEW j, j # Len(bs), j # Len(bs1), bs1[j] = bs[j], bs1[j + 1] = bs[j + 1],
         NEW c, c = bs[j + 1], st1[c] = st[c], st1[c - 2] = st[c - 2], st1[bs[j]] = st[bs[j]],
         CapturedIn(o1, st[c - 2].val) = CapturedIn(o, st[c - 2].val),
         \A k \in 1 .. FuncIn(p.funcs, st[c].val).params : st1[bs[j] + k] = st[bs[j] + k]
  PROVE  CallIn(p, o1, st1, x1, g1, bs1, j) = CallIn(p, o, st, x, g, bs, j)
<1>1. FuncAtCall(p, st, x, bs, j) = FuncIn(p.funcs, st[c].val) /\ FuncAtCall(p, st1, x1, bs1, j) = FuncIn(p.funcs, st[c].val)
  BY DEF FuncAtCall
<1>2. VecAtCall(st, g, bs, j) = st[c - 2].val /\ VecAtCall(st1, g1, bs1, j) = st[c - 2].val
  BY DEF VecAtCall
<1>f. PICK f : f = FuncIn(p.funcs, st[c].val)
  OBVIOUS
<1>3. [k \in 1 .. f.params |-> st1[bs1[j] + k].val] = [k \in 1 .. f.params |-> st[bs[j] + k].val]
  BY <1>f
<1>4. QED
  BY <1>1, <1>2, <1>3, <1>f DEF CallIn

-----------------------------------------------------------------------------
(***************************************************************************)
(* The machine's steps as steps of Calls.                                  *)
(***************************************************************************)

\* What the value v refers to is still there.
Remains(v) == v \in Allocated => v \in Allocated' /\ (obj[v].type = "VEC" => obj'[v] = obj[v])

LEMMA RemainsCaptured ==
  ASSUME NEW v, NEW n, IsVector(v, n), Remains(v)
  PROVE  CapturedIn(obj', v) = CapturedIn(obj, v)
BY DEF IsVector, Remains, CapturedIn, Allocated

LEMMA NoCalls ==
  ASSUME NEW p, NEW o, NEW st, NEW x, NEW g
  PROVE  CallsIn(p, o, st, x, g, <<-1>>) = << >>
<1>1. Len(<<-1>>) = 1 /\ 1 .. 1 - 1 = {}
  OBVIOUS
<1>2. QED
  BY <1>1 DEF CallsIn

\* Where the frames of activations lie, and the walk over them.
LEMMA WalkFacts ==
  ASSUME MemInv, running = "RUNNING", NEW F \in SUBSET Int, NEW A \in SUBSET Int, FrameInv(F, A)
  PROVE  /\ A \in SUBSET (4 .. StackSize - 1) /\ pp \in A \cup {-1} /\ pp \in Int /\ (\A a \in A : a <= pp)
         /\ (\A c \in A : IsGreatest(stack[c - 4].val, A, c))
         /\ Activations = LinkedFrom(4)[pp]
<1>0. Inv
  BY DEF MemInv
<1>1. /\ sp \in Int /\ sp < StackSize /\ StackSize \in Nat /\ pp \in Int
      /\ F \subseteq 4 .. sp /\ A \subseteq F /\ pp \in A \cup {-1} /\ (\A a \in A : a <= pp)
      /\ (\A c \in F : Linked(F, A, c))
  BY <1>0, FrameFacts
<1>2. A \in SUBSET (4 .. StackSize - 1) /\ \A c \in A : IsGreatest(stack[c - 4].val, A, c)
  BY <1>1 DEF Linked, Base
<1>3. QED
  BY <1>1, <1>2 DEF Activations

\* A call that waits, and where it lies: its arguments are below the frame of the
\* one above it.
LEMMA WaitingFacts ==
  ASSUME MemInv, running = "RUNNING", NEW F \in SUBSET Int, NEW A \in SUBSET Int, FrameInv(F, A), Held(F),
         NEW c \in A, Base(c) # -1
  PROVE  /\ c \in Int /\ Base(c) \in A /\ Base(c) \in Int /\ 4 <= Base(c) /\ Base(c) < c - 4
         /\ ParamsAt(prog, Back(c)) \in Nat /\ Base(c) + ParamsAt(prog, Back(c)) < c - 4
         /\ IsVector(Vec(c), FuncAt(Back(c)).captures)
<1>0. Inv
  BY DEF MemInv
<1>1. /\ sp \in Int /\ F \subseteq 4 .. sp /\ A \subseteq F /\ c \in Int /\ Linked(F, A, c)
  BY <1>0, FrameFacts
<1>2. /\ Base(c) \in A \cup {-1} /\ Base(c) \in Int /\ Prev(c) \in Int /\ Base(c) <= Prev(c) /\ Prev(c) < c - 4
      /\ c - 4 > Base(c) + ParamsAt(prog, Back(c)) /\ ParamsAt(prog, Back(c)) \in Nat
  BY <1>0, <1>1, LinkFacts
<1>3. InFunction(prog, Back(c))
  BY <1>1 DEF Linked
<1>4. IsVector(Vec(c), FuncAt(Back(c)).captures)
  BY <1>1, <1>3 DEF Held, VectorFor
<1>5. Base(c) \in A /\ 4 <= Base(c)
  BY <1>1, <1>2
<1>6. Base(c) < c - 4
  BY <1>1, <1>2
<1>7. Base(c) + ParamsAt(prog, Back(c)) < c - 4
  BY <1>1, <1>2
<1>8. QED
  BY <1>1, <1>2, <1>4, <1>5, <1>6, <1>7

\* The calls under the one whose frame is m stay what they are, when the stack up
\* to m does.
LEMMA CallsUnder ==
  ASSUME MemInv, running = "RUNNING", NEW F \in SUBSET Int, NEW A \in SUBSET Int, FrameInv(F, A), Held(F),
         NEW m, NEW q, IsWalk(4, A, m, q),
         \A c \in A : c <= m => Remains(Vec(c)) /\ \A i \in 0 .. c : stack'[i] = stack[i],
         NEW bs, NEW bt, Len(bs) >= Len(q), Len(bt) >= Len(q), Len(bs) \in Nat, Len(bt) \in Nat,
         \A i \in 1 .. Len(q) : bs[i] = q[i] /\ bt[i] = q[i],
         NEW p, p = prog, NEW x, NEW g, NEW x1, NEW g1, NEW j \in 2 .. Len(q) - 1
  PROVE  CallIn(p, obj', stack', x1, g1, bt, j) = CallIn(p, obj, stack, x, g, bs, j)
<1>1. /\ q \in Seq(Int) /\ Len(q) \in Nat /\ Chained(q) = {c \in A : c <= m}
      /\ q[j] = stack[q[j + 1] - 4].val /\ j \in 2 .. Len(q) /\ j + 1 \in 2 .. Len(q)
      /\ j \in 1 .. Len(q) /\ j + 1 \in 1 .. Len(q)
  BY DEF IsWalk
<1>2. q[j] \in A /\ q[j + 1] \in A /\ q[j + 1] <= m
  BY <1>1 DEF Chained
<1>3. PICK c \in A : c = q[j + 1]
  BY <1>2
<1>4. q[j] = Base(c) /\ Base(c) # -1 /\ c <= m
  <2>1. A \in SUBSET (4 .. StackSize - 1) /\ StackSize \in Nat
    BY WalkFacts, SizesAssumption
  <2>2. q[j] # -1
    BY <1>2, <2>1
  <2>3. QED
    BY <1>1, <1>2, <1>3, <2>2 DEF Base
<1>5. /\ c \in Int /\ Base(c) \in Int /\ 4 <= Base(c) /\ Base(c) < c - 4
      /\ ParamsAt(prog, Back(c)) \in Nat /\ Base(c) + ParamsAt(prog, Back(c)) < c - 4
      /\ IsVector(Vec(c), FuncAt(Back(c)).captures)
  BY <1>4, WaitingFacts
<1>6. \A i \in 0 .. c : stack'[i] = stack[i]
  BY <1>4
<1>7. stack'[c] = stack[c] /\ stack'[c - 2] = stack[c - 2] /\ stack'[q[j]] = stack[q[j]]
  BY <1>4, <1>5, <1>6
<1>8. CapturedIn(obj', stack[c - 2].val) = CapturedIn(obj, stack[c - 2].val)
  BY <1>4, <1>5, RemainsCaptured DEF Vec
<1>9. \A k \in 1 .. FuncIn(p.funcs, stack[c].val).params : stack'[q[j] + k] = stack[q[j] + k]
  <2>1. FuncIn(p.funcs, stack[c].val).params = ParamsAt(prog, Back(c))
    BY DEF ParamsAt, Back
  <2>2. \A k \in 1 .. ParamsAt(prog, Back(c)) : Base(c) + k \in 0 .. c
    BY <1>5
  <2>3. QED
    BY <1>4, <1>6, <2>1, <2>2
<1>10. /\ bs[j] = q[j] /\ bt[j] = q[j] /\ bs[j + 1] = c /\ bt[j + 1] = c /\ j # Len(bs) /\ j # Len(bt)
  BY <1>1, <1>3
<1>11. PICK st, st1, o, o1 : st = stack /\ st1 = stack' /\ o = obj /\ o1 = obj'
  OBVIOUS
<1>12. CallIn(p, o1, st1, x1, g1, bt, j) = CallIn(p, o, st, x, g, bs, j)
  BY <1>7, <1>8, <1>9, <1>10, <1>11, WaitingSame
<1>13. QED
  BY <1>11, <1>12

\* What the steps below have to show of the calls now, cs, and then, ct.
LEMMA AgainIs ==
  ASSUME NEW n \in Nat, n # 0, NEW cs, NEW ct, cs = [i \in 1 .. n |-> cs[i]], ct = [i \in 1 .. n |-> ct[i]],
         \A i \in 1 .. n - 1 : ct[i] = cs[i],
         ct[n] = [cs[n] EXCEPT !.args = ct[n].args]
  PROVE  ct = [cs EXCEPT ![n].args = ct[n].args] /\ Len(cs) = n /\ Len(ct) = n /\ cs # << >>
<1>1. Len(cs) = n /\ Len(ct) = n /\ cs # << >>
  OBVIOUS
<1>d. PICK d : d = [cs[n] EXCEPT !.args = ct[n].args]
  OBVIOUS
<1>2. d = ct[n]
  BY <1>d
<1>3. [cs EXCEPT ![n].args = ct[n].args] = [i \in 1 .. n |-> IF i = n THEN d ELSE cs[i]]
  BY <1>2, <1>d
<1>4. \A i \in 1 .. n : ct[i] = IF i = n THEN d ELSE cs[i]
  <2>1. \A i \in 1 .. n : i = n \/ i \in 1 .. n - 1
    OBVIOUS
  <2>2. QED
    BY <1>2, <2>1
<1>5. ct = [i \in 1 .. n |-> IF i = n THEN d ELSE cs[i]]
  BY <1>4
<1>6. QED
  BY <1>1, <1>3, <1>5

\* Activations and CallStack in the next state, of the same program.
LEMMA CallStacks ==
  ASSUME prog' = prog,
         NEW p, NEW o, NEW st, NEW x, NEW g, NEW bs, p = prog, o = obj, st = stack, x = ip, g = gp, bs = Activations,
         NEW o1, NEW st1, NEW x1, NEW g1, NEW bt, o1 = obj', st1 = stack', x1 = ip', g1 = gp', bt = Activations'
  PROVE  CallStack = CallsIn(p, o, st, x, g, bs) /\ CallStack' = CallsIn(p, o1, st1, x1, g1, bt)
<1>1. CallStack = CallsIn(p, o, st, x, g, bs)
  BY CallsNow
<1>2. CallStack' = CallsIn(p, o1, st1, x1, g1, bt)
  BY CallsThen
<1>3. QED
  BY <1>1, <1>2

\* The walk to m is the same in the next state.
LEMMA WalkSame ==
  ASSUME MemInv, running = "RUNNING", NEW F \in SUBSET Int, NEW A \in SUBSET Int, FrameInv(F, A),
         NEW m \in A \cup {-1}, \A c \in A : c <= m => stack'[c - 4] = stack[c - 4]
  PROVE  LinkedFrom(4)'[m] = LinkedFrom(4)[m] /\ IsWalk(4, A, m, LinkedFrom(4)[m])
<1>1. A \in SUBSET (4 .. StackSize - 1) /\ \A c \in A : IsGreatest(stack[c - 4].val, A, c)
  BY WalkFacts
<1>2. PICK st, f, st1, f1 : st = stack /\ f = LinkedFrom(4) /\ st1 = stack' /\ f1 = LinkedFrom(4)'
  OBVIOUS
<1>3. Follows(st, f) /\ Follows(st1, f1)
  BY <1>2, FollowsNow, FollowsThen DEF Follows
<1>4. f1[m] = f[m]
  BY <1>1, <1>2, <1>3, FollowsSame
<1>5. IsWalk(4, A, m, LinkedFrom(4)[m])
  BY <1>1, Walk
<1>6. QED
  BY <1>2, <1>4, <1>5

\* No frame is called and none is left: all calls last, but the arguments of the
\* running one may be others, and its captured cells may be in another vector.
LEMMA KeepsCalls ==
  ASSUME MemInv, running = "RUNNING", NEW F \in SUBSET Int, NEW A \in SUBSET Int, FrameInv(F, A), Held(F),
         prog' = prog, pp' = pp, pp # -1 => FuncAt(ip') = FuncAt(ip) /\ CapturedIn(obj', gp') = CapturedIn(obj, gp),
         \A c \in A : Remains(Vec(c)), \A i \in 0 .. pp : stack'[i] = stack[i]
  PROVE  [Calls!Next]_CallStack
<1>1. /\ A \in SUBSET (4 .. StackSize - 1) /\ pp \in A \cup {-1} /\ pp \in Int /\ (\A a \in A : a <= pp)
      /\ Activations = LinkedFrom(4)[pp]
  BY WalkFacts
<1>2. \A c \in A : c \in Int /\ 4 <= c /\ c - 4 \in 0 .. pp /\ \A i \in 0 .. c : i \in 0 .. pp
  <2> SUFFICES ASSUME NEW c \in A
               PROVE  c \in Int /\ 4 <= c /\ c - 4 \in 0 .. pp /\ \A i \in 0 .. c : i \in 0 .. pp
    OBVIOUS
  <2>1. c \in Int /\ 4 <= c /\ c <= pp /\ pp \in Int
    BY <1>1, SizesAssumption
  <2>2. QED
    BY <2>1
<1>m. PICK m : m = pp
  OBVIOUS
<1>q. PICK q : q = Activations
  OBVIOUS
<1>3. LinkedFrom(4)'[m] = LinkedFrom(4)[m] /\ IsWalk(4, A, m, q)
  <2>1. m \in A \cup {-1} /\ \A c \in A : c <= m => stack'[c - 4] = stack[c - 4]
    BY <1>1, <1>2, <1>m
  <2>2. LinkedFrom(4)'[m] = LinkedFrom(4)[m] /\ IsWalk(4, A, m, LinkedFrom(4)[m])
    BY <2>1, WalkSame
  <2>3. QED
    BY <1>1, <1>m, <1>q, <2>2
<1>4. Activations' = q
  BY <1>1, <1>3, <1>m, <1>q DEF Activations
<1>5. PICK p, o, st, x, g, o1, st1, x1, g1 :
        /\ p = prog /\ o = obj /\ st = stack /\ x = ip /\ g = gp
        /\ o1 = obj' /\ st1 = stack' /\ x1 = ip' /\ g1 = gp'
  OBVIOUS
<1>6. CallStack = CallsIn(p, o, st, x, g, q) /\ CallStack' = CallsIn(p, o1, st1, x1, g1, q)
  BY <1>4, <1>5, <1>q, CallStacks
<1>n. PICK n : n = Len(q) - 1
  OBVIOUS
<1>7. q \in Seq(Int) /\ n \in Nat /\ Len(q) = n + 1 /\ q[1] = -1 /\ q[n + 1] = m /\ Chained(q) = {c \in A : c <= m}
  BY <1>3, <1>n DEF IsWalk
<1>8. CASE n = 0
  <2>1. q = <<-1>>
    BY <1>7, <1>8
  <2>2. QED
    BY <1>6, <2>1, NoCalls
<1>9. CASE n # 0
  <2>1. \A j \in 2 .. n : CallIn(p, o1, st1, x1, g1, q, j) = CallIn(p, o, st, x, g, q, j)
    <3> SUFFICES ASSUME NEW j \in 2 .. Len(q) - 1
                 PROVE  CallIn(p, o1, st1, x1, g1, q, j) = CallIn(p, o, st, x, g, q, j)
      BY <1>n
    <3>1. \A c \in A : c <= m => Remains(Vec(c)) /\ \A i \in 0 .. c : stack'[i] = stack[i]
      BY <1>2
    <3>2. Len(q) >= Len(q) /\ Len(q) \in Nat /\ \A i \in 1 .. Len(q) : q[i] = q[i] /\ q[i] = q[i]
      BY <1>7
    <3>3. CallIn(p, obj', stack', x1, g1, q, j) = CallIn(p, obj, stack, x, g, q, j)
      BY <1>3, <1>5, <3>1, <3>2, CallsUnder
    <3>4. QED
      BY <1>5, <3>3
  <2>2. pp # -1 /\ pp \in A
    <3>1. n + 1 \in 2 .. Len(q)
      BY <1>7, <1>9
    <3>2. pp \in A
      BY <1>7, <1>m, <3>1 DEF Chained
    <3>3. QED
      BY <1>2, <3>2
  <2>3. CapturedIn(o1, g1) = CapturedIn(o, g)
    BY <1>5, <2>2
  <2>4. FuncIn(p.funcs, x1) = FuncIn(p.funcs, x)
    BY <1>5, <2>2 DEF FuncAt, Funcs
  <2>5. st1[q[n + 1]] = st[q[n + 1]]
    <3>1. pp \in 0 .. pp
      BY <1>2, <2>2
    <3>2. QED
      BY <1>5, <1>7, <1>m, <3>1
  <2>c. PICK cs, ct : cs = CallStack /\ ct = CallStack'
    OBVIOUS
  <2>6. /\ cs = [i \in 1 .. n |-> CallIn(p, o, st, x, g, q, i + 1)]
        /\ ct = [i \in 1 .. n |-> CallIn(p, o1, st1, x1, g1, q, i + 1)]
    BY <1>6, <1>n, <2>c DEF CallsIn
  <2>7. /\ cs = [i \in 1 .. n |-> cs[i]] /\ ct = [i \in 1 .. n |-> ct[i]]
        /\ n \in 1 .. n
    BY <1>7, <1>9, <2>6
  <2>8. \A i \in 1 .. n - 1 : ct[i] = cs[i]
    <3> SUFFICES ASSUME NEW i \in 1 .. n - 1
                 PROVE  ct[i] = cs[i]
      OBVIOUS
    <3>1. i \in 1 .. n /\ i + 1 \in 2 .. n
      BY <1>7
    <3>2. QED
      BY <2>1, <2>6, <3>1
  <2>f. PICK f, b, v, a, a1 :
          /\ f = FuncIn(p.funcs, x).uid /\ b = st[q[n + 1]].val /\ v = CapturedIn(o, g)
          /\ a = [k \in 1 .. FuncIn(p.funcs, x).params |-> st[q[n + 1] + k].val]
          /\ a1 = [k \in 1 .. FuncIn(p.funcs, x).params |-> st1[q[n + 1] + k].val]
    OBVIOUS
  <2>9. ct[n] = [cs[n] EXCEPT !.args = ct[n].args]
    <3>1. cs[n] = CallIn(p, o, st, x, g, q, n + 1) /\ ct[n] = CallIn(p, o1, st1, x1, g1, q, n + 1)
      BY <2>6, <2>7
    <3>2. FuncAtCall(p, st, x, q, n + 1) = FuncIn(p.funcs, x) /\ VecAtCall(st, g, q, n + 1) = g
      BY <1>7 DEF FuncAtCall, VecAtCall
    <3>3. FuncAtCall(p, st1, x1, q, n + 1) = FuncIn(p.funcs, x) /\ VecAtCall(st1, g1, q, n + 1) = g1
      BY <1>7, <2>4 DEF FuncAtCall, VecAtCall
    <3>4. cs[n] = [func |-> f, back |-> b, captured |-> v, args |-> a]
      BY <2>f, <3>1, <3>2 DEF CallIn
    <3>5. ct[n] = [func |-> f, back |-> b, captured |-> v, args |-> a1]
      BY <2>3, <2>5, <2>f, <3>1, <3>3 DEF CallIn
    <3>6. a1 = ct[n].args
      BY <3>5
    <3>7. [cs[n] EXCEPT !.args = a1] = [func |-> f, back |-> b, captured |-> v, args |-> a1]
      BY <3>4
    <3>8. QED
      BY <3>5, <3>6, <3>7
  <2>10. ct = [cs EXCEPT ![n].args = ct[n].args] /\ Len(cs) = n /\ Len(ct) = n /\ cs # << >>
    BY <1>7, <1>9, <2>7, <2>8, <2>9, AgainIs
  <2>11. Calls!Again
    BY <2>10, <2>c DEF Calls!Again
  <2>12. QED
    BY <2>11 DEF Calls!Next
<1>10. QED
  BY <1>8, <1>9

LEMMA SameCalls ==
  ASSUME MemInv, running = "RUNNING", NEW F \in SUBSET Int, NEW A \in SUBSET Int, FrameInv(F, A), Held(F),
         UNCHANGED <<prog, pp, gp>>, FuncAt(ip') = FuncAt(ip), Remains(gp),
         \A c \in A : Remains(Vec(c)), \A i \in 0 .. pp : stack'[i] = stack[i]
  PROVE  [Calls!Next]_CallStack
<1>1. pp # -1 => CapturedIn(obj', gp') = CapturedIn(obj, gp)
  <2> SUFFICES ASSUME pp # -1
               PROVE  CapturedIn(obj', gp) = CapturedIn(obj, gp)
    OBVIOUS
  <2>1. IsVector(gp, FuncAt(ip).captures)
    BY DEF MemInv, FrameInv, Here, VectorFor
  <2>2. QED
    BY <2>1, RemainsCaptured
<1>2. QED
  BY <1>1, KeepsCalls

\* What a frame refers to remains, when all the stack refers to does.
LEMMA VectorsRemain ==
  ASSUME MemInv, running = "RUNNING", NEW F \in SUBSET Int, NEW A \in SUBSET Int, FrameInv(F, A),
         NEW m \in Int, \A i \in 0 .. m : stack[i].type = "ADDR" => Remains(stack[i].val)
  PROVE  \A c \in F : c <= m => Remains(Vec(c))
<1> SUFFICES ASSUME NEW c \in F, c <= m
             PROVE  Remains(Vec(c))
  OBVIOUS
<1>0. Inv
  BY DEF MemInv
<1>1. sp \in Int /\ c \in 4 .. sp /\ Linked(F, A, c)
  BY <1>0, FrameFacts
<1>2. c - 2 \in 0 .. m /\ stack[c - 2].type = "ADDR"
  <2>1. c \in Int /\ 4 <= c
    BY <1>1
  <2>2. stack[c - 2].type = "ADDR"
    BY <1>1, Zenon DEF Linked
  <2>3. c - 2 \in 0 .. m
    BY <2>1
  <2>4. QED
    BY <2>2, <2>3
<1>3. QED
  BY <1>2 DEF Vec

\* Two ways to read the same call.
LEMMA CallSame ==
  ASSUME NEW p, NEW o, NEW st, NEW x, NEW g, NEW bs, NEW o1, NEW st1, NEW x1, NEW g1, NEW bt, NEW j,
         FuncAtCall(p, st1, x1, bt, j) = FuncAtCall(p, st, x, bs, j),
         CapturedIn(o1, VecAtCall(st1, g1, bt, j)) = CapturedIn(o, VecAtCall(st, g, bs, j)),
         bt[j] = bs[j], st1[bs[j]] = st[bs[j]],
         \A k \in 1 .. FuncAtCall(p, st, x, bs, j).params : st1[bs[j] + k] = st[bs[j] + k]
  PROVE  CallIn(p, o1, st1, x1, g1, bt, j) = CallIn(p, o, st, x, g, bs, j)
<1>f. PICK f, b : f = FuncAtCall(p, st, x, bs, j) /\ b = bs[j]
  OBVIOUS
<1>1. [k \in 1 .. f.params |-> st1[b + k].val] = [k \in 1 .. f.params |-> st[b + k].val]
  BY <1>f
<1>2. QED
  BY <1>1, <1>f DEF CallIn

\* One call more is on top of the others.
LEMMA CallsLonger ==
  ASSUME NEW p, NEW o, NEW st, NEW x, NEW g, NEW bs, NEW o1, NEW st1, NEW x1, NEW g1, NEW bt,
         Len(bs) \in Nat, Len(bs) # 0, Len(bt) = Len(bs) + 1,
         \A j \in 2 .. Len(bs) : CallIn(p, o1, st1, x1, g1, bt, j) = CallIn(p, o, st, x, g, bs, j)
  PROVE  /\ Len(CallsIn(p, o, st, x, g, bs)) = Len(bs) - 1 /\ Len(CallsIn(p, o1, st1, x1, g1, bt)) = Len(bs)
         /\ SubSeq(CallsIn(p, o1, st1, x1, g1, bt), 1, Len(bs) - 1) = CallsIn(p, o, st, x, g, bs)
<1>n. PICK n : n = Len(bs) - 1
  OBVIOUS
<1>0. n \in Nat /\ Len(bs) = n + 1 /\ Len(bt) = n + 2
  BY <1>n
<1>c. PICK cs, ct : /\ cs = [i \in 1 .. n |-> CallIn(p, o, st, x, g, bs, i + 1)]
                    /\ ct = [i \in 1 .. n + 1 |-> CallIn(p, o1, st1, x1, g1, bt, i + 1)]
  OBVIOUS
<1>1. cs = CallsIn(p, o, st, x, g, bs) /\ ct = CallsIn(p, o1, st1, x1, g1, bt)
  <2>1. Len(bs) - 1 = n /\ Len(bt) - 1 = n + 1
    BY <1>0
  <2>2. QED
    BY <1>c, <2>1 DEF CallsIn
<1>2. cs = [i \in 1 .. n |-> cs[i]] /\ ct = [i \in 1 .. n + 1 |-> ct[i]]
  BY <1>0, <1>c
<1>3. Len(cs) = n /\ Len(ct) = n + 1
  BY <1>0, <1>2
<1>4. \A i \in 1 .. n : ct[i] = cs[i]
  <2> SUFFICES ASSUME NEW i \in 1 .. n
               PROVE  ct[i] = cs[i]
    OBVIOUS
  <2>1. i \in 1 .. n + 1 /\ i + 1 \in 2 .. Len(bs)
    BY <1>0
  <2>2. QED
    BY <1>c, <2>1
<1>5. SubSeq(ct, 1, n) = cs
  <2>1. SubSeq(ct, 1, n) = [i \in 1 .. n |-> ct[i]]
    BY <1>0, <1>2, <1>3
  <2>2. [i \in 1 .. n |-> ct[i]] = [i \in 1 .. n |-> cs[i]]
    BY <1>4
  <2>3. QED
    BY <1>2, <2>1, <2>2
<1>6. QED
  BY <1>0, <1>1, <1>3, <1>5

\* The youngest frame, which no activation has yet, becomes that of a call.
LEMMA BeginsCall ==
  ASSUME MemInv, running = "RUNNING", NEW F \in SUBSET Int, NEW A \in SUBSET Int, FrameInv(F, A), Held(F),
         UNCHANGED <<prog, obj, stack>>, fp # pp, pp' = fp
  PROVE  [Calls!Next]_CallStack
<1>0. Inv
  BY DEF MemInv
<1>1. /\ sp \in Int /\ fp \in F /\ fp \in Int /\ pp < fp /\ F \subseteq 4 .. sp /\ A \subseteq F /\ sp < StackSize
      /\ StackSize \in Nat /\ Linked(F, A, fp) /\ Owned(F, A)
  BY <1>0, FrameFacts
<1>2. /\ A \in SUBSET (4 .. StackSize - 1) /\ pp \in A \cup {-1} /\ pp \in Int /\ (\A a \in A : a <= pp)
      /\ Activations = LinkedFrom(4)[pp]
  BY WalkFacts
<1>c. PICK c \in Int : c = fp
  BY <1>1
<1>m. PICK m \in Int : m = pp
  BY <1>2
<1>3. c \in Int /\ 4 <= c /\ m < c /\ Base(c) = m /\ Vec(c) = gp /\ FuncAt(Back(c)) = FuncAt(ip)
  <2>1. Vec(c) = gp /\ FuncAt(Back(c)) = FuncAt(ip)
    BY <1>1, <1>2, <1>c DEF Owned
  <2>2. IsGreatest(Base(c), A, c)
    BY <1>1, <1>c DEF Linked
  <2>3. Base(c) = m
    <3>b. PICK b : b = Base(c)
      OBVIOUS
    <3>1. b \in A \cup {-1} /\ b < c /\ \A d \in A : d < c => d <= b
      BY <2>2, <3>b DEF IsGreatest
    <3>2. m \in A \cup {-1} /\ m < c /\ \A d \in A : d \in Int /\ 4 <= d /\ d <= m
      BY <1>1, <1>2, <1>c, <1>m
    <3>3. b = m
      BY <3>1, <3>2
    <3>4. QED
      BY <3>b, <3>3
  <2>4. QED
    BY <1>1, <1>c, <1>m, <2>1, <2>3
<1>q. PICK q, bt : q = Activations /\ bt = Activations'
  OBVIOUS
<1>4. LinkedFrom(4)'[m] = q /\ IsWalk(4, A, m, q)
  BY <1>2, <1>m, <1>q, WalkSame
<1>5. bt = Append(q, c)
  <2>1. PICK st, f : st = stack' /\ f = LinkedFrom(4)'
    OBVIOUS
  <2>2. Follows(st, f)
    BY <2>1, FollowsThen DEF Follows
  <2>3. PICK S : S = A \cup {c}
    OBVIOUS
  <2>4. S \in SUBSET (4 .. StackSize - 1) /\ c \in S
    BY <1>1, <1>2, <1>c, <2>3
  <2>5. st[c - 4].val = m /\ IsGreatest(m, S, c)
    BY <1>2, <1>3, <1>m, <2>1, <2>3 DEF IsGreatest, Base
  <2>6. f[c] = Append(f[m], c)
    BY <2>2, <2>4, <2>5, FollowsStep
  <2>7. bt = LinkedFrom(4)'[c]
    BY <1>c, <1>q DEF Activations
  <2>8. QED
    BY <1>4, <2>1, <2>6, <2>7
<1>n. PICK n : n = Len(q) - 1
  OBVIOUS
<1>6. q \in Seq(Int) /\ n \in Nat /\ Len(q) = n + 1 /\ q[n + 1] = m /\ Chained(q) = {a \in A : a <= m}
  BY <1>4, <1>n DEF IsWalk
<1>7. Len(bt) = n + 2 /\ bt[n + 2] = c /\ \A i \in 1 .. n + 1 : bt[i] = q[i]
  BY <1>5, <1>6
<1>8. PICK p, o, st, x, g, o1, st1, x1, g1 :
        /\ p = prog /\ o = obj /\ st = stack /\ x = ip /\ g = gp
        /\ o1 = obj' /\ st1 = stack' /\ x1 = ip' /\ g1 = gp'
  OBVIOUS
<1>9. CallStack = CallsIn(p, o, st, x, g, q) /\ CallStack' = CallsIn(p, o1, st1, x1, g1, bt)
  BY <1>8, <1>q, CallStacks
<1>10. ASSUME NEW j \in 2 .. n + 1 PROVE CallIn(p, o1, st1, x1, g1, bt, j) = CallIn(p, o, st, x, g, q, j)
  <2>1. CASE j # n + 1
    <3>1. j \in 2 .. Len(q) - 1
      BY <1>6, <2>1
    <3>2. \A a \in A : a <= m => Remains(Vec(a)) /\ \A i \in 0 .. a : stack'[i] = stack[i]
      BY DEF Remains, Allocated
    <3>3. /\ Len(q) >= Len(q) /\ Len(bt) >= Len(q) /\ Len(q) \in Nat /\ Len(bt) \in Nat
          /\ \A i \in 1 .. Len(q) : q[i] = q[i] /\ bt[i] = q[i]
      BY <1>6, <1>7
    <3>4. CallIn(p, obj', stack', x1, g1, bt, j) = CallIn(p, obj, stack, x, g, q, j)
      BY <1>4, <1>8, <3>1, <3>2, <3>3, CallsUnder
    <3>5. QED
      BY <1>8, <3>4
  <2>2. CASE j = n + 1
    <3>1. j = Len(q) /\ j # Len(bt) /\ bt[j + 1] = c /\ q[j] = m /\ bt[j] = m
      BY <1>6, <1>7, <2>2
    <3>f. PICK f : f = FuncIn(p.funcs, x)
      OBVIOUS
    <3>2. f = FuncAtCall(p, st, x, q, j) /\ f = FuncAtCall(p, st1, x1, bt, j)
      BY <1>3, <1>8, <3>1, <3>f DEF FuncAtCall, FuncAt, Funcs, Back
    <3>3. VecAtCall(st, g, q, j) = g /\ VecAtCall(st1, g1, bt, j) = g
      BY <1>3, <1>8, <3>1 DEF VecAtCall, Vec
    <3>4. o1 = o /\ st1 = st
      BY <1>8
    <3>5. CapturedIn(o1, VecAtCall(st1, g1, bt, j)) = CapturedIn(o, VecAtCall(st, g, q, j))
      BY <3>3, <3>4
    <3>6. FuncAtCall(p, st1, x1, bt, j) = FuncAtCall(p, st, x, q, j) /\ bt[j] = q[j] /\ st1[q[j]] = st[q[j]]
      BY <3>1, <3>2, <3>4
    <3>s. \A k \in 1 .. FuncAtCall(p, st, x, q, j).params : st1[q[j] + k] = st[q[j] + k]
      BY <3>4
    <3>7. QED
      BY <3>5, <3>6, <3>s, CallSame
  <2>3. QED
    BY <2>1, <2>2
<1>11. /\ Len(CallStack) = n /\ Len(CallStack') = n + 1
       /\ SubSeq(CallStack', 1, n) = CallStack
  <2>1. \A j \in 2 .. Len(q) : CallIn(p, o1, st1, x1, g1, bt, j) = CallIn(p, o, st, x, g, q, j)
    BY <1>6, <1>10
  <2>2. Len(q) \in Nat /\ Len(q) # 0 /\ Len(bt) = Len(q) + 1 /\ Len(q) - 1 = n
    BY <1>6, <1>7
  <2>3. /\ Len(CallsIn(p, o, st, x, g, q)) = Len(q) - 1 /\ Len(CallsIn(p, o1, st1, x1, g1, bt)) = Len(q)
        /\ SubSeq(CallsIn(p, o1, st1, x1, g1, bt), 1, Len(q) - 1) = CallsIn(p, o, st, x, g, q)
    BY <2>1, <2>2, CallsLonger
  <2>4. QED
    BY <1>6, <1>9, <2>2, <2>3
<1>12. Calls!Call
  BY <1>11 DEF Calls!Call
<1>13. QED
  BY <1>12 DEF Calls!Next

\* The youngest frame goes, and it is that of the running call.
LEMMA EndsCall ==
  ASSUME MemInv, running = "RUNNING", NEW F \in SUBSET Int, NEW A \in SUBSET Int, FrameInv(F, A), Held(F),
         prog' = prog, pp # -1, pp' = Base(pp), gp' = Vec(pp), FuncAt(ip') = FuncAt(Back(pp)),
         Remains(Vec(pp)), \A c \in A : c <= Base(pp) => Remains(Vec(c)),
         \A i \in 0 .. pp - 5 : stack'[i] = stack[i]
  PROVE  [Calls!Next]_CallStack
<1>1. /\ A \in SUBSET (4 .. StackSize - 1) /\ pp \in A /\ pp \in Int /\ (\A a \in A : a <= pp)
      /\ Activations = LinkedFrom(4)[pp] /\ \A a \in A : IsGreatest(stack[a - 4].val, A, a)
  BY WalkFacts
<1>c. PICK c \in A : c = pp
  BY <1>1
<1>m. PICK m : m = Base(c)
  OBVIOUS
<1>2. c \in Int /\ 4 <= c /\ m \in A \cup {-1} /\ m \in Int /\ m < c - 4
  <2>1. Inv
    BY DEF MemInv
  <2>2. F \subseteq 4 .. sp /\ A \subseteq F /\ Linked(F, A, c) /\ c \in Int /\ sp \in Int
    BY <2>1, FrameFacts
  <2>3. Base(c) \in A \cup {-1} /\ Base(c) \in Int /\ Prev(c) \in Int /\ Base(c) <= Prev(c) /\ Prev(c) < c - 4
    BY <2>1, <2>2, LinkFacts
  <2>4. QED
    BY <1>1, <1>m, <2>2, <2>3, SizesAssumption
<1>3. \A a \in A : a <= m => \A i \in 0 .. a : stack'[i] = stack[i]
  <2> SUFFICES ASSUME NEW a \in A, a <= m, NEW i \in 0 .. a
               PROVE  stack'[i] = stack[i]
    OBVIOUS
  <2>1. a \in Int /\ i \in 0 .. pp - 5
    <3>1. a \in Int /\ c = pp
      BY <1>1, <1>c, SizesAssumption
    <3>2. QED
      BY <1>2, <3>1
  <2>2. QED
    BY <2>1
<1>q. PICK q, bs : q = Activations' /\ bs = Activations
  OBVIOUS
<1>4. q = LinkedFrom(4)[m] /\ IsWalk(4, A, m, q)
  <2>1. \A a \in A : a <= m => stack'[a - 4] = stack[a - 4]
    <3> SUFFICES ASSUME NEW a \in A, a <= m
                 PROVE  stack'[a - 4] = stack[a - 4]
      OBVIOUS
    <3>1. a - 4 \in 0 .. a
      BY <1>1, SizesAssumption
    <3>2. QED
      BY <1>3, <3>1
  <2>2. LinkedFrom(4)'[m] = LinkedFrom(4)[m] /\ IsWalk(4, A, m, LinkedFrom(4)[m])
    BY <1>2, <2>1, WalkSame
  <2>3. QED
    BY <1>c, <1>m, <1>q, <2>2 DEF Activations
<1>5. bs = Append(q, c)
  <2>1. PICK st, f : st = stack /\ f = LinkedFrom(4)
    OBVIOUS
  <2>2. Follows(st, f)
    BY <2>1, FollowsNow DEF Follows
  <2>3. st[c - 4].val = m /\ IsGreatest(st[c - 4].val, A, c)
    BY <1>1, <1>m, <2>1 DEF Base
  <2>4. f[c] = Append(f[m], c)
    BY <1>1, <2>2, <2>3, FollowsStep
  <2>5. QED
    BY <1>1, <1>4, <1>c, <1>q, <2>1, <2>4
<1>n. PICK n : n = Len(q) - 1
  OBVIOUS
<1>6. q \in Seq(Int) /\ n \in Nat /\ Len(q) = n + 1 /\ q[n + 1] = m /\ Chained(q) = {a \in A : a <= m}
  BY <1>4, <1>n DEF IsWalk
<1>7. Len(bs) = n + 2 /\ bs[n + 2] = c /\ \A i \in 1 .. n + 1 : bs[i] = q[i]
  BY <1>5, <1>6
<1>8. PICK p, o, st, x, g, o1, st1, x1, g1 :
        /\ p = prog /\ o = obj /\ st = stack /\ x = ip /\ g = gp
        /\ o1 = obj' /\ st1 = stack' /\ x1 = ip' /\ g1 = gp'
  OBVIOUS
<1>9. CallStack = CallsIn(p, o, st, x, g, bs) /\ CallStack' = CallsIn(p, o1, st1, x1, g1, q)
  BY <1>8, <1>q, CallStacks
<1>10. ASSUME NEW j \in 2 .. n + 1 PROVE CallIn(p, o, st, x, g, bs, j) = CallIn(p, o1, st1, x1, g1, q, j)
  <2>1. CASE j # n + 1
    <3>1. j \in 2 .. Len(q) - 1
      BY <1>6, <2>1
    <3>2. \A a \in A : a <= m => Remains(Vec(a)) /\ \A i \in 0 .. a : stack'[i] = stack[i]
      BY <1>3, <1>c, <1>m
    <3>3. /\ Len(bs) >= Len(q) /\ Len(q) >= Len(q) /\ Len(bs) \in Nat /\ Len(q) \in Nat
          /\ \A i \in 1 .. Len(q) : bs[i] = q[i] /\ q[i] = q[i]
      BY <1>6, <1>7
    <3>4. CallIn(p, obj', stack', x1, g1, q, j) = CallIn(p, obj, stack, x, g, bs, j)
      BY <1>4, <1>8, <3>1, <3>2, <3>3, CallsUnder
    <3>5. QED
      BY <1>8, <3>4
  <2>2. CASE j = n + 1
    <3>1. j = Len(q) /\ j # Len(bs) /\ bs[j + 1] = c /\ q[j] = m /\ bs[j] = m /\ m \in A
      <4>1. n + 1 \in 2 .. Len(q)
        BY <1>6, <2>2
      <4>2. m \in A
        BY <1>6, <4>1 DEF Chained
      <4>3. QED
        BY <1>6, <1>7, <2>2, <4>2
    <3>f. PICK f : f = FuncIn(p.funcs, st[c].val)
      OBVIOUS
    <3>2. f = FuncAtCall(p, st, x, bs, j) /\ f = FuncAtCall(p, st1, x1, q, j)
      BY <1>8, <1>c, <3>1, <3>f DEF FuncAtCall, FuncAt, Funcs, Back
    <3>3. VecAtCall(st, g, bs, j) = g1 /\ VecAtCall(st1, g1, q, j) = g1
      BY <1>8, <1>c, <3>1 DEF VecAtCall, Vec
    <3>4. /\ ParamsAt(prog, Back(c)) \in Nat /\ Base(c) + ParamsAt(prog, Back(c)) < c - 4
          /\ IsVector(Vec(c), FuncAt(Back(c)).captures) /\ 4 <= m
      <4>1. Base(c) # -1
        BY <1>1, <1>m, <3>1, SizesAssumption
      <4>2. QED
        BY <1>m, <4>1, WaitingFacts
    <3>5. CapturedIn(o1, g1) = CapturedIn(o, g1)
      <4>1. CapturedIn(obj', Vec(c)) = CapturedIn(obj, Vec(c))
        BY <1>c, <3>4, RemainsCaptured
      <4>2. QED
        BY <1>8, <1>c, <4>1
    <3>6. st1[m] = st[m] /\ \A k \in 1 .. f.params : st1[m + k] = st[m + k]
      <4>1. f.params = ParamsAt(prog, Back(c))
        BY <1>8, <3>f DEF ParamsAt, Back
      <4>2. m \in 0 .. c - 5 /\ \A k \in 1 .. f.params : m + k \in 0 .. c - 5
        BY <1>2, <1>m, <3>4, <4>1
      <4>3. QED
        BY <1>8, <1>c, <4>2
    <3>7. CapturedIn(o, VecAtCall(st, g, bs, j)) = CapturedIn(o1, VecAtCall(st1, g1, q, j))
      BY <3>3, <3>5
    <3>8. FuncAtCall(p, st, x, bs, j) = FuncAtCall(p, st1, x1, q, j) /\ bs[j] = q[j] /\ st[q[j]] = st1[q[j]]
      BY <3>1, <3>2, <3>6
    <3>s. \A k \in 1 .. FuncAtCall(p, st1, x1, q, j).params : st[q[j] + k] = st1[q[j] + k]
      BY <3>1, <3>2, <3>6
    <3>9. QED
      BY <3>7, <3>8, <3>s, CallSame
  <2>3. QED
    BY <2>1, <2>2
<1>11. /\ Len(CallStack') = n /\ Len(CallStack) = n + 1
       /\ SubSeq(CallStack, 1, n) = CallStack'
  <2>1. \A j \in 2 .. Len(q) : CallIn(p, o, st, x, g, bs, j) = CallIn(p, o1, st1, x1, g1, q, j)
    BY <1>6, <1>10
  <2>2. Len(q) \in Nat /\ Len(q) # 0 /\ Len(bs) = Len(q) + 1 /\ Len(q) - 1 = n
    BY <1>6, <1>7
  <2>3. /\ Len(CallsIn(p, o1, st1, x1, g1, q)) = Len(q) - 1 /\ Len(CallsIn(p, o, st, x, g, bs)) = Len(q)
        /\ SubSeq(CallsIn(p, o, st, x, g, bs), 1, Len(q) - 1) = CallsIn(p, o1, st1, x1, g1, q)
    BY <2>1, <2>2, CallsLonger
  <2>4. QED
    BY <1>6, <1>9, <2>2, <2>3
<1>12. CallStack # << >> /\ Len(CallStack) - 1 = n
  BY <1>6, <1>11
<1>13. Calls!End
  BY <1>11, <1>12 DEF Calls!End
<1>14. QED
  BY <1>13 DEF Calls!Next

-----------------------------------------------------------------------------
(***************************************************************************)
(* What a step does to the values on the stack.                            *)
(***************************************************************************)

\* Two chains that are followed by the same entries are the same below a frame of
\* both.
LEMMA ChainBelow ==
  ASSUME NEW n \in Nat, NEW F \in SUBSET (4 .. n), NEW G \in SUBSET (4 .. n), NEW prev, NEW m,
         m \in F \cup {-1}, m \in G \cup {-1},
         \A c \in F : c <= m => IsGreatest(prev[c], F, c),
         \A c \in G : c <= m => prev[c] \in G \cup {-1}
  PROVE  \A c \in F : c <= m => c \in G
<1> DEFINE D == {c \in F : c <= m /\ c \notin G}
<1> SUFFICES ASSUME D # {}
             PROVE  FALSE
  OBVIOUS
<1>0. (\A c \in F : c \in Nat /\ 4 <= c /\ c <= n) /\ (m \in Int)
  OBVIOUS
<1>1. PICK d \in D : \A c \in D : c <= d
  <2> DEFINE K == {k \in Nat : n - k \in D}
  <2>1. K # {}
    <3>1. PICK c \in D : TRUE
      OBVIOUS
    <3>2. n - c \in Nat /\ n - (n - c) = c
      BY <1>0
    <3>3. QED
      BY <3>2
  <2>2. PICK k \in K : \A j \in K : ~(<<j, k>> \in OpToRel(<, Nat))
    BY <2>1, WFMin, NatLessThanWellFounded
  <2>3. \A j \in K : ~(j < k)
    BY <2>2 DEF OpToRel
  <2>4. \A c \in D : c <= n - k
    <3> SUFFICES ASSUME NEW c \in D
                 PROVE  c <= n - k
      OBVIOUS
    <3>1. c \in Nat /\ c <= n /\ n - c \in Nat /\ n - (n - c) = c
      BY <1>0
    <3>2. n - c \in K
      BY <3>1
    <3>3. ~(n - c < k)
      BY <2>3, <3>2
    <3>4. k \in Nat
      OBVIOUS
    <3>5. QED
      BY <3>1, <3>3, <3>4
  <2>5. QED
    BY <2>4
<1>2. d \in F /\ d < m /\ d \notin G /\ m \in F /\ 4 <= d /\ d \in Nat
  BY <1>0
<1> DEFINE E == {c \in F : d < c /\ c <= m}
<1>3. PICK e \in E : \A c \in E : ~(c < e)
  <2>1. m \in E /\ E \subseteq Nat
    <3>1. m \in F /\ d < m /\ m <= m
      BY <1>0, <1>2
    <3>2. m \in E
      BY <3>1
    <3>3. QED
      BY <1>0, <3>2
  <2>2. PICK e \in E : \A c \in E : ~(<<c, e>> \in OpToRel(<, Nat))
    BY <2>1, WFMin, NatLessThanWellFounded
  <2>3. QED
    BY <2>1, <2>2 DEF OpToRel
<1>4. e \in F /\ d < e /\ e <= m /\ e \in Nat
  BY <1>0
<1>5. e \in G
  <2>1. e \notin D
    BY <1>1, <1>2, <1>4
  <2>2. QED
    BY <1>4, <2>1
<1>p. PICK p : p = prev[e]
  OBVIOUS
<1>6. p \in F \cup {-1} /\ p < e /\ d <= p
  BY <1>2, <1>4, <1>p DEF IsGreatest
<1>7. p = d
  <2>1. p \in F /\ p <= m
    BY <1>0, <1>2, <1>4, <1>6
  <2>2. ~(d < p)
    BY <1>3, <1>6, <2>1
  <2>3. QED
    BY <1>0, <1>2, <1>6, <2>1, <2>2
<1>8. QED
  BY <1>2, <1>4, <1>5, <1>7, <1>p

LEMMA RemainsVectorFor ==
  ASSUME NEW v, NEW x, Remains(v), prog' = prog, VectorFor(v, x)
  PROVE  VectorFor(v, x)'
BY DEF Remains, VectorFor, Exists, IsVector, InFunction, FuncAt, Funcs

LEMMA AboveIs ==
  ASSUME NEW a \in Int, NEW b \in Int, NEW i \in 0 .. b, i > a
  PROVE  i \in a + 1 .. b
OBVIOUS

\* A step that leaves the stack up to the frame m as it is, with m the youngest.
LEMMA KeptStep ==
  ASSUME MemInv, Inv', running = "RUNNING", running' = "RUNNING", prog' = prog, HeapOK',
         NEW m \in Int, m = fp', m <= sp,
         \A F, A \in SUBSET Int : FrameInv(F, A) => m \in F \cup {-1},
         \A i \in 0 .. m : stack'[i] = stack[i] /\ (stack[i].type = "ADDR" => Remains(stack[i].val)),
         \A i \in m + 1 .. sp' : stack'[i].type = "ADDR" => stack'[i].val \in Allocated',
         VectorFor(gp, ip)'
  PROVE  MemInv'
<1>1. PICK F \in SUBSET Int, A \in SUBSET Int : FrameInv(F, A) /\ Held(F)
  BY DEF MemInv
<1>2. PICK G \in SUBSET Int, B \in SUBSET Int : FrameInv(G, B)'
  BY DEF Inv
<1>3. /\ sp \in Int /\ sp < StackSize /\ StackSize \in Nat
      /\ F \subseteq 4 .. sp /\ A \subseteq F /\ m \in F \cup {-1}
      /\ \A c \in F : Linked(F, A, c)
  BY <1>1, FrameFacts DEF MemInv
<1>4. /\ G \subseteq 4 .. sp' /\ sp' \in Int /\ sp' < StackSize /\ m \in G \cup {-1}
      /\ (\A c \in G : c <= m)
      /\ \A c \in G : Linked(G, B, c)'
  <2>1. sp' \in Int /\ sp' < StackSize
    BY SizesAssumption DEF Inv, Basics
  <2>2. IsGreatest(fp', G, sp' + 1) /\ G \subseteq 4 .. sp'
    BY <1>2 DEF FrameInv
  <2>3. \A c \in G : Linked(G, B, c)'
    BY <1>2 DEF FrameInv
  <2>4. \A c \in G : c \in Int /\ c < sp' + 1
    BY <2>1, <2>2
  <2>5. \A c \in G : c <= m
    BY <2>2, <2>4 DEF IsGreatest
  <2>6. QED
    BY <2>1, <2>2, <2>3, <2>5 DEF IsGreatest
<1>5. \A c \in G : c \in F
  <2>1. PICK n : n = StackSize
    OBVIOUS
  <2>2. n \in Nat /\ F \in SUBSET (4 .. n) /\ G \in SUBSET (4 .. n)
    BY <1>3, <1>4, <2>1
  <2>3. PICK prev : prev = [c \in Int |-> stack[c - 1].val]
    OBVIOUS
  <2>4. \A c \in G : IsGreatest(prev[c], G, c)
    <3> SUFFICES ASSUME NEW c \in G
                 PROVE  IsGreatest(prev[c], G, c)
      OBVIOUS
    <3>1. c - 1 \in 0 .. m /\ c \in Int
      BY <1>4
    <3>2. prev[c] = Prev(c)'
      BY <2>3, <3>1 DEF Prev
    <3>3. QED
      BY <1>4, <3>2 DEF Linked
  <2>5. \A c \in F : prev[c] \in F \cup {-1}
    BY <1>3, <2>3 DEF Linked, IsGreatest, Prev
  <2>6. \A c \in G : c <= m => c \in F
    BY <1>3, <1>4, <2>2, <2>4, <2>5, ChainBelow
  <2>7. QED
    BY <1>4, <2>6
<1>6. \A c \in F : c <= m => c \in G
  <2>1. PICK n : n = StackSize
    OBVIOUS
  <2>2. n \in Nat /\ F \in SUBSET (4 .. n) /\ G \in SUBSET (4 .. n)
    BY <1>3, <1>4, <2>1
  <2>3. PICK prev : prev = [c \in Int |-> stack[c - 1].val]
    OBVIOUS
  <2>4. \A c \in F : IsGreatest(prev[c], F, c)
    BY <1>3, <2>3 DEF Linked, Prev
  <2>5. \A c \in G : prev[c] \in G \cup {-1}
    <3> SUFFICES ASSUME NEW c \in G
                 PROVE  prev[c] \in G \cup {-1}
      OBVIOUS
    <3>1. c - 1 \in 0 .. m /\ c \in Int
      BY <1>4
    <3>2. prev[c] = Prev(c)'
      BY <2>3, <3>1 DEF Prev
    <3>3. QED
      BY <1>4, <3>2 DEF Linked, IsGreatest
  <2>6. m \in F \cup {-1} /\ m \in G \cup {-1}
    BY <1>3, <1>4
  <2>7. QED
    BY <2>2, <2>4, <2>5, <2>6, ChainBelow, ZenonT(30)
<1>7. ASSUME NEW i \in 0 .. sp', Outside(G, i), stack'[i].type = "ADDR"
      PROVE  stack'[i].val \in Allocated'
  <2>1. CASE i <= m
    <3>1. Outside(F, i)
      <4> SUFFICES ASSUME NEW c \in F, c > m
                   PROVE  i < c - 4
        BY <1>6, <1>7, <1>3 DEF Outside
      <4>1. c \in Int /\ Linked(F, A, c)
        BY <1>3
      <4>2. /\ \A d \in F : d < c => d <= Prev(c)
            /\ Prev(c) < c - 4 /\ Prev(c) \in Int /\ -1 <= Prev(c)
        BY <1>3, <4>1, LinkFacts DEF MemInv
      <4>3. m <= Prev(c)
        BY <1>3, <4>1, <4>2
      <4>4. QED
        BY <2>1, <4>1, <4>2, <4>3
    <3>2. i \in 0 .. m /\ i \in 0 .. sp
      BY <1>3, <2>1
    <3>3. stack'[i] = stack[i]
      BY <3>2
    <3>4. stack[i].val \in Allocated /\ Remains(stack[i].val)
      BY <1>1, <1>7, <3>1, <3>2, <3>3 DEF Held
    <3>5. QED
      BY <3>3, <3>4 DEF Remains
  <2>2. CASE i > m
    <3>1. sp' \in Int
      BY <1>4
    <3>2. i \in m + 1 .. sp'
      BY <2>2, <3>1, AboveIs
    <3>3. QED
      BY <1>7, <3>2
  <2>3. QED
    BY <2>1, <2>2
<1>8. ASSUME NEW c \in G PROVE VectorFor(Vec(c), Back(c))'
  <2>1. c \in F /\ c \in 0 .. m /\ c - 2 \in 0 .. m
    BY <1>4, <1>5
  <2>v. PICK v, x : v = Vec(c) /\ x = Back(c)
    OBVIOUS
  <2>2. v = Vec(c)' /\ x = Back(c)'
    BY <2>1, <2>v DEF Vec, Back
  <2>3. Remains(v)
    BY <1>3, <2>1, <2>v DEF Linked, Vec
  <2>4. VectorFor(v, x)
    BY <1>1, <2>1, <2>v DEF Held
  <2>5. VectorFor(v, x)'
    BY <2>3, <2>4, RemainsVectorFor
  <2>6. QED
    BY <2>2, <2>5 DEF VectorFor
<1>9. Held(G)'
  BY <1>7, <1>8 DEF Held, Outside
<1>10. RootsOK'
  <2> SUFFICES ASSUME NEW i \in 0 .. sp', stack'[i].type = "ADDR"
               PROVE  Exists(stack[i].val)'
    BY DEF RootsOK, VectorFor
  <2>1. CASE Outside(G, i)
    BY <1>7, <2>1 DEF Exists
  <2>2. CASE ~Outside(G, i)
    <3>1. PICK c \in G : c - 4 <= i /\ i <= c
      BY <1>4, <2>2 DEF Outside
    <3>2. i \in {c - 4, c - 3, c - 2, c - 1, c}
      BY <1>4, <3>1
    <3>3. i = c - 2
      BY <1>4, <3>2 DEF Linked
    <3>4. QED
      BY <1>8, <3>3 DEF VectorFor, Vec
  <2>3. QED
    BY <2>1, <2>2
<1>11. QED
  BY <1>2, <1>9, <1>10 DEF MemInv

\* What is shown of every step: it keeps the invariant, and it is one of Calls or
\* changes none of the calls.
Lawful == MemInv' /\ [Calls!Next]_CallStack

\* A step that leaves the frames as they are, and no object goes.
LEMMA PlainMem ==
  ASSUME MemInv, Inv', running = "RUNNING", UNCHANGED <<fp, pp, gp, prog, running>>,
         FuncAt(ip') = FuncAt(ip), HeapOK', Grown,
         \A i \in 0 .. fp : stack'[i] = stack[i],
         \A i \in fp + 1 .. sp' : stack'[i].type = "ADDR" => stack'[i].val \in Allocated'
  PROVE  Lawful
<1>1. PICK m : m = fp
  OBVIOUS
<1>2. m \in Int /\ m <= sp
  BY <1>1 DEF MemInv, Inv, Basics
<1>3. \A F, A \in SUBSET Int : FrameInv(F, A) => m \in F \cup {-1}
  BY <1>1 DEF FrameInv, IsGreatest
<1>4. \A v : Remains(v)
  BY DEF Grown, Remains
<1>5. VectorFor(gp, ip)'
  <2>1. VectorFor(gp, ip)
    BY DEF MemInv
  <2>2. PICK v, x : v = gp /\ x = ip
    OBVIOUS
  <2>3. VectorFor(v, x)'
    BY <2>1, <2>2, GrownVectorFor
  <2>4. QED
    BY <2>2, <2>3 DEF VectorFor, InFunction, FuncAt, Funcs
<1>6. \A i \in 0 .. m : stack'[i] = stack[i] /\ (stack[i].type = "ADDR" => Remains(stack[i].val))
  BY <1>1, <1>4
<1>7. \A i \in m + 1 .. sp' : stack'[i].type = "ADDR" => stack'[i].val \in Allocated'
  BY <1>1
<1>8. m = fp' /\ running' = "RUNNING"
  BY <1>1
<1>9. MemInv'
  BY <1>2, <1>3, <1>5, <1>6, <1>7, <1>8, KeptStep
<1>10. [Calls!Next]_CallStack
  <2>1. PICK F \in SUBSET Int, A \in SUBSET Int : FrameInv(F, A) /\ Held(F)
    BY DEF MemInv
  <2>2. \A i \in 0 .. pp : stack'[i] = stack[i]
    BY DEF MemInv, Inv, Basics
  <2>3. QED
    BY <1>4, <2>1, <2>2, SameCalls
<1>11. QED
  BY <1>9, <1>10 DEF Lawful

LEMMA AboveFrames ==
  ASSUME MemInv, running = "RUNNING"
  PROVE  \A i \in fp + 1 .. sp : stack[i].type = "ADDR" => stack[i].val \in Allocated
<1>1. PICK F \in SUBSET Int, A \in SUBSET Int : FrameInv(F, A) /\ Held(F)
  BY DEF MemInv
<1>2. sp \in Int /\ fp \in Int /\ -1 <= fp /\ F \subseteq 4 .. sp /\ \A c \in F : c <= fp
  BY <1>1, FrameFacts DEF MemInv
<1>3. QED
  BY <1>1, <1>2 DEF Held, Outside

\* The operands of an instruction are values above the youngest frame.
LEMMA OperandsAbove ==
  ASSUME MemInv, running = "RUNNING", Works(prog, ip)
  PROVE  /\ Takes(prog, ip) \in Nat /\ sp \in Int /\ fp \in Int /\ -1 <= fp /\ fp <= sp - Takes(prog, ip)
         /\ \A k \in 0 .. Takes(prog, ip) - 1 : Top(k) \in Allocated
<1>1. /\ sp \in Int /\ fp \in Int /\ pp \in Int /\ -1 <= fp
  BY DEF MemInv, Inv, Basics
<1>t. PICK t : t = Takes(prog, ip)
  OBVIOUS
<1>2. t \in Nat /\ Shape.known /\ t <= Shape.height - Shape.mark
  BY <1>t DEF Works, Shape
<1>3. sp = pp + Shape.height /\ fp = pp + Shape.mark /\ Shape.height \in Nat /\ Shape.mark \in Nat
  BY <1>2, ShapedHere DEF MemInv, Inv, FrameInv, Here
<1>4. fp <= sp - t
  BY <1>1, <1>2, <1>3
<1>5. ASSUME NEW k \in 0 .. t - 1 PROVE Top(k) \in Allocated
  <2>1. sp - k \in fp + 1 .. sp
    BY <1>1, <1>2, <1>4
  <2>2. stack[sp - k].type = "ADDR"
    BY <1>2, <2>1, Operands DEF MemInv
  <2>3. QED
    BY <2>1, <2>2, AboveFrames DEF Top
<1>6. QED
  BY <1>1, <1>2, <1>4, <1>5, <1>t

LEMMA AdvanceStays ==
  ASSUME Works(prog, ip), prog' = prog, ip' = ip + 1 \/ (bc.type = "JUMPZ" /\ ip' = ip + 1 + bc.offset)
  PROVE  FuncAt(ip') = FuncAt(ip)
BY DEF Works, Leads, FuncAt, Funcs, bc, Code

LEMMA PushMem ==
  ASSUME MemInv, Inv', running = "RUNNING", Works(prog, ip), Advance, UNCHANGED <<fp, pp, gp, prog, running>>,
         HeapOK', Grown, NEW p, Push(p), p \in Allocated'
  PROVE  Lawful
<1>1. /\ sp \in Int /\ fp \in Int /\ -1 <= fp /\ fp <= sp /\ StackSize \in Nat
      /\ stack = [i \in 0 .. StackSize - 1 |-> stack[i]] /\ sp < StackSize
  BY SizesAssumption DEF MemInv, Inv, Basics
<1>2. sp' = sp + 1 /\ sp + 1 < StackSize
  BY <1>1, SizesAssumption DEF Push, Inv, Basics
<1>3. stack' = [i \in 0 .. StackSize - 1 |-> IF i = sp + 1 THEN AddrEntry(p) ELSE stack[i]]
  BY <1>1, <1>2 DEF Push
<1>4. \A i \in 0 .. sp : stack'[i] = stack[i]
  BY <1>1, <1>2, <1>3
<1>5. stack'[sp + 1].val = p
  BY <1>1, <1>2, <1>3 DEF AddrEntry
<1>6. FuncAt(ip') = FuncAt(ip)
  BY AdvanceStays DEF Advance
<1>7. ASSUME NEW i \in fp + 1 .. sp', stack'[i].type = "ADDR" PROVE stack'[i].val \in Allocated'
  <2>1. i = sp + 1 \/ (i \in fp + 1 .. sp /\ i \in 0 .. sp)
    BY <1>1, <1>2
  <2>2. CASE i = sp + 1
    BY <1>5, <2>2
  <2>3. CASE i \in fp + 1 .. sp /\ i \in 0 .. sp
    BY <1>4, <1>7, <2>3, AboveFrames DEF Grown
  <2>4. QED
    BY <2>1, <2>2, <2>3
<1>8. \A i \in 0 .. fp : stack'[i] = stack[i]
  BY <1>1, <1>4
<1>9. QED
  BY <1>6, <1>7, <1>8, PlainMem

LEMMA ReplaceMem ==
  ASSUME MemInv, Inv', running = "RUNNING", Works(prog, ip), Advance, UNCHANGED <<fp, pp, gp, prog, running>>,
         HeapOK', Grown, NEW p, Replace(Takes(prog, ip), p), p \in Allocated'
  PROVE  Lawful
<1>t. PICK t : t = Takes(prog, ip)
  OBVIOUS
<1>1. /\ sp \in Int /\ fp \in Int /\ -1 <= fp /\ fp <= sp - t /\ t \in Nat /\ StackSize \in Nat
      /\ stack = [i \in 0 .. StackSize - 1 |-> stack[i]] /\ sp < StackSize
  BY <1>t, SizesAssumption, OperandsAbove DEF MemInv, Inv, Basics
<1>2. sp' = sp - t + 1 /\ sp - t + 1 < StackSize
  BY <1>1, <1>t, SizesAssumption DEF Replace, Inv, Basics
<1>3. stack' = [i \in 0 .. StackSize - 1 |-> IF i = sp - t + 1 THEN AddrEntry(p) ELSE stack[i]]
  BY <1>1, <1>2, <1>t DEF Replace
<1>4. \A i \in 0 .. sp - t : stack'[i] = stack[i]
  BY <1>1, <1>2, <1>3
<1>5. stack'[sp - t + 1].val = p
  BY <1>1, <1>2, <1>3 DEF AddrEntry
<1>6. FuncAt(ip') = FuncAt(ip)
  BY AdvanceStays DEF Advance
<1>7. ASSUME NEW i \in fp + 1 .. sp', stack'[i].type = "ADDR" PROVE stack'[i].val \in Allocated'
  <2>1. i = sp - t + 1 \/ (i \in fp + 1 .. sp /\ i \in 0 .. sp - t)
    BY <1>1, <1>2
  <2>2. CASE i = sp - t + 1
    BY <1>5, <2>2
  <2>3. CASE i \in fp + 1 .. sp /\ i \in 0 .. sp - t
    BY <1>4, <1>7, <2>3, AboveFrames DEF Grown
  <2>4. QED
    BY <2>1, <2>2, <2>3
<1>8. \A i \in 0 .. fp : stack'[i] = stack[i]
  <2>1. \A i \in 0 .. fp : i \in 0 .. sp - t
    BY <1>1
  <2>2. QED
    BY <1>4, <2>1
<1>9. QED
  BY <1>6, <1>7, <1>8, PlainMem

LEMMA PopMem ==
  ASSUME MemInv, Inv', running = "RUNNING", UNCHANGED <<stack, fp, pp, gp, prog, running>>, sp' <= sp,
         FuncAt(ip') = FuncAt(ip), HeapOK', Grown
  PROVE  Lawful
<1>1. sp \in Int /\ fp \in Int /\ sp' \in Int
  BY DEF MemInv, Inv, Basics
<1>2. \A i \in fp + 1 .. sp' : i \in fp + 1 .. sp
  BY <1>1
<1>3. \A i \in fp + 1 .. sp' : stack'[i].type = "ADDR" => stack'[i].val \in Allocated'
  BY <1>2, AboveFrames DEF Grown
<1>4. \A i \in 0 .. fp : stack'[i] = stack[i]
  OBVIOUS
<1>5. QED
  BY <1>3, <1>4, PlainMem

-----------------------------------------------------------------------------
(***************************************************************************)
(* Instructions that make new objects.                                     *)
(***************************************************************************)
LEMMA PushNew ==
  ASSUME MemInv, Inv', running = "RUNNING", Works(prog, ip), Advance, UNCHANGED <<fp, pp, gp, prog, running>>,
         NEW os, NEW n, Added(os, n), NEW j \in 1 .. n, Push(New(j)),
         \A i \in 1 .. n : os[i].type # "NULL",
         Grown => \A i \in 1 .. n : WellFormed(os[i])'
  PROVE  Lawful
<1>1. HeapOK' /\ Grown /\ New(j) \in Allocated'
  BY AddingKeeps DEF MemInv
<1>2. PICK p : p = New(j)
  OBVIOUS
<1>3. Push(p) /\ p \in Allocated'
  BY <1>1, <1>2
<1>4. QED
  BY <1>1, <1>3, PushMem

LEMMA ReplaceNew ==
  ASSUME MemInv, Inv', running = "RUNNING", Works(prog, ip), Advance, UNCHANGED <<fp, pp, gp, prog, running>>,
         NEW os, NEW n, Added(os, n), NEW j \in 1 .. n, Replace(Takes(prog, ip), New(j)),
         \A i \in 1 .. n : os[i].type # "NULL",
         Grown => \A i \in 1 .. n : WellFormed(os[i])'
  PROVE  Lawful
<1>1. HeapOK' /\ Grown /\ New(j) \in Allocated'
  BY AddingKeeps DEF MemInv
<1>2. PICK p : p = New(j)
  OBVIOUS
<1>3. Replace(Takes(prog, ip), p) /\ p \in Allocated'
  BY <1>1, <1>2
<1>4. QED
  BY <1>1, <1>3, ReplaceMem

\* A number or the characters of a string point to nothing.
LEMMA NumberIsWhole ==
  ASSUME NEW o, o.type \in Literals \cup {"STR"}
  PROVE  o.type # "NULL" /\ WellFormed(o)'
BY DEF WellFormed, Literals

\* One object that points to what is there, on top or in place of the operands.
LEMMA PushOne ==
  ASSUME MemInv, Inv', running = "RUNNING", Works(prog, ip), Advance, UNCHANGED <<fp, pp, gp, prog, running>>,
         MemoryFits, Cells(bc) = 1, NEW o, Allocate(o), Push(New(1)), o.type # "NULL", Grown => WellFormed(o)'
  PROVE  Lawful
<1>1. Added(<<o>>, 1)
  BY AllocatesOne DEF MemInv, MemoryFits
<1>2. \A i \in 1 .. 1 : <<o>>[i] = o
  OBVIOUS
<1>3. PICK os : os = <<o>>
  OBVIOUS
<1>4. 1 \in 1 .. 1 /\ \A i \in 1 .. 1 : os[i] = o
  BY <1>3
<1>5. Grown => \A i \in 1 .. 1 : WellFormed(os[i])'
  BY <1>4
<1>6. QED
  BY <1>1, <1>3, <1>4, <1>5, PushNew

LEMMA ReplaceOne ==
  ASSUME MemInv, Inv', running = "RUNNING", Works(prog, ip), Advance, UNCHANGED <<fp, pp, gp, prog, running>>,
         MemoryFits, Cells(bc) = 1, NEW o, Allocate(o), Replace(Takes(prog, ip), New(1)), o.type # "NULL",
         Grown => WellFormed(o)'
  PROVE  Lawful
<1>1. Added(<<o>>, 1)
  BY AllocatesOne DEF MemInv, MemoryFits
<1>2. PICK os : os = <<o>>
  OBVIOUS
<1>3. 1 \in 1 .. 1 /\ \A i \in 1 .. 1 : os[i] = o
  BY <1>2
<1>4. Grown => \A i \in 1 .. 1 : WellFormed(os[i])'
  BY <1>3
<1>5. QED
  BY <1>1, <1>2, <1>3, <1>4, ReplaceNew

\* An object and a reference to it.
Referring(o, r, new) ==
  \/ o.type = "STR" /\ r = StrRefObj(new)
  \/ o.type = "VEC" /\ r = VecRefObj(new)
  \/ o.type = "ARR" /\ r = ArrRefObj(new)

LEMMA ReferringIsWhole ==
  ASSUME NEW o, NEW r, NEW new, Referring(o, r, new), obj'[new] = o, new \in Addr
  PROVE  r.type # "NULL" /\ WellFormed(r)'
BY DEF Referring, WellFormed, Leading, Allocated, StrRefObj, VecRefObj, ArrRefObj

LEMMA TwoAreWhole ==
  ASSUME NEW os, Added(os, 2), Referring(os[1], os[2], New(1)), Grown => WellFormed(os[1])'
  PROVE  /\ \A i \in 1 .. 2 : os[i].type # "NULL"
         /\ Grown => \A i \in 1 .. 2 : WellFormed(os[i])'
<1>1. PICK new, o, r : new = New(1) /\ o = os[1] /\ r = os[2]
  OBVIOUS
<1>2. new \in Addr /\ obj'[new] = o /\ Referring(o, r, new)
  BY <1>1 DEF Added, Free
<1>3. r.type # "NULL" /\ WellFormed(r)' /\ o.type # "NULL"
  BY <1>2, ReferringIsWhole DEF Referring
<1>4. \A i \in 1 .. 2 : i = 1 \/ i = 2
  OBVIOUS
<1>5. \A i \in 1 .. 2 : os[i] = o \/ os[i] = r
  BY <1>1, <1>4
<1>6. Grown => WellFormed(o)'
  BY <1>1
<1>7. QED
  BY <1>3, <1>5, <1>6

LEMMA PushTwo ==
  ASSUME MemInv, Inv', running = "RUNNING", Works(prog, ip), Advance, UNCHANGED <<fp, pp, gp, prog, running>>,
         NEW os, Added(os, 2), Push(New(2)),
         Referring(os[1], os[2], New(1)), Grown => WellFormed(os[1])'
  PROVE  Lawful
<1>1. 2 \in 1 .. 2
  OBVIOUS
<1>2. QED
  BY <1>1, TwoAreWhole, PushNew

LEMMA ReplaceTwo ==
  ASSUME MemInv, Inv', running = "RUNNING", Works(prog, ip), Advance, UNCHANGED <<fp, pp, gp, prog, running>>,
         NEW os, Added(os, 2), Replace(Takes(prog, ip), New(2)),
         Referring(os[1], os[2], New(1)), Grown => WellFormed(os[1])'
  PROVE  Lawful
<1>1. 2 \in 1 .. 2
  OBVIOUS
<1>2. QED
  BY <1>1, TwoAreWhole, ReplaceNew

LEMMA WorksInstr ==
  ASSUME MemInv, NEW t, Instr(t),
         t \notin {"MARK", "CALL", "RET", "RETHROW", "CLEAR_STACK", "JUMP", "LABEL", "FUNC_DEF", "FUNC_OBJ",
                   "FUNC_FFI_TYPE", "HALT", "UNHANDLED_EXCEPTION"}
  PROVE  running = "RUNNING" /\ bc.type = t /\ Works(prog, ip) /\ ~Fails /\ MemoryFits
BY WorksHere DEF MemInv, Instr, Runs

\* Those that push a new number, or a reference to nothing.
LEMMA PushNumberMem ==
  ASSUME MemInv, Inv', ExecLiteral \/ ExecIdDimLocal \/ ExecPushExcept \/ ExecNilRecordRef
  PROVE  Lawful
<1>1. /\ running = "RUNNING" /\ Works(prog, ip) /\ MemoryFits /\ Advance /\ UNCHANGED <<fp, pp, gp, prog, running>>
      /\ Push(New(1)) /\ bc.type \in OneResult
  BY WorksInstr DEF ExecLiteral, ExecIdDimLocal, ExecPushExcept, ExecNilRecordRef, regs, mode, OneResult, Literals
<1>2. Cells(bc) = 1
  BY <1>1 DEF Cells, OneResult, Literals
<1>3. PICK o : Allocate(o) /\ (o.type \in Literals \/ o = VecRefObj(Nil))
  <2>1. CASE ExecLiteral
    <3>1. bc.type \in Literals /\ Allocate(Number(bc.type, bc.value))
      BY <2>1 DEF ExecLiteral, Instr
    <3>2. PICK o : o = Number(bc.type, bc.value)
      OBVIOUS
    <3>3. o.type \in Literals
      BY <3>1, <3>2 DEF Number
    <3>4. QED
      BY <3>1, <3>2, <3>3
  <2>2. CASE ExecIdDimLocal
    <3>1. PICK n : Allocate(IntObj(n))
      BY <2>2 DEF ExecIdDimLocal
    <3>2. IntObj(n).type \in Literals
      BY DEF IntObj, Number, Literals
    <3>3. QED
      BY <3>1, <3>2
  <2>3. CASE ExecPushExcept
    BY <2>3 DEF ExecPushExcept, IntObj, Number, Literals
  <2>4. CASE ExecNilRecordRef
    BY <2>4 DEF ExecNilRecordRef
  <2>5. QED
    BY <2>1, <2>2, <2>3, <2>4
<1>4. o.type # "NULL" /\ WellFormed(o)'
  BY <1>3, NumberIsWhole DEF VecRefObj, WellFormed, Leading
<1>5. QED
  BY <1>1, <1>2, <1>3, <1>4, PushOne

\* A string and a reference to it, read from the program or given by a library.
LEMMA PushStringMem ==
  ASSUME MemInv, Inv', running = "RUNNING", Works(prog, ip), Advance, UNCHANGED <<fp, pp, gp, prog, running>>,
         MemoryFits, Cells(bc) = 2, NEW text, AllocateAll(<<StrObj(text), StrRefObj(New(1))>>), Push(New(2))
  PROVE  Lawful
<1>1. PICK os : os = <<StrObj(text), StrRefObj(New(1))>>
  OBVIOUS
<1>2. DOMAIN os = 1 .. 2 /\ os[1] = StrObj(text) /\ os[2] = StrRefObj(New(1))
  BY <1>1
<1>3. Added(os, 2)
  BY <1>1, <1>2, AllocatesAll DEF MemoryFits
<1>4. Referring(os[1], os[2], New(1)) /\ WellFormed(os[1])'
  BY <1>2, NumberIsWhole DEF Referring, StrObj
<1>5. QED
  BY <1>3, <1>4, PushTwo

LEMMA StringMem ==
  ASSUME MemInv, Inv', ExecString
  PROVE  Lawful
<1>1. /\ running = "RUNNING" /\ Works(prog, ip) /\ MemoryFits /\ Advance /\ UNCHANGED <<fp, pp, gp, prog, running>>
      /\ bc.type = "STRING"
  BY WorksInstr DEF ExecString, regs, mode
<1>2. Cells(bc) = 2
  BY <1>1 DEF Cells, OneResult, Literals
<1>3. QED
  BY <1>1, <1>2, PushStringMem DEF ExecString

LEMMA FuncFfiMem ==
  ASSUME MemInv, Inv', ExecFuncFfi
  PROVE  Lawful
<1>1. /\ running = "RUNNING" /\ Works(prog, ip) /\ MemoryFits /\ Advance /\ UNCHANGED <<fp, pp, gp, prog, running>>
      /\ bc.type = "FUNC_FFI" /\ AllocateAll(ForeignObjects) /\ Push(New(Cells(bc)))
  BY WorksInstr DEF ExecFuncFfi, regs, mode
<1>2. ForeignType(bc.count + 1) \in Literals \cup {"STRING"}
  <2>1. KindsKnown(prog, ip) /\ ip \in Nat
    BY <1>1, ShapedHere DEF MemInv, Inv, Shaped
  <2>2. prog.code[ip + (bc.count + 1)].of \in Literals \cup {"STRING"}
    BY <1>1, <2>1 DEF KindsKnown, bc, Code
  <2>3. QED
    BY <2>2 DEF ForeignType, Code
<1>3. Cells(bc) = IF ForeignType(bc.count + 1) = "STRING" THEN 2 ELSE 1
  BY <1>1 DEF Cells, OneResult, Literals
<1>t. PICK type : type = ForeignType(bc.count + 1)
  OBVIOUS
<1>r. PICK result : result = ForeignResult(ForeignName, ForeignArguments)
  OBVIOUS
<1>4. CASE type = "STRING"
  <2>1. ForeignObjects = <<StrObj(result), StrRefObj(New(1))>>
    BY <1>4, <1>t, <1>r DEF ForeignObjects
  <2>2. Cells(bc) = 2
    BY <1>3, <1>4, <1>t
  <2>3. QED
    BY <1>1, <2>1, <2>2, PushStringMem
<1>5. CASE type # "STRING"
  <2>1. PICK o : o = Number(type, result)
    OBVIOUS
  <2>2. ForeignObjects = <<o>>
    BY <1>5, <1>t, <1>r, <2>1 DEF ForeignObjects
  <2>3. Cells(bc) = 1
    BY <1>3, <1>5, <1>t
  <2>4. PICK os : os = <<o>>
    OBVIOUS
  <2>5. DOMAIN os = 1 .. 1 /\ \A i \in 1 .. 1 : os[i] = o
    BY <2>4
  <2>6. Added(os, 1)
    BY <1>1, <2>2, <2>3, <2>4, <2>5, AllocatesAll DEF MemoryFits
  <2>7. o.type # "NULL" /\ WellFormed(o)'
    BY <1>2, <1>5, <1>t, <2>1, NumberIsWhole DEF Number
  <2>8. (\A i \in 1 .. 1 : os[i].type # "NULL") /\ (Grown => \A i \in 1 .. 1 : WellFormed(os[i])')
    BY <2>5, <2>7
  <2>9. 1 \in 1 .. 1 /\ Push(New(1))
    BY <1>1, <2>3
  <2>10. QED
    BY <1>1, <2>6, <2>8, <2>9, PushNew
<1>6. QED
  BY <1>4, <1>5

-----------------------------------------------------------------------------
(***************************************************************************)
(* Instructions that take what is there.                                   *)
(***************************************************************************)
LEMMA SameHeap ==
  ASSUME HeapOK, obj' = obj, prog' = prog
  PROVE  HeapOK' /\ Grown /\ Allocated' = Allocated
<1>1. Allocated' = Allocated /\ Grown
  BY DEF Allocated, Grown
<1>2. ASSUME NEW a \in Allocated PROVE WellFormed(obj[a])'
  <2>1. PICK o : o = obj[a]
    OBVIOUS
  <2>2. WellFormed(o)'
    BY <1>1, <2>1, GrownWellFormed DEF HeapOK
  <2>3. QED
    BY <2>1, <2>2
<1>3. QED
  BY <1>1, <1>2 DEF HeapOK

\* A value is allocated.
LEMMA ValueIsThere ==
  ASSUME MemInv, running = "RUNNING", Works(prog, ip), NEW i, IsValue(i)
  PROVE  stack[i].val \in Allocated
<1>1. PICK F \in SUBSET Int, A \in SUBSET Int : FrameInv(F, A) /\ Held(F)
  BY DEF MemInv
<1>2. Frames = F /\ F \subseteq 4 .. sp /\ sp \in Int /\ Values(F)
  BY <1>1, ChainsFound, FrameFacts DEF MemInv
<1>3. i \in 0 .. sp /\ Outside(F, i)
  BY <1>2 DEF IsValue, LinkageOf, Outside
<1>4. stack[i].type = "ADDR"
  BY <1>2, <1>3 DEF Values, Works, Shape
<1>5. QED
  BY <1>1, <1>3, <1>4 DEF Held

LEMMA IdLocalMem ==
  ASSUME MemInv, Inv', Promised, ExecIdLocal
  PROVE  Lawful
<1>1. /\ running = "RUNNING" /\ Works(prog, ip) /\ ~Fails /\ Advance /\ UNCHANGED <<obj, fp, pp, gp, prog, running>>
      /\ bc.type = "ID_LOCAL" /\ Push(stack[Place].val)
  BY WorksInstr DEF ExecIdLocal, regs, mode
<1>2. IsValue(Place)
  BY <1>1 DEF Promised, OperandsFit
<1>3. PICK p : p = stack[Place].val
  OBVIOUS
<1>4. HeapOK' /\ Grown /\ p \in Allocated'
  BY <1>1, <1>2, <1>3, ValueIsThere, SameHeap DEF MemInv
<1>5. QED
  BY <1>1, <1>3, <1>4, PushMem

\* The running function finds its captured cells.
LEMMA VectorHere ==
  ASSUME MemInv, running = "RUNNING", InFunction(prog, ip)
  PROVE  IsVector(gp, FuncAt(ip).captures) /\ obj[gp].elems \in Seq(Allocated)
<1>1. IsVector(gp, FuncAt(ip).captures)
  BY DEF MemInv, VectorFor
<1>2. QED
  BY <1>1 DEF IsVector, MemInv, HeapOK, WellFormed

LEMMA CapturedMem ==
  ASSUME MemInv, Inv', ExecIdGlobal \/ ExecCopyGlob
  PROVE  Lawful
<1>1. /\ running = "RUNNING" /\ Works(prog, ip) /\ Advance /\ UNCHANGED <<obj, fp, pp, gp, prog, running>>
      /\ bc.type \in {"ID_GLOBAL", "COPYGLOB"}
      /\ Push(IF bc.type = "ID_GLOBAL" THEN obj[gp].elems[bc.index + 1] ELSE gp)
  BY WorksInstr DEF ExecIdGlobal, ExecCopyGlob, Instr, regs, mode
<1>2. CapturesKnown(prog, ip)
  BY <1>1, ShapedHere DEF MemInv, Inv, Shaped
<1>3. InFunction(prog, ip)
  BY <1>1, <1>2 DEF CapturesKnown, bc, Code
<1>4. IsVector(gp, FuncAt(ip).captures) /\ obj[gp].elems \in Seq(Allocated)
  BY <1>1, <1>3, VectorHere
<1>5. bc.type = "ID_GLOBAL" => obj[gp].elems[bc.index + 1] \in Allocated
  <2>1. ASSUME bc.type = "ID_GLOBAL" PROVE bc.index + 1 \in 1 .. Len(obj[gp].elems)
    BY <1>2, <1>4, <2>1 DEF CapturesKnown, IsVector, bc, Code, FuncAt, Funcs
  <2>2. QED
    BY <1>4, <2>1
<1>6. PICK p : p = IF bc.type = "ID_GLOBAL" THEN obj[gp].elems[bc.index + 1] ELSE gp
  OBVIOUS
<1>7. HeapOK' /\ Grown /\ p \in Allocated'
  BY <1>1, <1>4, <1>5, <1>6, SameHeap DEF IsVector, MemInv
<1>8. QED
  BY <1>1, <1>6, <1>7, PushMem

\* The field of a record, or the element of an array.
\* The element ARRAY_DEREF takes is one of the array's.
LEMMA ElementIsThere ==
  ASSUME MemInv, Promised, running = "RUNNING", ~Fails, bc.type = "ARRAY_DEREF", bc.dims \in Nat,
         Top(bc.dims) \in Allocated
  PROVE  /\ ArrAt(bc.dims).elems \in Seq(Allocated)
         /\ AddrOf(ArrAt(bc.dims).dv, IndexOf(bc.dims)) + 1 \in DOMAIN ArrAt(bc.dims).elems
<1>1. Failure = DerefFailure(bc.dims)
  BY DEF Failure
<1>2. /\ \A i \in 1 .. bc.dims : ~(IntAt(Top(i - 1)) < 0)
      /\ obj[Top(bc.dims)].arr # Nil
      /\ InBounds(ArrAt(bc.dims).dv, IndexOf(bc.dims))
  BY <1>1 DEF Fails, DerefFailure, SomeBad, IsNil, NoFailure, Failing, EXCEPT_NIL_POINTER, EXCEPT_NO_INDEX_OOB,
              EXCEPT_NO_UNKNOWN
<1>3. obj[Top(bc.dims)].type = "ARR_REF" /\ Len(ArrAt(bc.dims).dv) = bc.dims /\ IndexOf(bc.dims) \in Seq(Int)
  BY DEF Promised, OperandsFit, KindOf
<1>4. obj[Top(bc.dims)].arr \in Allocated /\ obj[obj[Top(bc.dims)].arr].type = "ARR"
  BY <1>2, <1>3 DEF MemInv, HeapOK, WellFormed, Leading
<1>a. PICK dv, es, ix : dv = ArrAt(bc.dims).dv /\ es = ArrAt(bc.dims).elems /\ ix = IndexOf(bc.dims)
  OBVIOUS
<1>5. es \in Seq(Allocated) /\ Laid(dv, Len(es))
  BY <1>4, <1>a DEF MemInv, HeapOK, WellFormed, ArrAt
<1>6. PICK lens \in Seq(Nat) : dv = DimVec(lens) /\ Len(es) = Size(lens)
  BY <1>5 DEF Laid
<1>7. Len(lens) = bc.dims
  BY <1>3, <1>6, <1>a, LensIs
<1>8. \A d \in 1 .. Len(lens) : ix[d] \in Nat
  <2> SUFFICES ASSUME NEW d \in 1 .. Len(lens) PROVE ix[d] \in Nat
    OBVIOUS
  <2>1. d \in 1 .. bc.dims /\ ix[d] = IntAt(Top(d - 1)) /\ ~(IntAt(Top(d - 1)) < 0)
    BY <1>2, <1>7, <1>a DEF IndexOf
  <2>2. d \in DOMAIN ix /\ ix \in Seq(Int)
    BY <1>3, <1>a, <2>1 DEF IndexOf
  <2>3. ix[d] \in Int
    BY <2>2
  <2>4. QED
    BY <2>1, <2>3
<1>9. InBounds(DimVec(lens), ix)
  BY <1>2, <1>6, <1>a
<1>10. PICK x : x = AddrOf(dv, ix)
  OBVIOUS
<1>11. x \in 0 .. Len(es) - 1
  BY <1>6, <1>8, <1>9, <1>10, AddressInside
<1>12. x + 1 \in DOMAIN es
  BY <1>5, <1>11
<1>13. QED
  BY <1>a, <1>5, <1>10, <1>12

LEMMA PartMem ==
  ASSUME MemInv, Inv', Promised, ExecAttr \/ ExecArrayDeref
  PROVE  Lawful
<1>1. /\ running = "RUNNING" /\ Works(prog, ip) /\ ~Fails /\ Advance /\ UNCHANGED <<obj, fp, pp, gp, prog, running>>
      /\ OperandsFit /\ bc.type \in {"ATTR", "ARRAY_DEREF"}
  BY WorksInstr DEF ExecAttr, ExecArrayDeref, regs, mode, Promised
<1>2. \E p \in Allocated : Replace(Takes(prog, ip), p)
  <2>1. CASE ExecAttr
    <3>1. bc.type = "ATTR" /\ Takes(prog, ip) = 1
      BY <2>1 DEF ExecAttr, Instr, Takes, bc, Code, Assignments
    <3>2. Top(0) \in Allocated
      BY <1>1, <3>1, OperandsAbove
    <3>3. obj[Top(0)].type = "VEC_REF" /\ bc.index + 1 \in DOMAIN obj[obj[Top(0)].vec].elems
      BY <1>1, <3>1 DEF OperandsFit, KindOf, RefAt
    <3>4. obj[Top(0)].vec # Nil
      BY <1>1, <3>1 DEF Fails, Failure, FailsIf, NoFailure, Failing, EXCEPT_NIL_POINTER, EXCEPT_NO_UNKNOWN
    <3>5. obj[Top(0)].vec \in Allocated /\ obj[obj[Top(0)].vec].type = "VEC"
      BY <3>2, <3>3, <3>4 DEF MemInv, HeapOK, WellFormed, Leading
    <3>6. obj[obj[Top(0)].vec].elems \in Seq(Allocated)
      BY <3>5 DEF MemInv, HeapOK, WellFormed
    <3>7. obj[obj[Top(0)].vec].elems[bc.index + 1] \in Allocated
      BY <3>3, <3>6
    <3>8. QED
      BY <2>1, <3>1, <3>7 DEF ExecAttr
  <2>2. CASE ExecArrayDeref
    <3>1. bc.type = "ARRAY_DEREF" /\ Takes(prog, ip) = bc.dims + 1
      BY <2>2 DEF ExecArrayDeref, Instr, Takes, bc, Code, Assignments
    <3>2. bc.dims \in Nat
      BY <1>1, <3>1 DEF Works, bc, Code
    <3>3. Top(bc.dims) \in Allocated
      <4>1. bc.dims \in 0 .. Takes(prog, ip) - 1
        BY <3>1, <3>2
      <4>2. QED
        BY <1>1, <4>1, OperandsAbove
    <3>i. PICK i : i = AddrOf(ArrAt(bc.dims).dv, IndexOf(bc.dims)) + 1
      OBVIOUS
    <3>4. ArrAt(bc.dims).elems \in Seq(Allocated) /\ i \in DOMAIN ArrAt(bc.dims).elems
      BY <1>1, <3>1, <3>2, <3>3, <3>i, ElementIsThere
    <3>5. ArrAt(bc.dims).elems[i] \in Allocated
      BY <3>4
    <3>6. Replace(bc.dims + 1, ArrAt(bc.dims).elems[i])
      BY <2>2, <3>i DEF ExecArrayDeref
    <3>7. QED
      BY <3>1, <3>5, <3>6
  <2>3. QED
    BY <2>1, <2>2
<1>3. PICK p \in Allocated : Replace(Takes(prog, ip), p)
  BY <1>2
<1>4. HeapOK' /\ Grown /\ p \in Allocated'
  BY <1>1, SameHeap DEF MemInv
<1>5. QED
  BY <1>1, <1>3, <1>4, ReplaceMem

-----------------------------------------------------------------------------
(***************************************************************************)
(* Instructions that replace their operands by something new.              *)
(***************************************************************************)
LEMMA OneOperation ==
  ASSUME bc.type \in {"OP", "NOT", "NEG", "INT_TO_FLOAT", "FLOAT_TO_INT", "STRING_DEREF", "GLOBAL_VEC", "ID_FUNC_ADDR"},
         bc.type = "OP" => ~Joins(bc)
  PROVE  Cells(bc) = 1
<1>1. CASE bc.type = "OP"
  BY <1>1 DEF Cells, OneResult, Literals
<1>2. CASE bc.type # "OP"
  BY <1>2 DEF Cells, OneResult, Literals
<1>3. QED
  BY <1>1, <1>2

\* By a new number.
LEMMA NumberMem ==
  ASSUME MemInv, Inv',
         ExecOp \/ ExecEqString \/ ExecEqNil \/ ExecNot \/ ExecNeg \/ ExecConvert \/ ExecStringDeref
  PROVE  Lawful
<1>1. /\ running = "RUNNING" /\ Works(prog, ip) /\ MemoryFits /\ Advance /\ UNCHANGED <<fp, pp, gp, prog, running>>
      /\ bc.type \in {"OP", "NOT", "NEG", "INT_TO_FLOAT", "FLOAT_TO_INT", "STRING_DEREF"}
  BY WorksInstr DEF ExecOp, ExecEqString, ExecEqNil, ExecNot, ExecNeg, ExecConvert, ExecStringDeref, regs, mode
<1>2. bc.type = "OP" => ~Joins(bc)
  BY DEF ExecOp, ExecEqString, ExecEqNil, ExecNot, ExecNeg, ExecConvert, ExecStringDeref, Instr, Joins, Joined,
         Literals, NilOnRight, NilOnLeft
<1>3. Cells(bc) = 1
  BY <1>1, <1>2, OneOperation
<1>4. Replace(Takes(prog, ip), New(1))
  <2>1. CASE ExecOp \/ ExecEqString \/ ExecEqNil \/ ExecStringDeref
    BY <2>1 DEF ExecOp, ExecEqString, ExecEqNil, ExecStringDeref, Instr, Takes, bc, Code, Assignments
  <2>2. CASE ExecNot \/ ExecNeg \/ ExecConvert
    BY <2>2 DEF ExecNot, ExecNeg, ExecConvert, Instr, Takes, bc, Code, Assignments
  <2>3. QED
    BY <2>1, <2>2
<1>5. \E o : Allocate(o) /\ o.type \in Literals
  <2>1. CASE ExecOp
    BY <2>1 DEF ExecOp, Number, Literals
  <2>2. CASE ExecEqString \/ ExecEqNil \/ ExecNot
    BY <2>2 DEF ExecEqString, ExecEqNil, ExecNot, IntObj, Number, Literals
  <2>3. CASE ExecNeg
    <3>1. KindsKnown(prog, ip)
      BY <1>1, ShapedHere DEF MemInv, Inv, Shaped
    <3>2. bc.on \in {"INT", "FLOAT"}
      BY <2>3, <3>1 DEF KindsKnown, ExecNeg, Instr, bc, Code
    <3>3. QED
      BY <2>3, <3>2 DEF ExecNeg, Number, Literals
  <2>4. CASE ExecConvert
    BY <2>4 DEF ExecConvert, IntObj, FloatObj, Number, Literals
  <2>5. CASE ExecStringDeref
    BY <2>5 DEF ExecStringDeref, CharObj, Number, Literals
  <2>6. QED
    BY <2>1, <2>2, <2>3, <2>4, <2>5
<1>6. PICK o : Allocate(o) /\ o.type \in Literals
  BY <1>5
<1>7. o.type # "NULL" /\ WellFormed(o)'
  BY <1>6, NumberIsWhole
<1>8. QED
  BY <1>1, <1>3, <1>4, <1>6, <1>7, ReplaceOne

\* By a vector of what they are.
LEMMA GlobalVecMem ==
  ASSUME MemInv, Inv', ExecGlobalVec
  PROVE  Lawful
<1>1. /\ running = "RUNNING" /\ Works(prog, ip) /\ MemoryFits /\ Advance /\ UNCHANGED <<fp, pp, gp, prog, running>>
      /\ bc.type = "GLOBAL_VEC"
  BY WorksInstr DEF ExecGlobalVec, regs, mode
<1>2. Cells(bc) = 1
  BY <1>1, OneOperation
<1>n. PICK n : n = bc.count
  OBVIOUS
<1>3. Takes(prog, ip) = n
  BY <1>1, <1>n DEF Takes, bc, Code, Assignments
<1>4. n \in Nat /\ sp \in Int /\ \A k \in 0 .. n - 1 : Top(k) \in Allocated
  BY <1>1, <1>3, OperandsAbove
<1>e. PICK e : e = [i \in 1 .. n |-> stack[sp - n + i].val]
  OBVIOUS
<1>5. e \in Seq(Allocated)
  <2>1. ASSUME NEW i \in 1 .. n PROVE stack[sp - n + i].val \in Allocated
    <3>1. n - i \in 0 .. n - 1 /\ sp - (n - i) = sp - n + i
      BY <1>4
    <3>2. QED
      BY <1>4, <3>1 DEF Top
  <2>2. e \in [1 .. n -> Allocated]
    BY <1>e, <2>1
  <2>3. QED
    BY <1>4, <2>2
<1>o. PICK o : o = VecObj(e)
  OBVIOUS
<1>6. o.type = "VEC" /\ o.elems = e
  BY <1>o DEF VecObj
<1>7. Grown => WellFormed(o)'
  <2>1. ASSUME Grown PROVE Allocated \subseteq Allocated'
    BY <2>1 DEF Grown
  <2>2. ASSUME Grown PROVE e \in Seq(Allocated')
    BY <1>5, <2>1, <2>2
  <2>3. QED
    BY <1>6, <2>2 DEF WellFormed
<1>8. Allocate(o) /\ Replace(Takes(prog, ip), New(1))
  BY <1>n, <1>e, <1>o, <1>3 DEF ExecGlobalVec
<1>9. QED
  BY <1>1, <1>2, <1>6, <1>7, <1>8, ReplaceOne

\* By a closure.
LEMMA IdFuncMem ==
  ASSUME MemInv, Inv', Promised, ExecIdFunc
  PROVE  Lawful
<1>1. /\ running = "RUNNING" /\ Works(prog, ip) /\ MemoryFits /\ Advance /\ UNCHANGED <<fp, pp, gp, prog, running>>
      /\ bc.type = "ID_FUNC_ADDR" /\ ~Fails
  BY WorksInstr DEF ExecIdFunc, regs, mode
<1>2. Cells(bc) = 1
  BY <1>1, OneOperation
<1>3. Takes(prog, ip) = 1
  BY <1>1 DEF Takes, bc, Code, Assignments
<1>v. PICK v, x : v = Top(0) /\ x = bc.func_addr
  OBVIOUS
<1>4. IsVector(v, FuncAt(x).captures)
  BY <1>1, <1>v DEF Promised, OperandsFit
<1>k. \E i \in DOMAIN Funcs : Funcs[i].start = x
  <2>1. CapturesKnown(prog, ip)
    BY <1>1, ShapedHere DEF MemInv, Inv, Shaped
  <2>2. QED
    BY <1>1, <1>v, <2>1 DEF CapturesKnown, bc, Code, Funcs
<1>o. PICK o : o = FuncObj(v, x)
  OBVIOUS
<1>5. o.type = "FUNC" /\ o.vec = v /\ o.addr = x
  BY <1>o DEF FuncObj
<1>6. Grown => WellFormed(o)'
  <2> SUFFICES ASSUME Grown PROVE WellFormed(o)'
    OBVIOUS
  <2>c. PICK c : c = FuncAt(x).captures
    OBVIOUS
  <2>1. IsVector(v, c)' /\ Exists(v)'
    BY <1>4, <2>c, GrownExists DEF IsVector, Exists
  <2>2. FuncAt(x)' = FuncAt(x) /\ Funcs' = Funcs
    BY <1>1 DEF FuncAt, Funcs
  <2>3. QED
    BY <1>5, <1>k, <2>c, <2>1, <2>2 DEF WellFormed, IsVector, FuncAt
<1>7. Allocate(o) /\ Replace(Takes(prog, ip), New(1))
  BY <1>v, <1>o, <1>3 DEF ExecIdFunc
<1>8. QED
  BY <1>1, <1>2, <1>5, <1>6, <1>7, ReplaceOne

LEMMA ReplaceStringMem ==
  ASSUME MemInv, Inv', running = "RUNNING", Works(prog, ip), Advance, UNCHANGED <<fp, pp, gp, prog, running>>,
         MemoryFits, Cells(bc) = 2, NEW text, AllocateAll(<<StrObj(text), StrRefObj(New(1))>>),
         Replace(Takes(prog, ip), New(2))
  PROVE  Lawful
<1>1. PICK os : os = <<StrObj(text), StrRefObj(New(1))>>
  OBVIOUS
<1>2. DOMAIN os = 1 .. 2 /\ os[1] = StrObj(text) /\ os[2] = StrRefObj(New(1))
  BY <1>1
<1>3. Added(os, 2)
  BY <1>1, <1>2, AllocatesAll DEF MemoryFits
<1>4. Referring(os[1], os[2], New(1)) /\ WellFormed(os[1])'
  BY <1>2, NumberIsWhole DEF Referring, StrObj
<1>5. QED
  BY <1>3, <1>4, ReplaceTwo

LEMMA JoinMem ==
  ASSUME MemInv, Inv', ExecJoin
  PROVE  Lawful
<1>1. /\ running = "RUNNING" /\ Works(prog, ip) /\ MemoryFits /\ Advance /\ UNCHANGED <<fp, pp, gp, prog, running>>
      /\ bc.type = "OP" /\ Joins(bc)
  BY WorksInstr DEF ExecJoin, regs, mode
<1>2. Cells(bc) = 2
  BY <1>1 DEF Cells, OneResult, Literals
<1>3. Takes(prog, ip) = 2
  BY <1>1 DEF Takes, bc, Code, Assignments
<1>4. QED
  BY <1>1, <1>2, <1>3, ReplaceStringMem DEF ExecJoin

\* By a record.
LEMMA RecordMem ==
  ASSUME MemInv, Inv', ExecRecord
  PROVE  Lawful
<1>1. /\ running = "RUNNING" /\ Works(prog, ip) /\ MemoryFits /\ Advance /\ UNCHANGED <<fp, pp, gp, prog, running>>
      /\ bc.type = "RECORD"
  BY WorksInstr DEF ExecRecord, regs, mode
<1>2. Cells(bc) = 2
  BY <1>1 DEF Cells, OneResult, Literals
<1>n. PICK n : n = bc.count
  OBVIOUS
<1>3. Takes(prog, ip) = n
  BY <1>1, <1>n DEF Takes, bc, Code, Assignments
<1>4. n \in Nat /\ sp \in Int /\ \A k \in 0 .. n - 1 : Top(k) \in Allocated
  BY <1>1, <1>3, OperandsAbove
<1>e. PICK e : e = [i \in 1 .. n |-> stack[sp - i + 1].val]
  OBVIOUS
<1>5. e \in Seq(Allocated)
  <2>1. ASSUME NEW i \in 1 .. n PROVE stack[sp - i + 1].val \in Allocated
    <3>1. i - 1 \in 0 .. n - 1 /\ sp - (i - 1) = sp - i + 1
      BY <1>4
    <3>2. QED
      BY <1>4, <3>1 DEF Top
  <2>2. e \in [1 .. n -> Allocated]
    BY <1>e, <2>1
  <2>3. QED
    BY <1>4, <2>2
<1>6. 1 \in 1 .. Cardinality(Free) /\ 2 \in 1 .. Cardinality(Free)
  BY <1>1, <1>2, FreeIsFinite DEF MemoryFits
<1>a. PICK a, b : a = New(1) /\ b = New(2)
  OBVIOUS
<1>7. a \in Free /\ b \in Free /\ a # b /\ a # Nil /\ b # Nil /\ a \in Addr /\ b \in Addr
  <2>1. New(1) \in Free /\ New(2) \in Free /\ New(1) # Nil /\ New(2) # Nil
    BY <1>6, NewIsFree
  <2>2. New(1) # New(2)
    BY <1>6, NewDiffer
  <2>3. QED
    BY <1>a, <2>1, <2>2 DEF Free
<1>o. PICK os : os = <<VecObj(e), VecRefObj(a)>>
  OBVIOUS
<1>8. os[1] = VecObj(e) /\ os[2] = VecRefObj(a)
  BY <1>o
<1>9. obj' = [c \in Addr |-> IF c = b THEN os[2] ELSE IF c = a THEN os[1] ELSE obj[c]]
  <2>1. obj' = [obj EXCEPT ![a] = os[1], ![b] = os[2]]
    BY <1>a, <1>n, <1>e, <1>8 DEF ExecRecord
  <2>2. QED
    BY <1>7, <2>1 DEF MemInv, HeapOK
<1>10. Added(os, 2)
  <2>1. \A i \in 1 .. 2 : i = 1 \/ i = 2
    OBVIOUS
  <2>2. \A i \in 1 .. 2 : New(i) \in Free /\ New(i) # Nil /\ obj'[New(i)] = os[i]
    BY <1>7, <1>9, <1>a, <2>1
  <2>3. \A c \in Addr : obj'[c] = obj[c] \/ \E i \in 1 .. 2 : c = New(i)
    <3>1. 1 \in 1 .. 2 /\ 2 \in 1 .. 2
      OBVIOUS
    <3>2. QED
      BY <1>9, <1>a, <3>1
  <2>4. \A c \in Allocated : obj'[c] = obj[c]
    BY <1>7, <1>9 DEF Free, Allocated
  <2>5. QED
    BY <1>9, <2>2, <2>3, <2>4 DEF Added
<1>11. Referring(os[1], os[2], New(1))
  BY <1>8, <1>a DEF Referring, VecObj
<1>12. Grown => WellFormed(os[1])'
  <2>1. ASSUME Grown PROVE e \in Seq(Allocated')
    <3>1. Allocated \subseteq Allocated'
      BY <2>1 DEF Grown
    <3>2. QED
      BY <1>5, <3>1
  <2>2. os[1].type = "VEC" /\ os[1].elems = e
    BY <1>8 DEF VecObj
  <2>3. QED
    BY <2>1, <2>2 DEF WellFormed
<1>13. Replace(Takes(prog, ip), New(2))
  BY <1>3, <1>n DEF ExecRecord
<1>14. QED
  BY <1>1, <1>10, <1>11, <1>12, <1>13, ReplaceTwo

\* By an array of what was on the stack.
LEMMA MkInitArrayMem ==
  ASSUME MemInv, Inv', Promised, ExecMkInitArray
  PROVE  Lawful
<1>1. /\ running = "RUNNING" /\ Works(prog, ip) /\ MemoryFits /\ Advance /\ UNCHANGED <<fp, pp, gp, prog, running>>
      /\ bc.type = "MK_INIT_ARRAY" /\ ~Fails
  BY WorksInstr DEF ExecMkInitArray, regs, mode
<1>2. Cells(bc) = 2
  BY <1>1 DEF Cells, OneResult, Literals
<1>d. PICK d, lens, n : d = bc.dims /\ lens = IndexOf(bc.dims) /\ n = Size(IndexOf(bc.dims))
  OBVIOUS
<1>3. Takes(prog, ip) = d + n /\ d \in Nat /\ n \in Nat /\ lens \in Seq(Nat)
  <2>1. IndexOf(bc.dims) = Listed(prog, ip)
    BY <1>1 DEF Promised
  <2>2. bc.dims \in Nat /\ lens \in Seq(Nat)
    BY <1>1, <1>d, <2>1 DEF Works, bc, Code
  <2>3. n \in Nat
    BY <1>d, <2>2, SizeIsNat
  <2>4. Takes(prog, ip) = d + n
    BY <1>1, <1>d, <2>1 DEF Takes, bc, Code, Assignments
  <2>5. QED
    BY <1>d, <2>2, <2>3, <2>4
<1>e. PICK e : e = [i \in 1 .. n |-> Top(d + i - 1)]
  OBVIOUS
<1>o. PICK o : o = ArrObj(DimVec(lens), e)
  OBVIOUS
<1>4. o.type = "ARR" /\ o.elems = e /\ o.dv = DimVec(lens)
  BY <1>o DEF ArrObj
<1>5. AllocateAll(<<o, ArrRefObj(New(1))>>) /\ Replace(Takes(prog, ip), New(2))
  BY <1>d, <1>e, <1>o, <1>3 DEF ExecMkInitArray, PutArray
<1>s. PICK os : os = <<o, ArrRefObj(New(1))>>
  OBVIOUS
<1>6. DOMAIN os = 1 .. 2 /\ os[1] = o /\ os[2] = ArrRefObj(New(1))
  BY <1>s
<1>7. Added(os, 2)
  BY <1>1, <1>2, <1>5, <1>s, <1>6, AllocatesAll DEF MemoryFits
<1>8. Referring(os[1], os[2], New(1))
  BY <1>4, <1>6 DEF Referring
<1>9. Grown => WellFormed(os[1])'
  <2> SUFFICES ASSUME Grown PROVE WellFormed(o)'
    BY <1>6
  <2>1. d \in Nat /\ n \in Nat /\ \A k \in 0 .. d + n - 1 : Top(k) \in Allocated
    BY <1>1, <1>3, OperandsAbove
  <2>2. ASSUME NEW i \in 1 .. n PROVE e[i] \in Allocated'
    <3>1. d + i - 1 \in 0 .. d + n - 1
      BY <2>1
    <3>2. QED
      BY <1>e, <2>1, <3>1 DEF Grown
  <2>3. e \in [1 .. n -> Allocated']
    BY <1>e, <2>2
  <2>4. e \in Seq(Allocated')
    BY <2>1, <2>3
  <2>5. Laid(o.dv, Len(o.elems))
    <3>1. Len(e) = n
      BY <1>e, <2>1
    <3>2. QED
      BY <1>d, <1>3, <1>4, <3>1 DEF Laid
  <2>6. QED
    BY <1>4, <2>4, <2>5 DEF WellFormed
<1>10. QED
  BY <1>1, <1>5, <1>7, <1>8, <1>9, ReplaceTwo

\* By what a build-in function gives.
LEMMA BuildInMem ==
  ASSUME MemInv, Inv', Promised, ExecBuildIn
  PROVE  Lawful
<1>1. /\ running = "RUNNING" /\ Works(prog, ip) /\ MemoryFits /\ Advance /\ UNCHANGED <<fp, pp, gp, prog, running>>
      /\ bc.type = "BUILD_IN" /\ ~Fails /\ Asserts
      /\ AllocateAll(Built) /\ Replace(Arguments, New(Len(Built)))
  BY WorksInstr DEF ExecBuildIn, regs, mode
<1>2. bc.lib \in {"STR", "STRF", "ORD", "CHR", "PRINT", "PRINTF", "PRINTC", "PRINTS", "LENGTH", "ASSERT", "ASSERTF",
                  "SQRT", "POW"}
  <2>1. KindsKnown(prog, ip)
    BY <1>1, ShapedHere DEF MemInv, Inv, Shaped
  <2>2. QED
    BY <1>1, <2>1 DEF KindsKnown, bc, Code
<1>3. Cells(bc) = IF bc.lib \in {"STR", "STRF"} THEN 2 ELSE 1
  BY <1>1 DEF Cells, CellsOfBuildIn, OneResult, Literals
<1>4. Takes(prog, ip) = Arguments
  BY <1>1 DEF Takes, Arguments, bc, Code, Assignments
<1>5. CASE bc.lib \in {"STR", "STRF"}
  <2>1. PICK text : text = IF bc.lib = "STR" THEN TextOfInt(Argument(0)) ELSE TextOfFloat(Argument(0))
    OBVIOUS
  <2>2. Built = <<StrObj(text), StrRefObj(New(1))>>
    BY <1>5, <2>1 DEF Built
  <2>3. AllocateAll(<<StrObj(text), StrRefObj(New(1))>>) /\ Replace(Takes(prog, ip), New(2))
    BY <1>1, <1>4, <2>2
  <2>4. QED
    BY <1>1, <1>3, <1>5, <2>3, ReplaceStringMem
<1>6. CASE bc.lib \notin {"STR", "STRF"}
  <2>1. \E o : /\ Built = <<o>>
               /\ o.type \in Literals \/ (bc.lib = "PRINTS" /\ o = StrRefObj(RefAt(0)))
    <3>1. CASE bc.lib \in {"ORD", "LENGTH", "ASSERT", "ASSERTF"}
      <4>1. \E x : Built = <<IntObj(x)>>
        BY <3>1 DEF Built
      <4>2. QED
        BY <4>1 DEF IntObj, Number, Literals
    <3>2. CASE bc.lib \in {"SQRT", "POW"}
      <4>1. \E x : Built = <<FloatObj(x)>>
        BY <3>2 DEF Built
      <4>2. QED
        BY <4>1 DEF FloatObj, Number, Literals
    <3>3. CASE bc.lib = "CHR"
      <4>1. \E x : Built = <<CharObj(x)>>
        BY <3>3 DEF Built
      <4>2. QED
        BY <4>1 DEF CharObj, Number, Literals
    <3>4. CASE bc.lib \in {"PRINT", "PRINTF", "PRINTC"}
      <4>1. Built = <<obj[Top(0)]>>
        BY <3>4 DEF Built
      <4>2. obj[Top(0)].type \in Literals
        BY <1>1, <3>4 DEF Promised, OperandsFit, KindOf
      <4>3. QED
        BY <4>1, <4>2
    <3>5. CASE bc.lib = "PRINTS"
      BY <3>5 DEF Built
    <3>6. QED
      BY <1>2, <1>6, <3>1, <3>2, <3>3, <3>4, <3>5
  <2>2. PICK o : /\ Built = <<o>>
                 /\ o.type \in Literals \/ (bc.lib = "PRINTS" /\ o = StrRefObj(RefAt(0)))
    BY <2>1
  <2>3. PICK os : os = <<o>>
    OBVIOUS
  <2>4. DOMAIN os = 1 .. 1 /\ Len(os) = 1 /\ \A i \in 1 .. 1 : os[i] = o
    BY <2>3
  <2>5. Added(os, 1)
    BY <1>1, <1>3, <1>6, <2>2, <2>3, <2>4, AllocatesAll DEF MemoryFits
  <2>6. o.type # "NULL" /\ (Grown => WellFormed(o)')
    <3>1. CASE o.type \in Literals
      BY <3>1, NumberIsWhole
    <3>2. CASE bc.lib = "PRINTS" /\ o = StrRefObj(RefAt(0))
      <4>1. PICK r : r = obj[Top(0)]
        OBVIOUS
      <4>2. r.type = "STR_REF"
        BY <1>1, <3>2, <4>1 DEF Promised, OperandsFit, KindOf
      <4>3. Top(0) \in Allocated
        <5>1. 0 \in 0 .. Takes(prog, ip) - 1
          BY <1>4, <3>2 DEF Arguments, ArgumentsOf
        <5>2. QED
          BY <1>1, <5>1, OperandsAbove
      <4>4. WellFormed(r)
        BY <4>1, <4>3 DEF MemInv, HeapOK
      <4>5. o.type = "STR_REF" /\ o.str = r.str
        BY <3>2, <4>1, <4>2 DEF RefAt, StrRefObj
      <4>6. WellFormed(o)
        BY <4>2, <4>4, <4>5 DEF WellFormed
      <4>7. QED
        BY <1>1, <4>5, <4>6, GrownWellFormed
    <3>3. QED
      BY <2>2, <3>1, <3>2
  <2>7. (\A i \in 1 .. 1 : os[i].type # "NULL") /\ (Grown => \A i \in 1 .. 1 : WellFormed(os[i])')
    BY <2>4, <2>6
  <2>8. 1 \in 1 .. 1 /\ Replace(Takes(prog, ip), New(1))
    BY <1>1, <1>4, <2>2, <2>3, <2>4
  <2>9. QED
    BY <1>1, <2>5, <2>7, <2>8, ReplaceNew
<1>7. QED
  BY <1>5, <1>6

-----------------------------------------------------------------------------
(***************************************************************************)
(* Arrays whose elements are new.                                          *)
(***************************************************************************)
LEMMA IsList ==
  ASSUME NEW k \in Nat, NEW S, NEW cells \in [1 .. k -> S]
  PROVE  cells \in Seq(S)
OBVIOUS

LEMMA MakesArray ==
  ASSUME MemInv, Inv', running = "RUNNING", Works(prog, ip), Advance, UNCHANGED <<fp, pp, gp, prog, running>>,
         MemoryFits, NEW k \in Nat, Cells(bc) = k + 2, NEW lens \in Seq(Nat), k = Size(lens), NEW elems, elems = [i \in 1 .. k |-> elems[i]],
         \A i \in 1 .. k : elems[i].type # "NULL" /\ (Grown => WellFormed(elems[i])'),
         MakeArray(Takes(prog, ip), lens, elems)
  PROVE  Lawful
<1>1. Len(elems) = k /\ DOMAIN elems = 1 .. k
  OBVIOUS
<1>c. PICK cells : cells = [i \in 1 .. k |-> New(i + 1)]
  OBVIOUS
<1>a. PICK a : a = ArrObj(DimVec(lens), cells)
  OBVIOUS
<1>r. PICK r : r = ArrRefObj(New(1))
  OBVIOUS
<1>o. PICK os : os = <<a>> \o elems \o <<r>>
  OBVIOUS
<1>2. /\ DOMAIN os = 1 .. k + 2 /\ os[1] = a /\ os[k + 2] = r
      /\ \A i \in 2 .. k + 1 : os[i] = elems[i - 1]
  <2>1. PICK es : es = <<a>> \o elems
    OBVIOUS
  <2>2. Len(<<a>>) = 1 /\ <<a>>[1] = a /\ Len(<<r>>) = 1 /\ <<r>>[1] = r
    OBVIOUS
  <2>3. es = [i \in 1 .. k + 1 |-> IF i <= 1 THEN a ELSE elems[i - 1]]
    BY <1>1, <2>1, <2>2
  <2>4. Len(es) = k + 1
    BY <2>3
  <2>5. os = [i \in 1 .. k + 2 |-> IF i <= k + 1 THEN es[i] ELSE r]
    BY <1>o, <2>1, <2>2, <2>4
  <2>6. QED
    BY <2>3, <2>5
<1>3. AllocateAll(os) /\ Replace(Takes(prog, ip), New(k + 2))
  BY <1>1, <1>c, <1>a, <1>r, <1>o DEF MakeArray
<1>4. Added(os, k + 2)
  BY <1>2, <1>3, AllocatesAll DEF MemoryFits
<1>5. /\ a.type = "ARR" /\ a.elems = cells /\ a.dv = DimVec(lens) /\ r.type = "ARR_REF" /\ r.arr = New(1)
  BY <1>a, <1>r DEF ArrObj, ArrRefObj
<1>6. \A i \in 1 .. k + 2 : os[i] = a \/ os[i] = r \/ \E j \in 1 .. k : os[i] = elems[j]
  <2> SUFFICES ASSUME NEW i \in 1 .. k + 2, i # 1, i # k + 2
               PROVE  \E j \in 1 .. k : os[i] = elems[j]
    BY <1>2
  <2>1. i \in 2 .. k + 1 /\ i - 1 \in 1 .. k
    OBVIOUS
  <2>2. QED
    BY <1>2, <2>1
<1>7. \A i \in 1 .. k + 2 : os[i].type # "NULL"
  BY <1>5, <1>6
<1>8. \A i \in 1 .. k + 2 : New(i) \in Addr /\ obj'[New(i)].type # "NULL"
  BY <1>4, <1>7 DEF Added, Free
<1>9. WellFormed(a)'
  <2>1. ASSUME NEW i \in 1 .. k PROVE New(i + 1) \in Allocated'
    <3>1. i + 1 \in 1 .. k + 2
      OBVIOUS
    <3>2. QED
      BY <1>8, <3>1 DEF Allocated
  <2>2. cells \in [1 .. k -> Allocated']
    BY <1>c, <2>1
  <2>3. cells \in Seq(Allocated')
    BY <2>2, IsList
  <2>4. Laid(a.dv, Len(a.elems))
    <3>1. Len(cells) = k
      BY <1>c
    <3>2. QED
      BY <1>5, <3>1 DEF Laid
  <2>5. QED
    BY <1>5, <2>3, <2>4 DEF WellFormed
<1>10. WellFormed(r)'
  <2>1. 1 \in 1 .. k + 2
    OBVIOUS
  <2>2. PICK n : n = New(1)
    OBVIOUS
  <2>3. n \in Addr /\ obj'[n] = a
    BY <1>2, <1>4, <1>8, <2>1, <2>2 DEF Added
  <2>4. n \in Allocated' /\ obj'[n].type = "ARR"
    BY <1>5, <2>3 DEF Allocated
  <2>5. QED
    BY <1>5, <2>2, <2>4 DEF WellFormed, Leading
<1>11. Grown => \A i \in 1 .. k + 2 : WellFormed(os[i])'
  <2> SUFFICES ASSUME Grown, NEW i \in 1 .. k + 2
               PROVE  WellFormed(os[i])'
    OBVIOUS
  <2>1. PICK o : o = os[i]
    OBVIOUS
  <2>2. o = a \/ o = r \/ \E j \in 1 .. k : o = elems[j]
    BY <1>6, <2>1
  <2>3. WellFormed(o)'
    BY <1>9, <1>10, <2>2
  <2>4. QED
    BY <2>1, <2>3
<1>12. k + 2 \in 1 .. k + 2
  OBVIOUS
<1>13. QED
  BY <1>3, <1>4, <1>7, <1>11, <1>12, ReplaceNew

LEMMA EmptyIsWhole ==
  ASSUME NEW comb \in Literals \cup {"STRING", "FUNC", "RECORD", "ARRAY"}
  PROVE  Empty(comb).type # "NULL" /\ WellFormed(Empty(comb))'
<1>1. CASE comb \in Literals
  <2>1. Empty(comb) = Number(comb, 0)
    BY <1>1 DEF Empty, Literals
  <2>2. Empty(comb).type = comb
    BY <2>1 DEF Number
  <2>3. QED
    BY <1>1, <2>2, NumberIsWhole
<1>2. CASE comb = "STRING"
  <2>1. Empty(comb) = StrRefObj(Nil)
    BY <1>2 DEF Empty, Literals
  <2>2. QED
    BY <2>1 DEF StrRefObj, WellFormed, Leading
<1>3. CASE comb = "FUNC"
  <2>1. Empty(comb) = FuncObj(Nil, Nil)
    BY <1>3 DEF Empty, Literals
  <2>2. QED
    BY <2>1 DEF FuncObj, WellFormed, Exists
<1>4. CASE comb = "RECORD"
  <2>1. Empty(comb) = VecRefObj(Nil)
    BY <1>4 DEF Empty, Literals
  <2>2. QED
    BY <2>1 DEF VecRefObj, WellFormed, Leading
<1>5. CASE comb = "ARRAY"
  <2>1. Empty(comb) = ArrRefObj(Nil)
    BY <1>5 DEF Empty, Literals
  <2>2. QED
    BY <2>1 DEF ArrRefObj, WellFormed, Leading
<1>6. QED
  BY <1>1, <1>2, <1>3, <1>4, <1>5

LEMMA MkArrayMem ==
  ASSUME MemInv, Inv', Promised, ExecMkArray
  PROVE  Lawful
<1>1. /\ running = "RUNNING" /\ Works(prog, ip) /\ MemoryFits /\ Advance /\ UNCHANGED <<fp, pp, gp, prog, running>>
      /\ bc.type = "MK_ARRAY" /\ ~Fails
  BY WorksInstr DEF ExecMkArray, regs, mode
<1>l. PICK lens, k : lens = IndexOf(bc.dims) /\ k = Size(IndexOf(bc.dims))
  OBVIOUS
<1>2. k \in Nat /\ lens \in Seq(Nat)
  <2>1. Failure = NewArrayFailure(bc.dims) /\ Failure = NoFailure
    BY <1>1 DEF Failure, Fails
  <2>2. \A i \in 1 .. bc.dims : ~(IntAt(Top(i - 1)) <= 0)
    BY <2>1 DEF NewArrayFailure, SomeBad, NoFailure, Failing, EXCEPT_NO_INDEX_OOB, EXCEPT_NO_UNKNOWN
  <2>3. lens \in Seq(Int) /\ bc.dims \in Nat
    BY <1>1, <1>l DEF Promised, OperandsFit, Works, bc, Code
  <2>4. lens = [i \in 1 .. bc.dims |-> IntAt(Top(i - 1))]
    BY <1>l DEF IndexOf
  <2>5. \A i \in 1 .. bc.dims : lens[i] \in Nat
    <3> SUFFICES ASSUME NEW i \in 1 .. bc.dims PROVE lens[i] \in Nat
      OBVIOUS
    <3>1. i \in DOMAIN lens /\ lens[i] = IntAt(Top(i - 1)) /\ ~(IntAt(Top(i - 1)) <= 0)
      BY <2>2, <2>4
    <3>2. lens[i] \in Int
      BY <2>3, <3>1
    <3>3. QED
      BY <3>1, <3>2
  <2>6. lens \in [1 .. bc.dims -> Nat]
    BY <2>4, <2>5
  <2>7. lens \in Seq(Nat)
    BY <2>3, <2>6
  <2>8. QED
    BY <1>l, <2>7, SizeIsNat
<1>3. Cells(bc) = k + 2 /\ Takes(prog, ip) = bc.dims
  BY <1>1, <1>l DEF Cells, OneResult, Literals, Takes, bc, Code, Assignments
<1>4. bc.comb \in Literals \cup {"STRING", "FUNC", "RECORD", "ARRAY"}
  <2>1. KindsKnown(prog, ip)
    BY <1>1, ShapedHere DEF MemInv, Inv, Shaped
  <2>2. QED
    BY <1>1, <2>1 DEF KindsKnown, bc, Code
<1>e. PICK e : e = Empty(bc.comb)
  OBVIOUS
<1>5. e.type # "NULL" /\ WellFormed(e)'
  <2>1. PICK comb : comb = bc.comb
    OBVIOUS
  <2>2. QED
    BY <1>4, <1>e, <2>1, EmptyIsWhole
<1>s. PICK elems : elems = [i \in 1 .. k |-> e]
  OBVIOUS
<1>6. MakeArray(Takes(prog, ip), lens, elems)
  BY <1>l, <1>3, <1>e, <1>s DEF ExecMkArray
<1>7. elems = [i \in 1 .. k |-> elems[i]] /\ \A i \in 1 .. k : elems[i] = e
  BY <1>s
<1>8. \A i \in 1 .. k : elems[i].type # "NULL" /\ (Grown => WellFormed(elems[i])')
  <2> SUFFICES ASSUME NEW i \in 1 .. k
               PROVE  elems[i].type # "NULL" /\ WellFormed(elems[i])'
    OBVIOUS
  <2>1. elems[i] = e
    BY <1>7
  <2>2. QED
    BY <1>5, <2>1
<1>9. QED
  BY <1>1, <1>2, <1>3, <1>6, <1>7, <1>8, <1>l, MakesArray

\* One of numbers.
LEMMA NumbersMem ==
  ASSUME MemInv, Inv', running = "RUNNING", Works(prog, ip), Advance, UNCHANGED <<fp, pp, gp, prog, running>>,
         MemoryFits, NEW k \in Nat, Cells(bc) = k + 2, NEW lens \in Seq(Nat), k = Size(lens), NEW ns, DOMAIN ns = 1 .. k,
         bc.on \in Literals, MakeArray(Takes(prog, ip), lens, Numbers(ns))
  PROVE  Lawful
<1>e. PICK elems : elems = Numbers(ns)
  OBVIOUS
<1>1. elems = [i \in 1 .. k |-> Number(bc.on, ns[i])]
  BY <1>e DEF Numbers
<1>2. elems = [i \in 1 .. k |-> elems[i]] /\ \A i \in 1 .. k : elems[i].type \in Literals
  BY <1>1 DEF Number
<1>3. \A i \in 1 .. k : elems[i].type # "NULL" /\ (Grown => WellFormed(elems[i])')
  <2> SUFFICES ASSUME NEW i \in 1 .. k
               PROVE  elems[i].type # "NULL" /\ WellFormed(elems[i])'
    OBVIOUS
  <2>1. PICK o : o = elems[i]
    OBVIOUS
  <2>2. o.type \in Literals
    BY <1>2, <2>1
  <2>3. QED
    BY <2>1, <2>2, NumberIsWhole
<1>4. MakeArray(Takes(prog, ip), lens, elems)
  BY <1>e
<1>5. QED
  BY <1>2, <1>3, <1>4, MakesArray

\* The operands that are arrays, and that such an instruction does not find nil,
\* have the elements their dimensions say.
LEMMA ArrayOperand ==
  ASSUME MemInv, running = "RUNNING", Works(prog, ip), NEW k \in 0 .. Takes(prog, ip) - 1,
         KindOf(k) = "ARR_REF", obj[Top(k)].arr # Nil
  PROVE  ArrAt(k).elems \in Seq(Allocated) /\ Laid(ArrAt(k).dv, Len(ArrAt(k).elems))
<1>1. Top(k) \in Allocated
  BY OperandsAbove
<1>2. obj[Top(k)].arr \in Allocated /\ obj[obj[Top(k)].arr].type = "ARR"
  BY <1>1 DEF MemInv, HeapOK, WellFormed, Leading, KindOf
<1>3. QED
  BY <1>2 DEF MemInv, HeapOK, WellFormed, ArrAt

LEMMA ArrayOnTop ==
  ASSUME MemInv, running = "RUNNING", Promised, ~Fails, Works(prog, ip),
         bc.type \in {"NEG_ARR", "ADD_ARR", "SUB_ARR", "MUL_ARR", "MUL_ARR_ARR"}
  PROVE  ArrAt(0).elems \in Seq(Allocated) /\ Laid(ArrAt(0).dv, Len(ArrAt(0).elems)) /\ bc.on \in Literals
<1>1. KindOf(0) = "ARR_REF"
  BY DEF Promised, OperandsFit
<1>2. Takes(prog, ip) \in {1, 2}
  BY DEF Takes, bc, Code, Assignments
<1>3. 0 \in 0 .. Takes(prog, ip) - 1
  BY <1>2
<1>4. obj[Top(0)].arr # Nil
  <2>1. CASE bc.type \in {"NEG_ARR", "MUL_ARR"}
    <3>1. Failure = FailsIf(IsNil(0), EXCEPT_NIL_POINTER)
      BY <2>1 DEF Failure
    <3>2. QED
      BY <3>1 DEF Fails, FailsIf, IsNil, NoFailure, Failing, EXCEPT_NIL_POINTER, EXCEPT_NO_UNKNOWN
  <2>2. CASE bc.type \in {"ADD_ARR", "SUB_ARR", "MUL_ARR_ARR"}
    <3>1. Failure = SizesFailure(bc.type)
      BY <2>2 DEF Failure
    <3>2. QED
      BY <3>1 DEF Fails, SizesFailure, IsNil, NoFailure, Failing, EXCEPT_NIL_POINTER, EXCEPT_NO_UNKNOWN
  <2>3. QED
    BY <2>1, <2>2
<1>5. ArrAt(0).elems \in Seq(Allocated) /\ Laid(ArrAt(0).dv, Len(ArrAt(0).elems))
  BY <1>1, <1>3, <1>4, ArrayOperand
<1>6. KindsKnown(prog, ip)
  BY ShapedHere DEF MemInv, Inv, Shaped
<1>7. bc.on \in Literals
  BY <1>6 DEF KindsKnown, bc, Code, Literals
<1>8. QED
  BY <1>5, <1>7

LEMMA BothArrays ==
  ASSUME MemInv, running = "RUNNING", Promised, ~Fails, Works(prog, ip),
         bc.type \in {"ADD_ARR", "SUB_ARR", "MUL_ARR_ARR"}
  PROVE  /\ Laid(ArrAt(1).dv, Len(ArrAt(1).elems)) /\ Laid(ArrAt(0).dv, Len(ArrAt(0).elems))
         /\ IF bc.type = "MUL_ARR_ARR" THEN CanMult(ArrAt(1).dv, ArrAt(0).dv) ELSE CanAdd(ArrAt(1).dv, ArrAt(0).dv)
<1>1. KindOf(1) = "ARR_REF"
  BY DEF Promised, OperandsFit
<1>2. 1 \in 0 .. Takes(prog, ip) - 1
  <2>1. Takes(prog, ip) = 2
    BY DEF Takes, bc, Code, Assignments
  <2>2. QED
    BY <2>1
<1>3. Failure = SizesFailure(bc.type) /\ Failure = NoFailure
  BY DEF Failure, Fails
<1>4. /\ obj[Top(1)].arr # Nil
      /\ IF bc.type = "MUL_ARR_ARR" THEN CanMult(ArrAt(1).dv, ArrAt(0).dv) ELSE CanAdd(ArrAt(1).dv, ArrAt(0).dv)
  BY <1>3 DEF SizesFailure, FailsIf, IsNil, NoFailure, Failing, EXCEPT_NIL_POINTER, EXCEPT_NO_ARR_SIZE,
              EXCEPT_NO_UNKNOWN
<1>5. QED
  BY <1>1, <1>2, <1>4, ArrayOperand, ArrayOnTop

\* The sizes of a matrix are the two factors of its number of elements.
LEMMA MatrixSize ==
  ASSUME NEW lens \in Seq(Nat), Len(lens) = 2
  PROVE  Size(lens) = lens[1] * lens[2]
<1>1. /\ SizeUpTo(lens)[0] = 1 /\ SizeUpTo(lens)[1] = SizeUpTo(lens)[1 - 1] * lens[1]
      /\ SizeUpTo(lens)[2] = SizeUpTo(lens)[2 - 1] * lens[2]
  BY SizeIs
<1>2. lens[1] \in Nat /\ lens[2] \in Nat
  <2>1. lens \in [1 .. Len(lens) -> Nat]
    OBVIOUS
  <2>2. 1 \in 1 .. Len(lens) /\ 2 \in 1 .. Len(lens)
    OBVIOUS
  <2>3. QED
    BY <2>1, <2>2
<1>3. SizeUpTo(lens)[1] = lens[1]
  BY <1>1, <1>2
<1>4. QED
  BY <1>1, <1>3 DEF Size

LEMMA MatrixIs ==
  ASSUME NEW dv, NEW n, Laid(dv, n), Len(dv) = 2
  PROVE  dv[1].elems \in Nat /\ dv[2].elems \in Nat /\ n = dv[1].elems * dv[2].elems
<1>1. PICK lens \in Seq(Nat) : dv = DimVec(lens) /\ n = Size(lens)
  BY DEF Laid
<1>2. Len(lens) = 2
  BY <1>1, LensIs
<1>3. dv[1].elems = lens[1] /\ dv[2].elems = lens[2]
  BY <1>1, <1>2 DEF DimVec
<1>4. lens[1] \in Nat /\ lens[2] \in Nat
  BY <1>2
<1>5. QED
  BY <1>1, <1>2, <1>3, <1>4, MatrixSize

LEMMA ArithmeticMem ==
  ASSUME MemInv, Inv', Promised, ExecNegArr \/ ExecMulArr \/ ExecSumArr
  PROVE  Lawful
<1>1. /\ running = "RUNNING" /\ Works(prog, ip) /\ MemoryFits /\ Advance /\ UNCHANGED <<fp, pp, gp, prog, running>>
      /\ bc.type \in {"NEG_ARR", "MUL_ARR", "ADD_ARR", "SUB_ARR"} /\ ~Fails
  BY WorksInstr DEF ExecNegArr, ExecMulArr, ExecSumArr, regs, mode
<1>2. ArrAt(0).elems \in Seq(Allocated) /\ Laid(ArrAt(0).dv, Len(ArrAt(0).elems)) /\ bc.on \in Literals
  BY <1>1, ArrayOnTop
<1>k. PICK k, lens : k = Len(ArrAt(0).elems) /\ lens = Lens(ArrAt(0).dv)
  OBVIOUS
<1>l. lens \in Seq(Nat) /\ k = Size(lens)
  BY <1>2, <1>k, LaidAgain
<1>3. k \in Nat /\ DOMAIN Ints(0) = 1 .. k
  BY <1>2, <1>k DEF Ints
<1>4. Cells(bc) = k + 2
  BY <1>1, <1>k DEF Cells, OneResult, Literals
<1>5. \E ns : DOMAIN ns = 1 .. k /\ MakeArray(Takes(prog, ip), Lens(ArrAt(0).dv), Numbers(ns))
  <2>1. CASE ExecNegArr
    <3>1. PICK ns : ns = [i \in DOMAIN Ints(0) |-> -Ints(0)[i]]
      OBVIOUS
    <3>2. Takes(prog, ip) = 1
      BY <2>1 DEF ExecNegArr, Instr, Takes, bc, Code, Assignments
    <3>3. QED
      BY <1>3, <2>1, <3>1, <3>2 DEF ExecNegArr
  <2>2. CASE ExecMulArr
    <3>1. PICK ns : ns = [i \in DOMAIN Ints(0) |-> Times(bc.on, IntAt(Top(1)), Ints(0)[i])]
      OBVIOUS
    <3>2. Takes(prog, ip) = 2
      BY <2>2 DEF ExecMulArr, Instr, Takes, bc, Code, Assignments
    <3>3. QED
      BY <1>3, <2>2, <3>1, <3>2 DEF ExecMulArr
  <2>3. CASE ExecSumArr
    <3>1. PICK ns : ns = [i \in DOMAIN Ints(0) |->
                            IF bc.type = "ADD_ARR" THEN Ints(1)[i] + Ints(0)[i] ELSE Ints(1)[i] - Ints(0)[i]]
      OBVIOUS
    <3>2. Takes(prog, ip) = 2
      BY <2>3 DEF ExecSumArr, Instr, Takes, bc, Code, Assignments
    <3>3. QED
      BY <1>3, <2>3, <3>1, <3>2 DEF ExecSumArr
  <2>4. QED
    BY <2>1, <2>2, <2>3
<1>6. PICK ns : DOMAIN ns = 1 .. k /\ MakeArray(Takes(prog, ip), lens, Numbers(ns))
  BY <1>5, <1>k
<1>7. QED
  BY <1>1, <1>2, <1>3, <1>4, <1>l, <1>6, NumbersMem

LEMMA MulArrArrMem ==
  ASSUME MemInv, Inv', Promised, ExecMulArrArr
  PROVE  Lawful
<1>1. /\ running = "RUNNING" /\ Works(prog, ip) /\ MemoryFits /\ Advance /\ UNCHANGED <<fp, pp, gp, prog, running>>
      /\ bc.type = "MUL_ARR_ARR" /\ ~Fails
  BY WorksInstr DEF ExecMulArrArr, regs, mode
<1>2. bc.on \in Literals
  BY <1>1, ArrayOnTop
<1>k. PICK k, lens : k = Size(lens) /\ lens = ProductDims(ArrAt(1).dv, ArrAt(0).dv)
  OBVIOUS
<1>3. k \in Nat /\ lens \in Seq(Nat)
  <2>1. /\ Laid(ArrAt(1).dv, Len(ArrAt(1).elems)) /\ Laid(ArrAt(0).dv, Len(ArrAt(0).elems))
        /\ CanMult(ArrAt(1).dv, ArrAt(0).dv)
    BY <1>1, BothArrays
  <2>2. ArrAt(1).dv[1].elems \in Nat /\ ArrAt(0).dv[2].elems \in Nat
    BY <2>1, MatrixIs DEF CanMult
  <2>3. lens \in Seq(Nat)
    BY <1>k, <2>2 DEF ProductDims
  <2>4. QED
    BY <1>k, <2>3, SizeIsNat
<1>4. Cells(bc) = k + 2 /\ Takes(prog, ip) = 2
  BY <1>1, <1>k DEF Cells, OneResult, Literals, Takes, bc, Code, Assignments
<1>p. PICK p : p = Product(ArrAt(1).dv, Ints(1), ArrAt(0).dv, Ints(0))
  OBVIOUS
<1>5. DOMAIN p = 1 .. k
  BY <1>k, <1>p DEF Product
<1>n. PICK ns : ns = [i \in DOMAIN p |-> SumOf(bc.on, p[i])]
  OBVIOUS
<1>6. DOMAIN ns = 1 .. k /\ MakeArray(Takes(prog, ip), lens, Numbers(ns))
  BY <1>4, <1>5, <1>k, <1>p, <1>n DEF ExecMulArrArr
<1>7. QED
  BY <1>1, <1>2, <1>3, <1>4, <1>k, <1>6, NumbersMem

-----------------------------------------------------------------------------
(***************************************************************************)
(* Instructions that write to a cell, go elsewhere, fail or stop.          *)
(***************************************************************************)
LEMMA AssignMem ==
  ASSUME MemInv, Inv', Promised, ExecAssign
  PROVE  Lawful
<1>1. /\ running = "RUNNING" /\ UNCHANGED <<stack, fp, pp, gp, prog, running>> /\ Advance
      /\ bc.type \in Assignments /\ ~Fails /\ sp' = sp - 1
      /\ obj' = [obj EXCEPT ![Top(1)] = obj[Top(0)]]
  BY DEF ExecAssign, Instr, Runs, regs, mode
<1>2. Works(prog, ip)
  BY <1>1, WorksHere DEF Assignments, MemInv
<1>3. Takes(prog, ip) = 2
  BY <1>1 DEF Takes, bc, Code, Assignments
<1>4. Top(1) \in Allocated /\ Top(0) \in Allocated /\ sp \in Int
  <2>1. 0 \in 0 .. Takes(prog, ip) - 1 /\ 1 \in 0 .. Takes(prog, ip) - 1
    BY <1>3
  <2>2. QED
    BY <1>1, <1>2, <2>1, OperandsAbove
<1>5. KindOf(1) = KindOf(0) /\ KindOf(0) # "VEC"
  BY <1>1 DEF Promised, OperandsFit, Literals
<1>6. WellFormed(obj[Top(0)])
  BY <1>4 DEF MemInv, HeapOK
<1>a. PICK a, o : a = Top(1) /\ o = obj[Top(0)]
  OBVIOUS
<1>7. /\ a \in Allocated /\ obj' = [obj EXCEPT ![a] = o] /\ o.type = obj[a].type /\ o.type # "VEC" /\ WellFormed(o)
      /\ prog' = prog /\ HeapOK
  BY <1>1, <1>4, <1>5, <1>6, <1>a DEF KindOf, MemInv
<1>8. HeapOK' /\ Grown
  BY <1>7, WritingKeeps
<1>9. FuncAt(ip') = FuncAt(ip) /\ sp' <= sp
  BY <1>1, <1>2, <1>4, AdvanceStays DEF Advance
<1>10. QED
  BY <1>1, <1>8, <1>9, PopMem

LEMMA RewriteMem ==
  ASSUME MemInv, Inv', Promised, ExecRewrite
  PROVE  Lawful
<1>1. /\ running = "RUNNING" /\ UNCHANGED <<stack, fp, pp, gp, prog, running>> /\ Advance
      /\ bc.type = "REWRITE" /\ ~Fails /\ sp' = sp - 1
      /\ obj' = [obj EXCEPT ![Top(bc.j)] = FuncObj(obj[Top(0)].vec, obj[Top(0)].addr)]
  BY DEF ExecRewrite, Instr, Runs, regs, mode
<1>2. Works(prog, ip)
  BY <1>1, WorksHere DEF MemInv
<1>3. Takes(prog, ip) = 1
  BY <1>1 DEF Takes, bc, Code, Assignments
<1>4. Top(0) \in Allocated /\ sp \in Int
  <2>1. 0 \in 0 .. Takes(prog, ip) - 1
    BY <1>3
  <2>2. QED
    BY <1>1, <1>2, <2>1, OperandsAbove
<1>5. KindOf(0) = "FUNC" /\ KindOf(bc.j) = "FUNC" /\ Top(bc.j) \in Allocated
  BY <1>1, <1>2, ValueIsThere DEF Promised, OperandsFit, Top
<1>a. PICK a, f, o : a = Top(bc.j) /\ f = obj[Top(0)] /\ o = FuncObj(obj[Top(0)].vec, obj[Top(0)].addr)
  OBVIOUS
<1>6. f.type = "FUNC" /\ WellFormed(f)
  BY <1>4, <1>5, <1>a DEF KindOf, MemInv, HeapOK
<1>7. o.type = "FUNC" /\ o.vec = f.vec /\ o.addr = f.addr
  BY <1>a DEF FuncObj
<1>8. WellFormed(o)
  BY <1>6, <1>7 DEF WellFormed
<1>9. /\ a \in Allocated /\ obj' = [obj EXCEPT ![a] = o] /\ o.type = obj[a].type /\ o.type # "VEC"
      /\ prog' = prog /\ HeapOK
  BY <1>1, <1>5, <1>7, <1>a DEF KindOf, MemInv
<1>10. HeapOK' /\ Grown
  BY <1>8, <1>9, WritingKeeps
<1>11. FuncAt(ip') = FuncAt(ip) /\ sp' <= sp
  BY <1>1, <1>2, <1>4, AdvanceStays DEF Advance
<1>12. QED
  BY <1>1, <1>10, <1>11, PopMem

LEMMA ArrayAppendMem ==
  ASSUME MemInv, Inv', Promised, ExecArrayAppend
  PROVE  Lawful
<1>1. /\ running = "RUNNING" /\ UNCHANGED <<stack, fp, pp, gp, prog, running>> /\ Advance
      /\ bc.type = "ARRAY_APPEND" /\ ~Fails /\ sp' = sp - 1
  BY DEF ExecArrayAppend, Instr, Runs, regs, mode
<1>2. Works(prog, ip)
  BY <1>1, WorksHere DEF MemInv
<1>3. Takes(prog, ip) = 1
  BY <1>1 DEF Takes, bc, Code, Assignments
<1>4. Top(0) \in Allocated /\ sp \in Int
  <2>1. 0 \in 0 .. Takes(prog, ip) - 1
    BY <1>3
  <2>2. QED
    BY <1>1, <1>2, <2>1, OperandsAbove
<1>r. PICK r : r = stack[Place].val
  OBVIOUS
<1>5. r \in Allocated /\ obj[r].type = "ARR_REF" /\ Len(obj[obj[r].arr].dv) = 1
  BY <1>1, <1>2, <1>r, ValueIsThere DEF Promised, OperandsFit, KindThere
<1>6. obj[r].arr # Nil
  <2>1. Failure = FailsIf(obj[r].arr = Nil, EXCEPT_NIL_POINTER)
    BY <1>1, <1>r DEF Failure
  <2>2. QED
    BY <1>1, <2>1 DEF Fails, FailsIf, NoFailure, Failing, EXCEPT_NIL_POINTER, EXCEPT_NO_UNKNOWN
<1>a. PICK a, e : a = obj[r].arr /\ e = Append(obj[a].elems, Top(0))
  OBVIOUS
<1>7. a \in Allocated /\ obj[a].type = "ARR"
  BY <1>5, <1>6, <1>a DEF MemInv, HeapOK, WellFormed, Leading
<1>8. obj[a].elems \in Seq(Allocated) /\ Laid(obj[a].dv, Len(obj[a].elems))
  BY <1>7 DEF MemInv, HeapOK, WellFormed
<1>9. e \in Seq(Allocated) /\ Len(e) = Len(obj[a].elems) + 1
  BY <1>4, <1>8, <1>a
<1>o. PICK o : o = ArrObj(Longer(obj[a].dv), e)
  OBVIOUS
<1>10. o.type = "ARR" /\ o.elems = e /\ o.dv = Longer(obj[a].dv)
  BY <1>o DEF ArrObj
<1>11. obj' = [obj EXCEPT ![a] = o]
  BY <1>r, <1>a, <1>o DEF ExecArrayAppend
<1>12. HeapOK' /\ Grown
  <2>0. Laid(o.dv, Len(o.elems))
    BY <1>5, <1>8, <1>9, <1>10, <1>a, LongerIsLaid
  <2>1. WellFormed(o)
    BY <1>9, <1>10, <2>0 DEF WellFormed
  <2>2. o.type = obj[a].type /\ o.type # "VEC" /\ prog' = prog /\ HeapOK
    BY <1>1, <1>7, <1>10 DEF MemInv
  <2>3. QED
    BY <1>7, <1>11, <2>1, <2>2, WritingKeeps
<1>13. FuncAt(ip') = FuncAt(ip) /\ sp' <= sp
  BY <1>1, <1>2, <1>4, AdvanceStays DEF Advance
<1>14. QED
  BY <1>1, <1>12, <1>13, PopMem

LEMMA IncIntMem ==
  ASSUME MemInv, Inv', Promised, ExecIncInt
  PROVE  Lawful
<1>1. /\ running = "RUNNING" /\ UNCHANGED <<stack, sp, fp, pp, gp, prog, running>> /\ Advance
      /\ bc.type = "OP_INC_INT" /\ ~Fails
  BY DEF ExecIncInt, Instr, Runs, regs, mode
<1>2. Works(prog, ip)
  BY <1>1, WorksHere DEF MemInv
<1>a. PICK a, o : a = stack[Place].val /\ o = IntObj(obj[stack[Place].val].value + 1)
  OBVIOUS
<1>3. a \in Allocated /\ obj[a].type = "INT"
  BY <1>1, <1>2, <1>a, ValueIsThere DEF Promised, OperandsFit, KindThere
<1>4. o.type = "INT" /\ obj' = [obj EXCEPT ![a] = o]
  BY <1>a DEF ExecIncInt, IntObj, Number
<1>5. WellFormed(o) /\ HeapOK /\ prog' = prog
  BY <1>1, <1>4 DEF WellFormed, MemInv
<1>6. HeapOK' /\ Grown
  BY <1>3, <1>4, <1>5, WritingKeeps
<1>7. FuncAt(ip') = FuncAt(ip) /\ sp' <= sp
  <2>1. sp \in Int
    BY DEF MemInv, Inv, Basics
  <2>2. QED
    BY <1>1, <1>2, <2>1, AdvanceStays DEF Advance
<1>8. QED
  BY <1>1, <1>6, <1>7, PopMem

\* Nothing is written.
LEMMA PassingMem ==
  ASSUME MemInv, Inv', ExecJumpz \/ ExecJump \/ ExecNothing \/ ExecFailing
  PROVE  Lawful
<1>1. running = "RUNNING" /\ UNCHANGED <<obj, stack, fp, pp, gp, prog, running>>
  BY DEF ExecJumpz, ExecJump, ExecNothing, ExecFailing, Instr, Runs, regs, mode
<1>2. sp \in Int
  BY DEF MemInv, Inv, Basics
<1>3. HeapOK' /\ Grown
  BY <1>1, SameHeap DEF MemInv
<1>4. FuncAt(ip') = FuncAt(ip) /\ sp' <= sp
  <2>1. CASE ExecJumpz
    <3>1. bc.type = "JUMPZ" /\ Works(prog, ip)
      BY <1>1, <2>1, WorksHere DEF ExecJumpz, Instr, MemInv
    <3>2. (ip' = ip + 1 \/ ip' = ip + 1 + bc.offset) /\ sp' = sp - 1
      BY <2>1 DEF ExecJumpz
    <3>3. QED
      BY <1>1, <1>2, <3>1, <3>2, AdvanceStays
  <2>2. CASE ExecJump \/ ExecNothing
    <3>1. bc.type \in {"JUMP", "LABEL", "FUNC_DEF", "FUNC_OBJ", "FUNC_FFI_TYPE"} /\ sp' = sp
      BY <2>2 DEF ExecJump, ExecNothing, Instr
    <3>2. Passes(prog, ip)
      BY <1>1, <3>1, ShapedHere DEF ShapedAt, bc, Code, MemInv
    <3>3. ip' = IF bc.type = "JUMP" THEN ip + 1 + bc.offset ELSE ip + 1
      BY <2>2 DEF ExecJump, ExecNothing, Instr, Advance
    <3>4. FuncAt(ip') = FuncAt(ip)
      BY <3>2, <3>3 DEF Passes, Leads, FuncAt, Funcs, bc, Code
    <3>5. QED
      BY <1>2, <3>1, <3>4
  <2>3. CASE ExecFailing
    <3>1. bc.type \in MayFail /\ Failure.taken \in 0 .. Takes(prog, ip)
      BY <1>1, <2>3, FailureTakes DEF ExecFailing, MemInv
    <3>2. Failure.taken \in Nat /\ sp' = sp - Failure.taken /\ ip' = HandlerOf(ip)
      BY <2>3, <3>1 DEF ExecFailing
    <3>3. FuncAt(ip') = FuncAt(ip)
      BY <1>1, <3>1, <3>2, ShapedHere DEF Handled, Leads, HandlerOf, ExcTab, bc, Code, FuncAt, Funcs, MemInv
    <3>4. QED
      BY <1>2, <3>2, <3>3
  <2>4. QED
    BY <2>1, <2>2, <2>3
<1>5. QED
  BY <1>1, <1>3, <1>4, PopMem

\* What has no value is left in memory, with nothing that refers to it.
LEMMA MathFailsMem ==
  ASSUME MemInv, Inv', ExecMathFails
  PROVE  Lawful
<1>1. /\ running = "RUNNING" /\ UNCHANGED <<stack, fp, pp, gp, prog, running>> /\ MemoryFits
      /\ bc.type = "BUILD_IN" /\ MathError # EXCEPT_NO_UNKNOWN /\ Allocate(FloatObj(0))
      /\ sp' = sp - Arguments + 1 /\ ip' = HandlerOf(ip)
  BY DEF ExecMathFails, Instr, Runs, regs
<1>2. Cells(bc) = 1
  <2>1. bc.lib \in {"SQRT", "POW"}
    BY <1>1 DEF MathError
  <2>2. Asserts
    BY <2>1 DEF Asserts
  <2>3. QED
    BY <1>1, <2>1, <2>2 DEF Cells, CellsOfBuildIn, OneResult, Literals
<1>o. PICK o : o = FloatObj(0)
  OBVIOUS
<1>3. Added(<<o>>, 1)
  BY <1>1, <1>2, <1>o, AllocatesOne DEF MemInv, MemoryFits
<1>s. PICK os : os = <<o>>
  OBVIOUS
<1>4. \A i \in 1 .. 1 : os[i] = o
  BY <1>s
<1>5. o.type # "NULL" /\ WellFormed(o)'
  BY <1>o, NumberIsWhole DEF FloatObj, Number, Literals
<1>6. HeapOK' /\ Grown
  <2>1. (\A i \in 1 .. 1 : os[i].type # "NULL") /\ (Grown => \A i \in 1 .. 1 : WellFormed(os[i])')
    BY <1>4, <1>5
  <2>2. QED
    BY <1>1, <1>3, <1>s, <2>1, AddingKeeps DEF MemInv
<1>7. FuncAt(ip') = FuncAt(ip) /\ sp' <= sp
  <2>1. sp \in Int /\ Arguments \in {1, 2}
    BY DEF MemInv, Inv, Basics, Arguments, ArgumentsOf
  <2>2. sp' <= sp
    BY <1>1, <2>1
  <2>3. FuncAt(ip') = FuncAt(ip)
    BY <1>1, ShapedHere DEF Handled, MayFail, Leads, HandlerOf, ExcTab, bc, Code, FuncAt, Funcs, MemInv
  <2>4. QED
    BY <2>2, <2>3
<1>8. QED
  BY <1>1, <1>6, <1>7, PopMem

LEMMA StopMem ==
  ASSUME MemInv, Inv', ExecAssertFails \/ ExecUnhandled \/ ExecHalt \/ Exhausted
  PROVE  Lawful
<1>1. UNCHANGED <<prog, obj, stack, sp, pp, gp>> /\ running = "RUNNING" /\ running' # "RUNNING"
  BY DEF ExecAssertFails, ExecUnhandled, ExecHalt, Exhausted, Instr, Runs, regs
<1>2. HeapOK' /\ Allocated' = Allocated
  BY <1>1, SameHeap DEF MemInv
<1>3. RootsOK'
  BY <1>1, <1>2 DEF MemInv, RootsOK, Exists
<1>4. MemInv'
  BY <1>1, <1>2, <1>3 DEF MemInv
\* The code of no function stops but by an assertion.
<1>5. pp # -1 => FuncAt(ip') = FuncAt(ip)
  <2>1. CASE ExecAssertFails
    <3>1. bc.type = "BUILD_IN" /\ ip' = ip + 1
      BY <2>1 DEF ExecAssertFails, Instr, Advance
    <3>2. Works(prog, ip)
      BY <1>1, <3>1, WorksHere DEF MemInv
    <3>3. QED
      BY <1>1, <3>1, <3>2, AdvanceStays
  <2>2. CASE ExecUnhandled \/ ExecHalt
    <3>1. bc.type \in {"HALT", "UNHANDLED_EXCEPTION"}
      BY <2>2 DEF ExecUnhandled, ExecHalt, Instr
    <3>2. ~InFunction(prog, ip)
      BY <1>1, <3>1, ShapedHere DEF ShapedAt, bc, Code, MemInv
    <3>3. pp = -1
      BY <1>1, <3>2 DEF MemInv, FrameInv, Here
    <3>4. QED
      BY <3>3
  <2>3. CASE Exhausted
    BY <1>1, <2>3 DEF Exhausted, FuncAt, Funcs
  <2>4. QED
    BY <2>1, <2>2, <2>3
<1>6. [Calls!Next]_CallStack
  <2>1. PICK F \in SUBSET Int, A \in SUBSET Int : FrameInv(F, A) /\ Held(F)
    BY <1>1 DEF MemInv
  <2>2. CapturedIn(obj', gp') = CapturedIn(obj, gp) /\ \A v : Remains(v)
    BY <1>1 DEF Remains, Allocated
  <2>3. \A i \in 0 .. pp : stack'[i] = stack[i]
    BY <1>1
  <2>4. QED
    BY <1>1, <1>5, <2>1, <2>2, <2>3, KeepsCalls
<1>7. QED
  BY <1>4, <1>6 DEF Lawful

-----------------------------------------------------------------------------
(***************************************************************************)
(* Frames, and instructions that push several new objects.                 *)
(***************************************************************************)

\* The objects os, one above the other.
LEMMA PushMany ==
  ASSUME MemInv, Inv', running = "RUNNING", Works(prog, ip), Advance, UNCHANGED <<fp, pp, gp, prog, running>>,
         NEW n \in Nat, NEW os, Added(os, n), sp' = sp + n,
         stack' = [i \in DOMAIN stack |-> IF i \in sp + 1 .. sp + n THEN AddrEntry(New(i - sp)) ELSE stack[i]],
         \A i \in 1 .. n : os[i].type # "NULL",
         Grown => \A i \in 1 .. n : WellFormed(os[i])'
  PROVE  Lawful
<1>1. HeapOK' /\ Grown /\ \A i \in 1 .. n : New(i) \in Allocated'
  BY AddingKeeps DEF MemInv
<1>2. /\ sp \in Int /\ fp \in Int /\ -1 <= fp /\ fp <= sp /\ StackSize \in Nat /\ sp < StackSize
      /\ DOMAIN stack = 0 .. StackSize - 1 /\ sp' < StackSize
  BY SizesAssumption DEF MemInv, Inv, Basics
<1>3. \A i \in 0 .. sp : stack'[i] = stack[i]
  BY <1>2
<1>4. ASSUME NEW i \in fp + 1 .. sp', stack'[i].type = "ADDR" PROVE stack'[i].val \in Allocated'
  <2>1. CASE i <= sp
    <3>1. i \in 0 .. sp /\ i \in fp + 1 .. sp
      BY <1>2, <2>1
    <3>2. QED
      BY <1>1, <1>3, <1>4, <3>1, AboveFrames DEF Grown
  <2>2. CASE i > sp
    <3>1. i \in sp + 1 .. sp + n /\ i \in 0 .. StackSize - 1 /\ i - sp \in 1 .. n
      BY <1>2, <2>2
    <3>2. stack'[i] = AddrEntry(New(i - sp))
      BY <1>2, <3>1
    <3>3. QED
      BY <1>1, <3>1, <3>2 DEF AddrEntry
  <2>3. QED
    BY <1>2, <2>1, <2>2
<1>5. FuncAt(ip') = FuncAt(ip)
  BY AdvanceStays DEF Advance
<1>6. \A i \in 0 .. fp : stack'[i] = stack[i]
  <2>1. \A i \in 0 .. fp : i \in 0 .. sp
    BY <1>2
  <2>2. QED
    BY <1>3, <2>1
<1>7. QED
  BY <1>1, <1>4, <1>5, <1>6, PlainMem

LEMMA AllocMem ==
  ASSUME MemInv, Inv', ExecAlloc
  PROVE  Lawful
<1>1. /\ running = "RUNNING" /\ Works(prog, ip) /\ MemoryFits /\ Advance /\ UNCHANGED <<fp, pp, gp, prog, running>>
      /\ bc.type = "ALLOC"
  BY WorksInstr DEF ExecAlloc, regs, mode
<1>n. PICK n : n = bc.n
  OBVIOUS
<1>2. n \in Nat
  BY <1>1, <1>n DEF Works, Leaves, bc, Code
<1>3. Cells(bc) = n
  BY <1>1, <1>n DEF Cells, OneResult, Literals
<1>o. PICK o, os : o = FuncObj(Nil, Nil) /\ os = [i \in 1 .. n |-> FuncObj(Nil, Nil)]
  OBVIOUS
<1>4. DOMAIN os = 1 .. n /\ \A i \in 1 .. n : os[i] = o
  BY <1>o
<1>5. Added(os, n)
  BY <1>1, <1>2, <1>3, <1>4, <1>n, <1>o, AllocatesAll DEF MemoryFits, ExecAlloc
<1>6. o.type # "NULL" /\ WellFormed(o)'
  BY <1>o DEF FuncObj, WellFormed, Exists
<1>7. (\A i \in 1 .. n : os[i].type # "NULL") /\ (Grown => \A i \in 1 .. n : WellFormed(os[i])')
  BY <1>4, <1>6
<1>8. /\ sp' = sp + n
      /\ stack' = [i \in DOMAIN stack |-> IF i \in sp + 1 .. sp + n THEN AddrEntry(New(i - sp)) ELSE stack[i]]
  BY <1>n DEF ExecAlloc
<1>9. QED
  BY <1>1, <1>2, <1>5, <1>7, <1>8, PushMany

LEMMA PushParamMem ==
  ASSUME MemInv, Inv', ExecPushParam
  PROVE  Lawful
<1>1. /\ running = "RUNNING" /\ Works(prog, ip) /\ MemoryFits /\ Advance /\ UNCHANGED <<fp, pp, gp, prog, running>>
      /\ bc.type = "PUSH_PARAM"
  BY WorksInstr DEF ExecPushParam, regs, mode
<1>n. PICK n : n = Len(Params)
  OBVIOUS
<1>2. n \in Nat
  BY <1>1, <1>n DEF Works, Leaves, bc, Code, Params
<1>3. Cells(bc) = n
  BY <1>1, <1>n DEF Cells, OneResult, Literals
<1>4. Shaped(prog) /\ \A i \in DOMAIN Params : Params[i].type \in Literals
  BY DEF MemInv, Inv, Shaped, Params
<1>o. PICK os : os = [i \in 1 .. n |-> Params[n + 1 - i]]
  OBVIOUS
<1>5. DOMAIN os = 1 .. n /\ \A i \in 1 .. n : os[i].type \in Literals
  <2>1. \A i \in 1 .. n : n + 1 - i \in DOMAIN Params
    BY <1>2, <1>4, <1>n DEF Shaped, Params
  <2>2. QED
    BY <1>4, <1>o, <2>1
<1>6. Added(os, n)
  BY <1>1, <1>2, <1>3, <1>5, <1>n, <1>o, AllocatesAll DEF MemoryFits, ExecPushParam
<1>7. (\A i \in 1 .. n : os[i].type # "NULL") /\ (Grown => \A i \in 1 .. n : WellFormed(os[i])')
  <2> SUFFICES ASSUME NEW i \in 1 .. n
               PROVE  os[i].type # "NULL" /\ WellFormed(os[i])'
    OBVIOUS
  <2>1. PICK o : o = os[i]
    OBVIOUS
  <2>2. o.type \in Literals
    BY <1>5, <2>1
  <2>3. QED
    BY <2>1, <2>2, NumberIsWhole
<1>8. /\ sp' = sp + n
      /\ stack' = [i \in DOMAIN stack |-> IF i \in sp + 1 .. sp + n THEN AddrEntry(New(i - sp)) ELSE stack[i]]
  BY <1>n DEF ExecPushParam
<1>9. QED
  BY <1>1, <1>2, <1>6, <1>7, <1>8, PushMany

LEMMA VectorForSame ==
  ASSUME NEW v, NEW x, NEW y, VectorFor(v, x), FuncAt(y) = FuncAt(x)
  PROVE  VectorFor(v, y)
BY DEF VectorFor, InFunction, FuncAt, Funcs

LEMMA MarkMem ==
  ASSUME MemInv, Inv', ExecMark
  PROVE  Lawful
<1>1. running = "RUNNING" /\ bc.type = "MARK" /\ sp + 5 < StackSize
  BY DEF ExecMark, Instr, Runs, StackFits, Pushes, Literals
<1>2. PICK F \in SUBSET Int, A \in SUBSET Int : FrameInv(F, A) /\ Held(F)
  BY <1>1 DEF MemInv
<1>3. /\ sp \in Int /\ fp \in Int /\ -1 <= fp /\ fp <= sp /\ StackSize \in Nat
      /\ stack = [i \in 0 .. StackSize - 1 |-> stack[i]]
      /\ F \subseteq 4 .. sp /\ fp \in F \cup {-1} /\ (\A d \in F : d <= fp) /\ (\A d \in F : Linked(F, A, d))
  <2>1. Inv
    BY DEF MemInv
  <2>2. /\ sp \in Int /\ fp \in Int /\ pp \in Int /\ -1 <= pp /\ pp <= fp /\ fp <= sp /\ StackSize \in Nat
        /\ stack = [i \in 0 .. StackSize - 1 |-> stack[i]]
        /\ F \subseteq 4 .. sp /\ fp \in F \cup {-1} /\ (\A d \in F : d <= fp) /\ (\A d \in F : Linked(F, A, d))
    BY <1>1, <1>2, <2>1, FrameFacts
  <2>3. QED
    BY <2>2
<1>c. PICK c \in Int : c = sp + 5
  BY <1>3
<1>r. PICK r : r = bc.addr
  OBVIOUS
<1>4. /\ sp' = c /\ fp' = c /\ UNCHANGED <<obj, pp, gp, prog, running>> /\ ip' = ip + 1
      /\ stack' = [i \in 0 .. StackSize - 1 |-> IF i \in sp + 1 .. sp + 5 THEN Frame(r)[i - sp] ELSE stack[i]]
  BY <1>3, <1>c, <1>r DEF ExecMark, Advance, mode
<1>5. /\ stack'[c - 2] = AddrEntry(gp) /\ stack'[c - 1] = StackEntry(fp) /\ stack'[c] = IpEntry(r)
      /\ stack'[c - 4].type # "ADDR" /\ stack'[c - 3].type # "ADDR"
  <2>1. \A k \in 1 .. 5 : stack'[sp + k] = Frame(r)[k]
    <3> SUFFICES ASSUME NEW k \in 1 .. 5
                 PROVE  stack'[sp + k] = Frame(r)[k]
      OBVIOUS
    <3>1. sp + k \in 0 .. StackSize - 1 /\ sp + k \in sp + 1 .. sp + 5 /\ (sp + k) - sp = k
      BY <1>1, <1>3
    <3>2. QED
      BY <1>4, <3>1
  <2>2. c - 4 = sp + 1 /\ c - 3 = sp + 2 /\ c - 2 = sp + 3 /\ c - 1 = sp + 4 /\ c = sp + 5
    BY <1>3, <1>c
  <2>3. /\ Frame(r)[3] = AddrEntry(gp) /\ Frame(r)[4] = StackEntry(fp) /\ Frame(r)[5] = IpEntry(r)
        /\ Frame(r)[1].type # "ADDR" /\ Frame(r)[2].type # "ADDR"
    BY DEF Frame, StackEntry, IpEntry
  <2>4. QED
    BY <2>1, <2>2, <2>3
<1>6. \A i \in 0 .. sp : stack'[i] = stack[i]
  BY <1>1, <1>3, <1>4
<1>7. PICK G \in SUBSET Int, B \in SUBSET Int : FrameInv(G, B)'
  BY <1>1, <1>4 DEF Inv
<1>8. c \in G /\ G \subseteq 4 .. c /\ (\A d \in G : d # c => d <= fp) /\ \A d \in G : Linked(G, B, d)'
  <2>1. G \subseteq 4 .. c /\ IsGreatest(c, G, c + 1) /\ \A d \in G : Linked(G, B, d)'
    BY <1>4, <1>7 DEF FrameInv
  <2>2. c \in G /\ \A d \in G : d \in Int /\ d <= c
    BY <1>3, <1>c, <2>1 DEF IsGreatest
  <2>3. Prev(c)' = fp
    BY <1>5 DEF Prev, StackEntry
  <2>4. IsGreatest(fp, G, c)
    BY <2>1, <2>2, <2>3 DEF Linked
  <2>5. QED
    BY <1>c, <2>1, <2>2, <2>4 DEF IsGreatest
<1>9. (\A d \in G : d # c => d \in F) /\ (\A d \in F : d \in G)
  <2>n. PICK n, m : n = StackSize /\ m = fp
    OBVIOUS
  <2>p. PICK prev : prev = [d \in Int |-> stack[d - 1].val]
    OBVIOUS
  <2> DEFINE H == G \ {c}
  <2>1. n \in Nat /\ F \in SUBSET (4 .. n) /\ H \in SUBSET (4 .. n) /\ m \in F \cup {-1}
    <3>1. \A d \in F : d \in 4 .. StackSize
      BY <1>1, <1>3
    <3>2. \A d \in H : d \in 4 .. StackSize
      BY <1>1, <1>3, <1>8
    <3>3. QED
      BY <1>3, <2>n, <3>1, <3>2
  <2>2. \A d \in F : IsGreatest(prev[d], F, d)
    BY <1>3, <2>p DEF Linked, Prev
  <2>3. \A d \in H : IsGreatest(prev[d], H, d)
    <3> SUFFICES ASSUME NEW d \in H
                 PROVE  IsGreatest(prev[d], H, d)
      OBVIOUS
    <3>1. d - 1 \in 0 .. sp /\ d \in Int /\ d < c
      BY <1>3, <1>8, <1>c
    <3>2. prev[d] = Prev(d)'
      BY <1>6, <2>p, <3>1 DEF Prev
    <3>3. IsGreatest(prev[d], G, d)
      BY <1>8, <3>2 DEF Linked
    <3>4. QED
      BY <3>1, <3>3 DEF IsGreatest
  <2>4. m \in H \cup {-1}
    <3>1. Prev(c)' = fp /\ IsGreatest(Prev(c)', G, c)
      BY <1>5, <1>8 DEF Prev, StackEntry, Linked
    <3>2. QED
      BY <1>3, <1>c, <2>n, <3>1 DEF IsGreatest
  <2>5. (\A d \in F : prev[d] \in F \cup {-1}) /\ (\A d \in H : prev[d] \in H \cup {-1})
    BY <2>2, <2>3 DEF IsGreatest
  <2> HIDE DEF H
  <2>6. \A d \in F : d <= m => d \in H
    BY <2>1, <2>2, <2>4, <2>5, ChainBelow, ZenonT(30)
  <2>7. \A d \in H : d <= m => d \in F
    BY <2>1, <2>3, <2>4, <2>5, ChainBelow, ZenonT(30)
  <2> USE DEF H
  <2>8. QED
    BY <1>3, <1>8, <2>n, <2>6, <2>7
<1>10. HeapOK' /\ Grown /\ Allocated' = Allocated
  BY <1>4, SameHeap DEF MemInv
<1>11. FuncAt(ip') = FuncAt(ip) /\ FuncAt(r) = FuncAt(ip)
  BY <1>1, <1>4, <1>r, ShapedHere DEF ShapedAt, Marks, Leads, bc, Code, FuncAt, Funcs, MemInv
<1>12. VectorFor(gp, ip) /\ Exists(gp)
  BY <1>1 DEF MemInv, VectorFor
<1>13. VectorFor(gp, ip)'
  <2>1. PICK v, x : v = gp /\ x = ip'
    OBVIOUS
  <2>2. VectorFor(v, x)
    BY <1>11, <1>12, <2>1, VectorForSame
  <2>3. VectorFor(v, x)'
    BY <1>4, <1>10, <2>2, GrownVectorFor
  <2>4. QED
    BY <1>4, <2>1, <2>3 DEF VectorFor
<1>14. ASSUME NEW d \in G PROVE VectorFor(Vec(d), Back(d))'
  <2>v. PICK v, x : v = Vec(d)' /\ x = Back(d)'
    OBVIOUS
  <2>1. CASE d = c
    <3>1. v = gp /\ x = r
      BY <1>5, <2>v, <2>1 DEF Vec, Back, AddrEntry, IpEntry
    <3>2. VectorFor(v, x)
      BY <1>11, <1>12, <3>1, VectorForSame
    <3>3. VectorFor(v, x)'
      BY <1>4, <1>10, <3>2, GrownVectorFor
    <3>4. QED
      BY <2>v, <3>3 DEF VectorFor
  <2>2. CASE d # c
    <3>1. d \in F /\ d \in 0 .. sp /\ d - 2 \in 0 .. sp
      BY <1>3, <1>9, <2>2
    <3>2. v = Vec(d) /\ x = Back(d)
      BY <1>6, <2>v, <3>1 DEF Vec, Back
    <3>3. VectorFor(v, x)
      BY <1>2, <3>1, <3>2 DEF Held
    <3>4. VectorFor(v, x)'
      BY <1>4, <1>10, <3>3, GrownVectorFor
    <3>5. QED
      BY <2>v, <3>4 DEF VectorFor
  <2>3. QED
    BY <2>1, <2>2
<1>15. ASSUME NEW i \in 0 .. sp', Outside(G, i), stack'[i].type = "ADDR"
       PROVE  stack'[i].val \in Allocated'
  <2>1. i \in 0 .. sp
    <3>1. c < i \/ i < c - 4
      BY <1>8, <1>15 DEF Outside
    <3>2. i \in Int /\ 0 <= i /\ i <= c
      BY <1>3, <1>4, <1>c
    <3>3. sp \in Int /\ c = sp + 5
      BY <1>3, <1>c
    <3>4. QED
      BY <3>1, <3>2, <3>3
  <2>2. Outside(F, i)
    BY <1>9, <1>15 DEF Outside
  <2>3. QED
    BY <1>2, <1>6, <1>10, <1>15, <2>1, <2>2 DEF Held
<1>16. Held(G)'
  BY <1>14, <1>15 DEF Held, Outside
<1>17. RootsOK'
  <2>1. ASSUME NEW i \in 0 .. sp', stack'[i].type = "ADDR" PROVE Exists(stack[i].val)'
    <3>1. CASE i <= sp
      <4>1. i \in 0 .. sp
        BY <1>3, <3>1
      <4>2. QED
        BY <1>6, <1>10, <2>1, <4>1, SMTT(30) DEF MemInv, RootsOK, Exists
    <3>2. CASE i > sp
      <4>1. i \in {c - 4, c - 3, c - 2, c - 1, c}
        BY <1>3, <1>4, <1>c, <3>2
      <4>2. i = c - 2
        BY <1>5, <2>1, <4>1 DEF StackEntry, IpEntry
      <4>3. QED
        BY <1>5, <1>10, <1>12, <4>2 DEF AddrEntry, Exists
    <3>3. QED
      BY <1>3, <1>4, <3>1, <3>2
  <2>2. QED
    BY <1>4, <1>10, <1>12, <2>1 DEF RootsOK, Exists
<1>18. MemInv'
  BY <1>7, <1>10, <1>13, <1>16, <1>17 DEF MemInv
<1>19. [Calls!Next]_CallStack
  <2>1. \A v : Remains(v)
    BY <1>10 DEF Grown, Remains
  <2>2. \A i \in 0 .. pp : stack'[i] = stack[i]
    BY <1>6 DEF MemInv, Inv, Basics
  <2>3. QED
    BY <1>1, <1>2, <1>4, <1>11, <2>1, <2>2, SameCalls
<1>20. QED
  BY <1>18, <1>19 DEF Lawful

\* What a CALL that does not raise finds on top of the stack: a function of
\* the program.
LEMMA CalleeFound ==
  ASSUME MemInv, Promised, running = "RUNNING", bc.type = "CALL", ~Fails
  PROVE  /\ WellFormed(obj[Top(0)])
         /\ obj[Top(0)].type = "FUNC"
         /\ obj[Top(0)].addr # Nil
<1>f. PICK f : f = obj[Top(0)]
  OBVIOUS
<1>1. Shape.known /\ Shape.height > Shape.mark /\ Shape.height \in Nat /\ Shape.mark \in Nat
  BY ShapedHere DEF ShapedAt, Calling, Shape, bc, Code, MemInv
<1>2. fp < sp /\ fp \in Int /\ sp \in Int
  <2>1. Inv
    BY DEF MemInv
  <2>2. PICK F \in SUBSET Int, A \in SUBSET Int : FrameInv(F, A)
    BY <2>1 DEF Inv
  <2>3. sp \in Int /\ fp \in Int /\ pp \in Int
    BY <2>1, <2>2, FrameFacts
  <2>4. sp = pp + Shape.height /\ fp = pp + Shape.mark
    BY <1>1, <2>2 DEF FrameInv, Here
  <2>5. QED
    BY <1>1, <2>3, <2>4
<1>3. sp \in fp + 1 .. sp /\ sp - 0 = sp
  BY <1>2
<1>4. stack[sp].type = "ADDR"
  BY <1>1, <1>3, Operands DEF MemInv
<1>5. Top(0) \in Allocated
  BY <1>3, <1>4, AboveFrames DEF Top
<1>6. WellFormed(f) /\ f.type = "FUNC"
  BY <1>f, <1>5 DEF MemInv, HeapOK, Promised, CallsFunction
<1>7. Failure = FailsIf(f.addr = Nil, EXCEPT_NIL_POINTER)
  BY <1>f DEF Failure, Assignments
<1>8. f.addr # Nil
  BY <1>7 DEF Fails, FailsIf, NoFailure, Failing, EXCEPT_NIL_POINTER, EXCEPT_NO_UNKNOWN
<1>9. QED
  BY <1>f, <1>6, <1>8

LEMMA CallMem ==
  ASSUME MemInv, Inv', Promised, ExecCall
  PROVE  Lawful
<1>1. /\ running = "RUNNING" /\ bc.type = "CALL" /\ ~Fails /\ UNCHANGED <<obj, stack, fp, prog, running>>
      /\ sp' = sp - 1 /\ gp' = obj[Top(0)].vec /\ ip' = obj[Top(0)].addr
  BY DEF ExecCall, Instr, Runs, mode
<1>2. PICK F \in SUBSET Int, A \in SUBSET Int : FrameInv(F, A) /\ Held(F)
  BY <1>1 DEF MemInv
<1>3. /\ sp \in Int /\ fp \in Int /\ pp \in Int /\ -1 <= fp
      /\ F \subseteq 4 .. sp /\ fp \in F \cup {-1} /\ (\A d \in F : d <= fp)
  <2>1. Inv
    BY DEF MemInv
  <2>2. /\ sp \in Int /\ fp \in Int /\ pp \in Int /\ -1 <= pp /\ pp <= fp
        /\ F \subseteq 4 .. sp /\ fp \in F \cup {-1} /\ (\A d \in F : d <= fp)
    BY <1>1, <1>2, <2>1, FrameFacts
  <2>3. QED
    BY <2>2
<1>4. fp < sp
  <2>1. Shape.known /\ Shape.height > Shape.mark /\ Shape.height \in Nat /\ Shape.mark \in Nat
    BY <1>1, ShapedHere DEF ShapedAt, Calling, Shape, bc, Code, MemInv
  <2>2. sp = pp + Shape.height /\ fp = pp + Shape.mark
    BY <1>2, <2>1 DEF FrameInv, Here
  <2>3. QED
    BY <1>3, <2>1, <2>2
<1>f. PICK f : f = obj[Top(0)]
  OBVIOUS
<1>5. WellFormed(f) /\ f.type = "FUNC" /\ f.addr # Nil
  BY <1>1, <1>f, CalleeFound
<1>7. VectorFor(f.vec, f.addr)
  BY <1>5 DEF WellFormed, VectorFor
<1>8. HeapOK' /\ Grown /\ Allocated' = Allocated
  BY <1>1, SameHeap DEF MemInv
<1>9. VectorFor(gp, ip)'
  <2>1. PICK v, x : v = f.vec /\ x = f.addr
    OBVIOUS
  <2>2. VectorFor(v, x)'
    BY <1>1, <1>7, <1>8, <2>1, GrownVectorFor
  <2>3. QED
    BY <1>1, <1>f, <2>1, <2>2 DEF VectorFor
<1>m. PICK m : m = fp
  OBVIOUS
<1>10. \A G, B \in SUBSET Int : FrameInv(G, B) => m \in G \cup {-1}
  BY <1>m DEF FrameInv, IsGreatest
<1>11. \A i \in 0 .. m : stack'[i] = stack[i] /\ (stack[i].type = "ADDR" => Remains(stack[i].val))
  BY <1>1, <1>8 DEF Remains, Grown
<1>12. \A i \in m + 1 .. sp' : stack'[i].type = "ADDR" => stack'[i].val \in Allocated'
  <2>1. \A i \in fp + 1 .. sp' : i \in fp + 1 .. sp
    BY <1>1, <1>3
  <2>2. QED
    BY <1>1, <1>8, <1>m, <2>1, AboveFrames
<1>13. m \in Int /\ m = fp' /\ m <= sp /\ running' = "RUNNING"
  BY <1>1, <1>3, <1>4, <1>m
<1>14. MemInv'
  BY <1>1, <1>8, <1>9, <1>10, <1>11, <1>12, <1>13, KeptStep
<1>15. [Calls!Next]_CallStack
  <2>1. pp' = fp
    BY DEF ExecCall
  <2>2. CASE fp # pp
    BY <1>1, <1>2, <2>1, <2>2, BeginsCall
\* A tail call.
  <2>3. CASE fp = pp
    <3>1. CallsFunction
      BY <1>1 DEF Promised
    <3>2. FuncAt(f.addr) = FuncAt(ip) /\ Captured(f.vec) = Captured(gp)
      BY <1>f, <2>3, <3>1 DEF CallsFunction
    <3>3. CapturedIn(obj', gp') = CapturedIn(obj, gp)
      BY <1>1, <1>f, <3>2 DEF Captured, CapturedIn, Allocated
    <3>4. FuncAt(ip') = FuncAt(ip)
      BY <1>1, <1>f, <3>2
    <3>5. \A v : Remains(v)
      BY <1>8 DEF Grown, Remains
    <3>6. QED
      BY <1>1, <1>2, <2>1, <2>3, <3>3, <3>4, <3>5, KeepsCalls
  <2>4. QED
    BY <2>2, <2>3
<1>16. QED
  BY <1>14, <1>15 DEF Lawful

LEMMA ClearStackMem ==
  ASSUME MemInv, Inv', ExecClearStack
  PROVE  Lawful
<1>1. /\ running = "RUNNING" /\ bc.type = "CLEAR_STACK" /\ UNCHANGED <<obj, stack, pp, gp, prog, running>>
      /\ fp' = pp /\ sp' = pp + bc.count /\ ip' = ip + 1
  BY DEF ExecClearStack, Instr, Runs, Advance, mode
<1>2. PICK F \in SUBSET Int, A \in SUBSET Int : FrameInv(F, A) /\ Held(F)
  BY <1>1 DEF MemInv
<1>3. /\ sp \in Int /\ fp \in Int /\ pp \in Int /\ -1 <= pp /\ pp <= fp /\ fp <= sp
      /\ F \subseteq 4 .. sp /\ A \subseteq F /\ pp \in A \cup {-1} /\ (\A a \in A : a <= pp)
      /\ (\A d \in F : Linked(F, A, d))
      /\ Owned(F, A) /\ Here
  BY <1>1, <1>2, FrameFacts DEF MemInv
<1>n. PICK n : n = ParamsAt(prog, ip)
  OBVIOUS
<1>4. ~Shape.known /\ n \in Nat /\ bc.count = n /\ Leads(prog, ip, ip + 1, At(n, 0))
  BY <1>1, <1>n, ShapedHere DEF ShapedAt, Clears, Shape, bc, Code, MemInv
<1>5. sp' = pp + n /\ sp >= pp + n
  BY <1>1, <1>3, <1>4, <1>n DEF Here
<1>6. HeapOK' /\ Grown /\ Allocated' = Allocated
  BY <1>1, SameHeap DEF MemInv
<1>7. VectorFor(gp, ip)'
  <2>1. PICK v, x : v = gp /\ x = ip'
    OBVIOUS
  <2>2. VectorFor(v, x)
    <3>1. FuncAt(ip') = FuncAt(ip)
      BY <1>1, <1>4 DEF Leads, FuncAt, Funcs
    <3>2. QED
      BY <1>1, <2>1, <3>1, VectorForSame DEF MemInv
  <2>3. VectorFor(v, x)'
    BY <1>1, <1>6, <2>2, GrownVectorFor
  <2>4. QED
    BY <1>1, <2>1, <2>3 DEF VectorFor
<1>m. PICK m : m = pp
  OBVIOUS
<1>8. \A G, B \in SUBSET Int : FrameInv(G, B) => m \in G \cup {-1}
  BY <1>m DEF FrameInv, IsGreatest
<1>9. \A i \in 0 .. m : stack'[i] = stack[i] /\ (stack[i].type = "ADDR" => Remains(stack[i].val))
  BY <1>1, <1>6 DEF Remains, Grown
<1>10. \A i \in m + 1 .. sp' : stack'[i].type = "ADDR" => stack'[i].val \in Allocated'
  <2> SUFFICES ASSUME NEW i \in pp + 1 .. pp + n, stack[i].type = "ADDR"
               PROVE  stack[i].val \in Allocated
    BY <1>1, <1>5, <1>6, <1>m
  <2>1. i \in Int /\ pp < i /\ i <= pp + n /\ i \in 0 .. sp
    BY <1>3, <1>4, <1>5
  <2>2. Outside(F, i)
    <3> SUFFICES ASSUME NEW d \in F
                 PROVE  d < i \/ i < d - 4
      BY DEF Outside
    <3>0. d \in Int /\ Linked(F, A, d)
      BY <1>3
    <3>1. CASE d <= pp
      BY <1>3, <2>1, <3>0, <3>1
    <3>2. CASE d > pp
      <4>1. FuncAt(Back(d)) = FuncAt(ip)
        BY <1>3, <3>2 DEF Owned
      <4>2. ParamsAt(prog, Back(d)) = n
        BY <1>n, <4>1 DEF ParamsAt, FuncAt, Funcs
      <4>3. d - 4 > Base(d) + n /\ Base(d) \in Int /\ \A a \in A : a < d => a <= Base(d)
        BY <1>3, <3>0, <4>2, LinkFacts DEF MemInv
      <4>4. -1 <= Base(d)
        BY <1>3, <3>0, LinkFacts DEF MemInv
      <4>5. pp <= Base(d)
        BY <1>3, <3>2, <4>3, <4>4
      <4>6. QED
        BY <1>3, <1>4, <2>1, <3>0, <4>3, <4>5
    <3>3. QED
      BY <1>3, <3>0, <3>1, <3>2
  <2>3. QED
    BY <1>2, <2>1, <2>2 DEF Held
<1>11. m \in Int /\ m = fp' /\ m <= sp /\ running' = "RUNNING"
  BY <1>1, <1>3, <1>m
<1>12. MemInv'
  BY <1>1, <1>6, <1>7, <1>8, <1>9, <1>10, <1>11, KeptStep
<1>13. [Calls!Next]_CallStack
  <2>1. \A v : Remains(v)
    BY <1>6 DEF Grown, Remains
  <2>2. FuncAt(ip') = FuncAt(ip)
    BY <1>1, <1>4 DEF Leads, FuncAt, Funcs
  <2>3. QED
    BY <1>1, <1>2, <2>1, <2>2, SameCalls
<1>14. QED
  BY <1>12, <1>13 DEF Lawful

-----------------------------------------------------------------------------
(***************************************************************************)
(* What the collector takes for reachable: Reach, level by level.  There   *)
(* are fewer cells than levels, so the last level adds none and the cells  *)
(* reached are closed under what they point to.                            *)
(***************************************************************************)
LEMMA AllNumbers ==
  ASSUME NEW S, 0 \in S, \A n \in Nat : n \in S => n + 1 \in S
  PROVE  Nat \subseteq S
<1> SUFFICES ASSUME Nat \ S # {}
             PROVE  FALSE
  OBVIOUS
<1>1. PICK k \in Nat \ S : \A j \in Nat \ S : ~(<<j, k>> \in OpToRel(<, Nat))
  BY WFMin, NatLessThanWellFounded
<1>2. \A j \in Nat \ S : ~(j < k)
  BY <1>1 DEF OpToRel
<1>3. k \in Nat /\ k # 0
  OBVIOUS
<1> HIDE <1>1
<1>4. k - 1 \in Nat /\ k - 1 < k /\ (k - 1) + 1 = k
  BY <1>3
<1>5. QED
  BY <1>2, <1>4

Wider(h, L) == UNION {S \cup ((UNION {PtrsOf(h[a]) : a \in S}) \ {Nil}) : S \in {L}}
AreLevels(h, R, n, f) == f = [k \in 0 .. n |-> IF k = 0 THEN R \ {Nil} ELSE Wider(h, f[k - 1])]

LEMMA WiderIs ==
  ASSUME NEW h, NEW L
  PROVE  /\ L \subseteq Wider(h, L)
         /\ \A a \in L : PtrsOf(h[a]) \subseteq Wider(h, L) \cup {Nil}
         /\ \A b \in Wider(h, L) : b \in L \/ (b # Nil /\ \E a \in L : b \in PtrsOf(h[a]))
<1>u. PICK U : U = {PtrsOf(h[a]) : a \in L}
  OBVIOUS
<1>1. Wider(h, L) = L \cup ((UNION U) \ {Nil})
  BY <1>u DEF Wider
<1>2. ASSUME NEW a \in L, NEW b \in PtrsOf(h[a]), b # Nil
      PROVE  b \in Wider(h, L)
  <2>1. PtrsOf(h[a]) \in U
    BY <1>u
  <2>2. b \in UNION U
    BY <2>1
  <2>3. QED
    BY <1>1, <1>2, <2>2
<1>3. ASSUME NEW b \in Wider(h, L), b \notin L
      PROVE  b # Nil /\ \E a \in L : b \in PtrsOf(h[a])
  <2>1. b # Nil /\ \E u \in U : b \in u
    BY <1>1, <1>3
  <2>2. PICK u \in U : b \in u
    BY <2>1
  <2>3. PICK a \in L : u = PtrsOf(h[a])
    BY <1>u
  <2>4. QED
    BY <2>1, <2>2, <2>3
<1>4. QED
  BY <1>1, <1>2, <1>3

LEMMA LevelsExist ==
  ASSUME NEW h, NEW R
  PROVE  \A n \in Nat : \E f : AreLevels(h, R, n, f)
<1> DEFINE T == {n \in Nat : \E f : AreLevels(h, R, n, f)}
<1>1. 0 \in T
  <2> DEFINE f == [k \in 0 .. 0 |-> R \ {Nil}]
  <2>1. AreLevels(h, R, 0, f)
    BY DEF AreLevels
  <2> HIDE DEF f
  <2>2. QED
    BY <2>1
<1>2. ASSUME NEW n \in Nat, n \in T PROVE n + 1 \in T
  <2>1. PICK g : AreLevels(h, R, n, g)
    BY <1>2
  <2> DEFINE f == [k \in 0 .. n + 1 |-> IF k = n + 1 THEN Wider(h, g[n]) ELSE g[k]]
  <2>2. \A k \in 0 .. n : f[k] = g[k]
    OBVIOUS
  <2>3. \A k \in 0 .. n + 1 : f[k] = IF k = 0 THEN R \ {Nil} ELSE Wider(h, f[k - 1])
    <3> SUFFICES ASSUME NEW k \in 0 .. n + 1
                 PROVE  f[k] = IF k = 0 THEN R \ {Nil} ELSE Wider(h, f[k - 1])
      OBVIOUS
    <3>1. CASE k = n + 1
      <4>1. f[k - 1] = g[n] /\ k # 0
        BY <2>2, <3>1
      <4>2. QED
        BY <3>1, <4>1
    <3>2. CASE k # n + 1
      <4>1. k \in 0 .. n /\ (k # 0 => k - 1 \in 0 .. n)
        BY <3>2
      <4>2. g[k] = IF k = 0 THEN R \ {Nil} ELSE Wider(h, g[k - 1])
        BY <2>1, <4>1 DEF AreLevels
      <4> HIDE DEF f
      <4>3. QED
        BY <2>2, <4>1, <4>2
    <3>3. QED
      BY <3>1, <3>2
  <2>4. f = [k \in 0 .. n + 1 |-> f[k]]
    OBVIOUS
  <2> HIDE DEF f
  <2>5. AreLevels(h, R, n + 1, f)
    BY <2>3, <2>4 DEF AreLevels
  <2>6. QED
    BY <2>5
<1> HIDE DEF T
<1>3. Nat \subseteq T
  BY <1>1, <1>2, AllNumbers
<1>4. QED
  BY <1>3 DEF T

LEMMA ReachLevels ==
  ASSUME NEW h, NEW R
  PROVE  \E f : /\ Reach(h, R) = f[MemSize]
                /\ f[0] = R \ {Nil}
                /\ \A k \in 0 .. MemSize - 1 : f[k + 1] = Wider(h, f[k])
<1>1. MemSize \in Nat
  BY SizesAssumption
<1>2. \E f : AreLevels(h, R, MemSize, f)
  BY <1>1, LevelsExist
<1>3. PICK f : f = CHOOSE g : AreLevels(h, R, MemSize, g)
  OBVIOUS
<1>4. Reach(h, R) = f[MemSize]
  BY <1>3 DEF Reach, AreLevels, Wider
<1>5. AreLevels(h, R, MemSize, f)
  BY <1>2, <1>3
<1>6. f[0] = R \ {Nil}
  BY <1>1, <1>5 DEF AreLevels
<1>7. ASSUME NEW k \in 0 .. MemSize - 1 PROVE f[k + 1] = Wider(h, f[k])
  <2>1. k + 1 \in 0 .. MemSize /\ k + 1 # 0 /\ (k + 1) - 1 = k
    BY <1>1
  <2>2. QED
    BY <1>5, <2>1 DEF AreLevels
<1>8. QED
  BY <1>4, <1>6, <1>7

\* A closed set above the roots holds what is reached.
LEMMA ReachWithin ==
  ASSUME NEW h, NEW R, NEW S, R \ {Nil} \subseteq S, \A a \in S : PtrsOf(h[a]) \subseteq S \cup {Nil}
  PROVE  Reach(h, R) \subseteq S
<1>1. PICK f : /\ Reach(h, R) = f[MemSize]
               /\ f[0] = R \ {Nil}
               /\ \A k \in 0 .. MemSize - 1 : f[k + 1] = Wider(h, f[k])
  BY ReachLevels
<1>2. MemSize \in Nat
  BY SizesAssumption
<1> DEFINE T == {k \in Nat : k <= MemSize => f[k] \subseteq S}
<1>3. 0 \in T
  BY <1>1
<1>4. ASSUME NEW k \in Nat, k \in T PROVE k + 1 \in T
  <2> SUFFICES ASSUME k + 1 <= MemSize
               PROVE  f[k + 1] \subseteq S
    OBVIOUS
  <2>1. k \in 0 .. MemSize - 1 /\ k <= MemSize
    BY <1>2
  <2>2. f[k] \subseteq S
    BY <1>4, <2>1
  <2>3. \A b \in f[k + 1] : b \in f[k] \/ (b # Nil /\ \E a \in f[k] : b \in PtrsOf(h[a]))
    BY <1>1, <2>1, WiderIs
  <2>4. QED
    BY <2>2, <2>3
<1> HIDE DEF T
<1>5. Nat \subseteq T
  BY <1>3, <1>4, AllNumbers
<1>6. QED
  BY <1>1, <1>2, <1>5 DEF T

\* What is reached holds the roots and, in a memory of so many cells, is closed.
LEMMA ReachIsClosed ==
  ASSUME NEW h, NEW R, NEW S \in SUBSET Addr, R \ {Nil} \subseteq S,
         \A a \in S : PtrsOf(h[a]) \subseteq S \cup {Nil}
  PROVE  /\ R \ {Nil} \subseteq Reach(h, R)
         /\ \A a \in Reach(h, R) : PtrsOf(h[a]) \subseteq Reach(h, R) \cup {Nil}
<1>1. PICK f : /\ Reach(h, R) = f[MemSize]
               /\ f[0] = R \ {Nil}
               /\ \A k \in 0 .. MemSize - 1 : f[k + 1] = Wider(h, f[k])
  BY ReachLevels
<1>2. MemSize \in Nat
  BY SizesAssumption
<1> DEFINE T == {k \in Nat : k <= MemSize =>
                   /\ f[k] \subseteq S /\ R \ {Nil} \subseteq f[k]
                   /\ f[k] = Wider(h, f[k]) \/ Cardinality(f[k]) >= k}
<1>0. ASSUME NEW L, L \subseteq S
      PROVE  IsFiniteSet(L) /\ Cardinality(L) \in Nat /\ Cardinality(L) <= MemSize - 1
  <2>1. IsFiniteSet(Addr) /\ Cardinality(Addr) = MemSize - 1 /\ L \in SUBSET Addr
    BY <1>0, FreeIsFinite
  <2>2. IsFiniteSet(L) /\ Cardinality(L) <= Cardinality(Addr)
    BY <2>1, FS_Subset
  <2>3. QED
    BY <2>1, <2>2, FS_CardinalityType
<1>3. 0 \in T
  <2>1. f[0] \subseteq S /\ R \ {Nil} \subseteq f[0]
    BY <1>1
  <2>2. Cardinality(f[0]) >= 0
    BY <1>0, <2>1
  <2>3. QED
    BY <2>1, <2>2
<1>4. ASSUME NEW k \in Nat, k \in T PROVE k + 1 \in T
  <2> SUFFICES ASSUME k + 1 <= MemSize
               PROVE  /\ f[k + 1] \subseteq S /\ R \ {Nil} \subseteq f[k + 1]
                      /\ f[k + 1] = Wider(h, f[k + 1]) \/ Cardinality(f[k + 1]) >= k + 1
    OBVIOUS
  <2>1. k \in 0 .. MemSize - 1 /\ k <= MemSize
    BY <1>2
  <2>2. f[k] \subseteq S /\ R \ {Nil} \subseteq f[k] /\ (f[k] = Wider(h, f[k]) \/ Cardinality(f[k]) >= k)
    BY <1>4, <2>1
  <2>3. /\ f[k + 1] = Wider(h, f[k]) /\ f[k] \subseteq f[k + 1]
        /\ \A b \in f[k + 1] : b \in f[k] \/ (b # Nil /\ \E a \in f[k] : b \in PtrsOf(h[a]))
    BY <1>1, <2>1, WiderIs
  <2>4. f[k + 1] \subseteq S /\ R \ {Nil} \subseteq f[k + 1] /\ f[k] \subseteq f[k + 1]
    BY <2>2, <2>3
  <2>5. CASE f[k] = f[k + 1]
    BY <2>3, <2>4, <2>5
  <2>6. CASE f[k] # f[k + 1]
    <3>1. Cardinality(f[k]) >= k
      BY <2>2, <2>3, <2>6
    <3>2. IsFiniteSet(f[k + 1])
      BY <1>0, <2>4
    <3>3. Cardinality(f[k]) <= Cardinality(f[k + 1]) /\ Cardinality(f[k]) # Cardinality(f[k + 1])
      BY <2>4, <2>6, <3>2, FS_Subset
    <3>4. Cardinality(f[k]) \in Nat /\ Cardinality(f[k + 1]) \in Nat
      BY <1>0, <2>2, <2>4
    <3>5. Cardinality(f[k + 1]) >= k + 1
      BY <3>1, <3>3, <3>4
    <3>6. QED
      BY <2>4, <3>5
  <2>7. QED
    BY <2>5, <2>6
<1> HIDE DEF T
<1>5. Nat \subseteq T
  BY <1>3, <1>4, AllNumbers
<1>6. f[MemSize] \subseteq S /\ R \ {Nil} \subseteq f[MemSize]
      /\ (f[MemSize] = Wider(h, f[MemSize]) \/ Cardinality(f[MemSize]) >= MemSize)
  BY <1>2, <1>5 DEF T
<1>7. Cardinality(f[MemSize]) \in Nat /\ Cardinality(f[MemSize]) <= MemSize - 1
  BY <1>0, <1>6
<1>8. f[MemSize] = Wider(h, f[MemSize])
  BY <1>2, <1>6, <1>7
<1>9. QED
  BY <1>1, <1>6, <1>8, WiderIs

LEMMA WholePointsInside ==
  ASSUME HeapOK, NEW a \in Allocated
  PROVE  PtrsOf(obj[a]) \subseteq Allocated \cup {Nil}
<1>1. PICK o : o = obj[a]
  OBVIOUS
<1>2. WellFormed(o) /\ o.type # "NULL"
  BY <1>1 DEF HeapOK, Allocated
<1>3. \A t, v : Leading(v, t) => v \in Allocated \cup {Nil}
  BY DEF Leading
<1>4. CASE o.type = "FUNC"
  BY <1>1, <1>2, <1>4 DEF WellFormed, PtrsOf, Exists
<1>5. CASE o.type = "VEC_REF"
  BY <1>1, <1>2, <1>3, <1>5 DEF WellFormed, PtrsOf
<1>6. CASE o.type = "ARR_REF"
  BY <1>1, <1>2, <1>3, <1>6 DEF WellFormed, PtrsOf
<1>7. CASE o.type = "STR_REF"
  BY <1>1, <1>2, <1>3, <1>7 DEF WellFormed, PtrsOf
<1>8. CASE o.type \in {"VEC", "ARR"}
  <2>1. o.elems \in Seq(Allocated)
    BY <1>1, <1>2, <1>8 DEF WellFormed
  <2>2. PtrsOf(o) = {o.elems[i] : i \in DOMAIN o.elems}
    BY <1>8 DEF PtrsOf
  <2>3. \A i \in DOMAIN o.elems : o.elems[i] \in Allocated
    BY <2>1
  <2>4. QED
    BY <1>1, <2>2, <2>3
<1>9. CASE o.type \notin {"FUNC", "VEC_REF", "ARR_REF", "STR_REF", "VEC", "ARR"}
  BY <1>1, <1>9 DEF PtrsOf
<1>10. QED
  BY <1>1, <1>4, <1>5, <1>6, <1>7, <1>8, <1>9

\* Nothing that can be reached is missing.
LEMMA ReachIsAllocated ==
  ASSUME HeapOK, NEW R, R \ {Nil} \subseteq Allocated
  PROVE  /\ Reach(obj, R) \subseteq Allocated
         /\ R \ {Nil} \subseteq Reach(obj, R)
         /\ \A a \in Reach(obj, R) : PtrsOf(obj[a]) \subseteq Reach(obj, R) \cup {Nil}
<1>1. \A a \in Allocated : PtrsOf(obj[a]) \subseteq Allocated \cup {Nil}
  BY WholePointsInside
<1>2. Allocated \in SUBSET Addr
  BY DEF Allocated
<1>3. QED
  BY <1>1, <1>2, ReachWithin, ReachIsClosed

LEMMA SeqInto ==
  ASSUME NEW S, NEW T, NEW s \in Seq(S), \A i \in DOMAIN s : s[i] \in T
  PROVE  s \in Seq(T)
<1>1. Len(s) \in Nat /\ DOMAIN s = 1 .. Len(s) /\ s = [i \in 1 .. Len(s) |-> s[i]]
  OBVIOUS
<1>2. s \in [1 .. Len(s) -> T]
  BY <1>1
<1>3. QED
  BY <1>1, <1>2

\* An object stays whole when what it points to stays.
LEMMA SurvivorWhole ==
  ASSUME prog' = prog, NEW live, \A a \in live : a \in Allocated' /\ obj'[a] = obj[a],
         NEW o, o.type # "NULL", WellFormed(o), PtrsOf(o) \subseteq live \cup {Nil}
  PROVE  WellFormed(o)'
<1>1. \A v, t : v \in live \cup {Nil} /\ Leading(v, t) => Leading(v, t)'
  BY DEF Leading
<1>2. CASE o.type = "FUNC"
  <2>1. o.vec \in live \cup {Nil}
    BY <1>2 DEF PtrsOf
  <2>2. Exists(o.vec)'
    BY <2>1 DEF Exists
  <2>3. ASSUME o.addr # Nil PROVE IsVector(o.vec, FuncAt(o.addr).captures)'
    <3>1. IsVector(o.vec, FuncAt(o.addr).captures)
      BY <1>2, <2>3 DEF WellFormed
    <3>2. o.vec \in live
      BY <2>1, <3>1 DEF IsVector, Allocated, Addr, Nil
    <3>3. QED
      BY <3>1, <3>2 DEF IsVector, FuncAt, Funcs
  <2>4. o.addr # Nil => \E i \in DOMAIN Funcs : Funcs[i].start = o.addr
    BY <1>2 DEF WellFormed
  <2>5. Funcs' = Funcs
    BY DEF Funcs
  <2>6. QED
    BY <1>2, <2>2, <2>3, <2>4, <2>5 DEF WellFormed
<1>3. CASE o.type = "VEC_REF"
  BY <1>1, <1>3 DEF WellFormed, PtrsOf
<1>4. CASE o.type = "ARR_REF"
  BY <1>1, <1>4 DEF WellFormed, PtrsOf
<1>5. CASE o.type = "STR_REF"
  BY <1>1, <1>5 DEF WellFormed, PtrsOf
<1>6. CASE o.type \in {"VEC", "ARR"}
  <2>1. PICK e : e = o.elems
    OBVIOUS
  <2>2. e \in Seq(Allocated) /\ PtrsOf(o) = {e[i] : i \in DOMAIN e}
    BY <1>6, <2>1 DEF WellFormed, PtrsOf
  <2>3. \A i \in DOMAIN e : e[i] \in Allocated /\ e[i] \in live \cup {Nil}
    BY <2>2
  <2>4. \A i \in DOMAIN e : e[i] \in Allocated'
    BY <2>3 DEF Allocated, Addr, Nil
  <2>5. e \in Seq(Allocated')
    BY <2>2, <2>4, SeqInto
  <2>6. QED
    BY <1>6, <2>1, <2>5 DEF WellFormed
<1>7. CASE o.type \notin {"FUNC", "VEC_REF", "ARR_REF", "STR_REF", "VEC", "ARR"}
  BY <1>7 DEF WellFormed
<1>8. QED
  BY <1>2, <1>3, <1>4, <1>5, <1>6, <1>7

\* A collection from roots that are there.
LEMMA Collected ==
  ASSUME HeapOK, prog' = prog, NEW st, NEW top, NEW g, GcRun(st, top, g),
         Roots(st, top, g) \subseteq Allocated
  PROVE  HeapOK' /\ \A v \in Roots(st, top, g) : Remains(v) /\ v \in Allocated'
<1>1. CASE UNCHANGED obj
  <2>1. HeapOK' /\ Grown /\ Allocated' = Allocated
    BY <1>1, SameHeap
  <2>2. QED
    BY <2>1 DEF Remains, Grown
<1>2. CASE ~UNCHANGED obj
  <2>r. PICK R : R = Roots(st, top, g)
    OBVIOUS
  <2>l. PICK live : live = Reach(obj, R)
    OBVIOUS
  <2>1. obj' = [a \in Addr |-> IF a \in live THEN obj[a] ELSE NoObj]
    BY <1>2, <2>r, <2>l DEF GcRun
  <2>2. R \ {Nil} \subseteq Allocated /\ R \ {Nil} = R
    BY <2>r DEF Roots
  <2>3. live \subseteq Allocated /\ R \subseteq live /\ \A a \in live : PtrsOf(obj[a]) \subseteq live \cup {Nil}
    BY <2>2, <2>l, ReachIsAllocated
  <2>4. \A a \in live : a \in Allocated' /\ obj'[a] = obj[a]
    BY <2>1, <2>3 DEF Allocated
  <2>5. Allocated' \subseteq live
    BY <2>1 DEF Allocated, NoObj
  <2>6. ASSUME NEW a \in Allocated' PROVE WellFormed(obj[a])'
    <3>1. a \in live
      BY <2>5
    <3>2. PICK o : o = obj[a]
      OBVIOUS
    <3>3. WellFormed(o) /\ o.type # "NULL" /\ PtrsOf(o) \subseteq live \cup {Nil}
      BY <2>3, <3>1, <3>2 DEF HeapOK, Allocated
    <3>4. WellFormed(o)'
      BY <2>4, <3>3, SurvivorWhole
    <3>5. o = obj'[a]
      BY <2>4, <3>1, <3>2
    <3>6. QED
      BY <3>4, <3>5
  <2>7. HeapOK'
    BY <2>1, <2>6 DEF HeapOK
  <2>8. \A v \in R : Remains(v) /\ v \in Allocated'
    BY <2>3, <2>4 DEF Remains
  <2>9. QED
    BY <2>r, <2>7, <2>8
<1>3. QED
  BY <1>1, <1>2

-----------------------------------------------------------------------------
(***************************************************************************)
(* The instructions that collect.                                          *)
(***************************************************************************)
LEMMA RootsAreThere ==
  ASSUME NEW st, NEW top, NEW g, Exists(g), \A i \in 0 .. top : st[i].type = "ADDR" => Exists(st[i].val)
  PROVE  /\ Roots(st, top, g) \subseteq Allocated
         /\ \A i \in 0 .. top : st[i].type = "ADDR" /\ st[i].val # Nil => st[i].val \in Roots(st, top, g)
         /\ g # Nil => g \in Roots(st, top, g)
BY DEF Roots, Exists

\* A step that leaves the stack up to the frame m as it is, with m the youngest, and
\* then collects.
LEMMA CollectedStep ==
  ASSUME MemInv, Inv', running = "RUNNING", running' = "RUNNING", prog' = prog,
         NEW st, NEW top, NEW g, st = stack', top = sp', g = gp', GcRun(st, top, g),
         NEW m \in Int, m = fp', m <= sp,
         \A F, A \in SUBSET Int : FrameInv(F, A) => m \in F \cup {-1},
         \A i \in 0 .. m : stack'[i] = stack[i],
         \A i \in m + 1 .. top : st[i].type = "ADDR" => st[i].val \in Allocated,
         NEW x, x = ip', VectorFor(g, x)
  PROVE  MemInv' /\ Remains(g) /\ \A i \in 0 .. m : stack[i].type = "ADDR" => Remains(stack[i].val)
<1>1. top \in Int /\ m <= top /\ sp \in Int
  BY DEF Inv, Basics, MemInv
<1>2. \A i \in 0 .. m : i \in 0 .. sp /\ i \in 0 .. top
  BY <1>1
<1>3. \A i \in 0 .. m : st[i] = stack[i] /\ (st[i].type = "ADDR" => Exists(st[i].val))
  BY <1>2 DEF MemInv, RootsOK
<1>4. ASSUME NEW i \in 0 .. top PROVE i \in 0 .. m \/ i \in m + 1 .. top
  <2>1. CASE i > m
    BY <1>1, <2>1, AboveIs
  <2>2. CASE ~(i > m)
    <3>1. i \in Int /\ 0 <= i /\ i <= m
      BY <1>1, <2>2
    <3>2. QED
      BY <3>1
  <2>3. QED
    BY <2>1, <2>2
<1>5. \A i \in 0 .. top : st[i].type = "ADDR" => Exists(st[i].val)
  BY <1>3, <1>4 DEF Exists
<1>6. Exists(g)
  BY DEF VectorFor
<1>7. /\ Roots(st, top, g) \subseteq Allocated
      /\ \A i \in 0 .. top : st[i].type = "ADDR" /\ st[i].val # Nil => st[i].val \in Roots(st, top, g)
      /\ g # Nil => g \in Roots(st, top, g)
  BY <1>5, <1>6, RootsAreThere
<1>8. HeapOK' /\ \A v \in Roots(st, top, g) : Remains(v) /\ v \in Allocated'
  BY <1>7, Collected DEF MemInv
<1>9. Nil \notin Allocated /\ Remains(Nil)
  BY DEF Remains, Allocated, Addr, Nil
<1>10. \A i \in 0 .. m : stack'[i] = stack[i] /\ (stack[i].type = "ADDR" => Remains(stack[i].val))
  <2> SUFFICES ASSUME NEW i \in 0 .. m, stack[i].type = "ADDR"
               PROVE  Remains(stack[i].val)
    OBVIOUS
  <2>1. i \in 0 .. top /\ st[i] = stack[i]
    BY <1>2, <1>3
  <2>2. CASE stack[i].val = Nil
    BY <1>9, <2>2 DEF Remains
  <2>3. CASE stack[i].val # Nil
    BY <1>7, <1>8, <2>1, <2>3
  <2>4. QED
    BY <2>2, <2>3
<1>11. \A i \in m + 1 .. sp' : stack'[i].type = "ADDR" => stack'[i].val \in Allocated'
  <2> SUFFICES ASSUME NEW i \in m + 1 .. top, st[i].type = "ADDR"
               PROVE  st[i].val \in Allocated'
    OBVIOUS
  <2>1. st[i].val \in Allocated /\ st[i].val # Nil
    BY <1>9
  <2>2. -1 <= m
    BY DEF Inv, Basics
  <2>3. i \in 0 .. top
    BY <1>1, <2>2
  <2>4. QED
    BY <1>7, <1>8, <2>1, <2>3
<1>r. Remains(g)
  BY <1>7, <1>8, <1>9
<1>12. VectorFor(gp, ip)'
  <2>1. VectorFor(g, x)'
    BY <1>r, RemainsVectorFor
  <2>2. QED
    BY <2>1 DEF VectorFor
<1>13. MemInv'
  BY <1>8, <1>10, <1>11, <1>12, KeptStep
<1>14. QED
  BY <1>10, <1>13, <1>r

LEMMA SlideMem ==
  ASSUME MemInv, Inv', ExecSlide
  PROVE  Lawful
<1>1. running = "RUNNING" /\ bc.type = "SLIDE"
  BY DEF ExecSlide, Instr, Runs
<1>2. UNCHANGED <<fp, pp, gp, prog, running>> /\ Advance /\ ip' = ip + 1
  BY DEF ExecSlide, Advance, regs, mode
<1>3. Works(prog, ip) /\ FuncAt(ip') = FuncAt(ip)
  <2>1. Works(prog, ip)
    BY <1>1, WorksHere DEF MemInv
  <2>2. QED
    BY <1>2, <2>1, AdvanceStays DEF Advance
<1>4. PICK q, n : q = bc.q /\ n = bc.m
  OBVIOUS
<1>5. Takes(prog, ip) = q + n /\ q \in Nat /\ n \in Nat
  <2>1. Takes(prog, ip) = q + n
    BY <1>1, <1>4 DEF Takes, bc, Code, Assignments
  <2>2. QED
    BY <1>1, <1>3, <1>4, <2>1 DEF Works, bc, Code
<1>6. /\ sp \in Int /\ fp \in Int /\ -1 <= fp /\ fp <= sp - (q + n) /\ sp < StackSize /\ StackSize \in Nat
      /\ stack = [i \in 0 .. StackSize - 1 |-> stack[i]]
  <2>1. fp <= sp - (q + n)
    BY <1>1, <1>3, <1>5, OperandsAbove
  <2>2. QED
    BY <2>1, SizesAssumption DEF MemInv, Inv, Basics
<1>7. CASE q = 0
  <2>1. UNCHANGED <<obj, stack, sp>>
    BY <1>4, <1>7 DEF ExecSlide
  <2>2. HeapOK' /\ Grown /\ Allocated' = Allocated
    BY <1>2, <2>1, SameHeap DEF MemInv
  <2>3. \A i \in fp + 1 .. sp' : stack'[i].type = "ADDR" => stack'[i].val \in Allocated'
    BY <1>1, <2>1, <2>2, AboveFrames
  <2>4. QED
    BY <1>1, <1>2, <1>3, <2>1, <2>2, <2>3, PlainMem
<1>8. CASE q # 0
  <2>1. /\ sp' = sp - q /\ GcRun(stack', sp', gp)
        /\ stack' = [i \in 0 .. StackSize - 1 |->
                       IF i \in sp - q - n + 1 .. sp - q THEN stack[i + q] ELSE stack[i]]
    BY <1>4, <1>6, <1>8 DEF ExecSlide, Slid
  <2>2. PICK st, top, g, x : st = stack' /\ top = sp' /\ g = gp' /\ x = ip'
    OBVIOUS
  <2>3. GcRun(st, top, g)
    BY <1>2, <2>1, <2>2 DEF GcRun
  <2>4. \A i \in 0 .. sp - (q + n) : stack'[i] = stack[i]
    BY <1>5, <1>6, <2>1
  <2>5. \A i \in fp + 1 .. sp' : st[i].type = "ADDR" => st[i].val \in Allocated
    <3> SUFFICES ASSUME NEW i \in fp + 1 .. sp', st[i].type = "ADDR"
                 PROVE  st[i].val \in Allocated
      OBVIOUS
    <3>1. /\ i \in 0 .. StackSize - 1 /\ i \in fp + 1 .. sp
          /\ i \in sp - q - n + 1 .. sp - q => i + q \in fp + 1 .. sp
      BY <1>5, <1>6, <2>1
    <3>2. st[i] = IF i \in sp - q - n + 1 .. sp - q THEN stack[i + q] ELSE stack[i]
      BY <2>1, <2>2, <3>1
    <3>3. \A j \in fp + 1 .. sp : stack[j].type = "ADDR" => stack[j].val \in Allocated
      BY <1>1, AboveFrames
    <3>4. CASE i \in sp - q - n + 1 .. sp - q
      BY <3>1, <3>2, <3>3, <3>4
    <3>5. CASE i \notin sp - q - n + 1 .. sp - q
      BY <3>1, <3>2, <3>3, <3>5
    <3>6. QED
      BY <3>4, <3>5
  <2>6. VectorFor(g, x)
    BY <1>1, <1>2, <1>3, <2>2, VectorForSame DEF MemInv
  <2>m. PICK m : m = fp
    OBVIOUS
  <2>7. \A F, A \in SUBSET Int : FrameInv(F, A) => m \in F \cup {-1}
    BY <2>m DEF FrameInv, IsGreatest
  <2>8. m \in Int /\ m <= sp /\ m = fp' /\ running' = "RUNNING" /\ \A i \in 0 .. m : stack'[i] = stack[i]
    <3>1. fp <= sp /\ \A i \in 0 .. fp : i \in 0 .. sp - (q + n)
      BY <1>5, <1>6
    <3>2. m <= sp /\ \A i \in 0 .. m : i \in 0 .. sp - (q + n)
      BY <2>m, <3>1
    <3>3. \A i \in 0 .. m : stack'[i] = stack[i]
      BY <2>4, <3>2
    <3>4. m \in Int /\ m = fp' /\ running' = "RUNNING"
      BY <1>1, <1>2, <1>6, <2>m
    <3>5. QED
      BY <3>2, <3>3, <3>4
  <2>9. \A i \in m + 1 .. top : st[i].type = "ADDR" => st[i].val \in Allocated
    BY <2>2, <2>5, <2>m
  <2>10. MemInv' /\ Remains(g) /\ \A i \in 0 .. m : stack[i].type = "ADDR" => Remains(stack[i].val)
    BY <1>1, <1>2, <2>2, <2>3, <2>6, <2>7, <2>8, <2>9, CollectedStep
  <2>11. PICK F \in SUBSET Int, A \in SUBSET Int : FrameInv(F, A) /\ Held(F)
    BY <1>1 DEF MemInv
  <2>12. \A c \in A : Remains(Vec(c))
    <3>1. \A c \in F : c <= m => Remains(Vec(c))
      BY <1>1, <2>8, <2>10, <2>11, VectorsRemain
    <3>2. Inv
      BY DEF MemInv
    <3>3. A \subseteq F /\ \A c \in F : c <= fp
      BY <1>1, <2>11, <3>2, FrameFacts
    <3>4. QED
      BY <2>m, <3>1, <3>3
  <2>13. \A i \in 0 .. pp : stack'[i] = stack[i]
    BY <2>8, <2>m DEF MemInv, Inv, Basics
  <2>14. [Calls!Next]_CallStack
    BY <1>1, <1>2, <1>3, <2>2, <2>10, <2>11, <2>12, <2>13, SameCalls
  <2>15. QED
    BY <2>10, <2>14 DEF Lawful
<1>9. QED
  BY <1>7, <1>8

\* The youngest frame goes, with all that lies above it but the entry on top.
LEMMA LeaveMem ==
  ASSUME MemInv, Inv', running = "RUNNING", LeaveFrame, UNCHANGED <<prog, running>>, fp # -1,
         FuncAt(ip') = FuncAt(Back(fp))
  PROVE  Lawful
<1>1. PICK F \in SUBSET Int, A \in SUBSET Int : FrameInv(F, A) /\ Held(F)
  BY DEF MemInv
<1>2. /\ sp \in Int /\ fp \in Int /\ -1 <= fp /\ fp <= sp /\ sp < StackSize
      /\ StackSize \in Nat /\ stack = [i \in 0 .. StackSize - 1 |-> stack[i]]
      /\ F \subseteq 4 .. sp /\ A \subseteq F
      /\ fp \in F \cup {-1}
      /\ (\A d \in F : d <= fp)
      /\ (\A d \in F : Linked(F, A, d))
  <2>1. Inv
    BY DEF MemInv
  <2>2. /\ sp \in Int /\ fp \in Int /\ pp \in Int /\ -1 <= pp /\ pp <= fp /\ fp <= sp /\ sp < StackSize
        /\ StackSize \in Nat /\ stack = [i \in 0 .. StackSize - 1 |-> stack[i]]
        /\ F \subseteq 4 .. sp /\ A \subseteq F
        /\ fp \in F \cup {-1}
        /\ (\A d \in F : d <= fp)
        /\ (\A d \in F : Linked(F, A, d))
    BY <1>1, <2>1, FrameFacts
  <2>3. -1 <= fp
    BY <2>2
  <2>4. QED
    BY <2>2, <2>3
<1>c. PICK c \in F : c = fp
  BY <1>2
<1>3. c \in Int /\ 4 <= c /\ c <= sp /\ Linked(F, A, c)
  BY <1>2, <1>c
<1>m. PICK m : m = Prev(c)
  OBVIOUS
<1>4. m \in Int /\ -1 <= m /\ m < c - 4 /\ \A d \in F : d < c => d <= m
  BY <1>2, <1>3, <1>m, LinkFacts, SMTT(30) DEF MemInv
<1>5. /\ sp' = c - 4 /\ fp' = m /\ gp' = Vec(c)
      /\ stack' = [stack EXCEPT ![c - 4] = stack[sp]]
      /\ GcRun(stack', sp', gp')
  BY <1>c, <1>m DEF LeaveFrame, SavedGp, Prev, Vec
<1>6. stack'[c - 4] = stack[sp] /\ \A i \in 0 .. c - 5 : stack'[i] = stack[i]
  <2>1. c - 4 \in 0 .. StackSize - 1 /\ \A i \in 0 .. c - 5 : i \in 0 .. StackSize - 1 /\ i # c - 4
    BY <1>2, <1>3
  <2>2. stack' = [i \in 0 .. StackSize - 1 |-> IF i = c - 4 THEN stack[sp] ELSE stack[i]]
    BY <1>2, <1>5, <2>1
  <2>3. QED
    BY <2>1, <2>2
<1>7. PICK st, top, g, x : st = stack' /\ top = sp' /\ g = gp' /\ x = ip'
  OBVIOUS
<1>8. GcRun(st, top, g)
  BY <1>5, <1>7 DEF GcRun
<1>9. VectorFor(g, x)
  <2>1. PICK y : y = Back(c)
    OBVIOUS
  <2>2. VectorFor(g, y)
    BY <1>1, <1>5, <1>7, <2>1 DEF Held
  <2>3. FuncAt(x) = FuncAt(y)
    BY <1>7, <1>c, <2>1
  <2>4. QED
    BY <2>2, <2>3, VectorForSame
<1>10. \A i \in m + 1 .. top : st[i].type = "ADDR" => st[i].val \in Allocated
  <2> SUFFICES ASSUME NEW i \in m + 1 .. top, st[i].type = "ADDR"
               PROVE  st[i].val \in Allocated
    OBVIOUS
  <2>0. top = c - 4
    BY <1>5, <1>7
  <2>1. CASE i = c - 4
    <3>1. st[i] = stack[sp]
      BY <1>6, <1>7, <2>1
    <3>2. sp # c
      BY <1>3, <3>1 DEF Linked
    <3>3. sp \in fp + 1 .. sp
      BY <1>2, <1>3, <1>c, <3>2
    <3>4. QED
      BY <3>1, <3>3, AboveFrames
  <2>2. CASE i # c - 4
    <3>0. m \in Int /\ -1 <= m /\ c \in Int /\ c <= sp /\ sp \in Int /\ i \in m + 1 .. c - 4
      BY <1>2, <1>3, <1>4, <2>0
    <3>1. i \in Int /\ m < i /\ i < c - 4 /\ i \in 0 .. c - 5 /\ i \in 0 .. sp
      BY <2>2, <3>0
    <3>2. st[i] = stack[i]
      BY <1>6, <1>7, <3>1
    <3>3. Outside(F, i)
      <4> SUFFICES ASSUME NEW d \in F
                   PROVE  i < d - 4 \/ d < i
        BY DEF Outside
      <4>1. d \in Int /\ d <= c
        BY <1>2, <1>c
      <4>2. CASE d = c
        BY <3>1, <4>2
      <4>3. CASE d # c
        <5>1. d <= m
          BY <1>3, <1>4, <4>1, <4>3
        <5>2. QED
          BY <1>4, <3>1, <4>1, <5>1
      <4>4. QED
        BY <4>2, <4>3
    <3>4. QED
      BY <1>1, <3>1, <3>2, <3>3 DEF Held
  <2>3. QED
    BY <2>1, <2>2
<1>11. \A G, B \in SUBSET Int : FrameInv(G, B) => m \in G \cup {-1}
  <2> SUFFICES ASSUME NEW G \in SUBSET Int, NEW B \in SUBSET Int, FrameInv(G, B)
               PROVE  m \in G \cup {-1}
    OBVIOUS
  <2>1. c \in G \cup {-1} /\ \A d \in G : Linked(G, B, d)
    BY <1>c DEF FrameInv, IsGreatest
  <2>2. c \in G
    BY <1>3, <2>1
  <2>3. QED
    BY <1>m, <2>1, <2>2 DEF Linked, IsGreatest
<1>12. \A i \in 0 .. m : stack'[i] = stack[i]
  <2>1. \A i \in 0 .. m : i \in 0 .. c - 5
    BY <1>3, <1>4
  <2>2. QED
    BY <1>6, <2>1
<1>13. m \in Int /\ m = fp' /\ m <= sp /\ running' = "RUNNING"
  BY <1>2, <1>3, <1>4, <1>5
<1>14. MemInv' /\ Remains(g) /\ \A i \in 0 .. m : stack[i].type = "ADDR" => Remains(stack[i].val)
  BY <1>7, <1>8, <1>9, <1>10, <1>11, <1>12, <1>13, CollectedStep
<1>15. \A d \in F : d <= m => Remains(Vec(d))
  BY <1>1, <1>4, <1>14, VectorsRemain
<1>16. /\ pp \in Int /\ pp <= c /\ pp \in A \cup {-1} /\ pp' = Base(c)
       /\ Base(c) <= m /\ Base(c) \in Int /\ Owned(F, A)
  <2>1. Inv
    BY DEF MemInv
  <2>2. pp \in Int /\ pp <= fp /\ pp \in A \cup {-1} /\ Owned(F, A)
    BY <1>1, <2>1, FrameFacts
  <2>3. Base(c) <= m /\ Base(c) \in Int
    BY <1>2, <1>3, <1>m, <2>1, LinkFacts
  <2>4. pp' = Base(c)
    BY <1>c DEF LeaveFrame, SavedPp, Base
  <2>5. QED
    BY <1>c, <2>2, <2>3, <2>4
<1>17. [Calls!Next]_CallStack
  <2>1. CASE c = pp
    <3>1. \A d \in A : d <= Base(pp) => Remains(Vec(d))
      <4> SUFFICES ASSUME NEW d \in A, d <= Base(pp)
                   PROVE  Remains(Vec(d))
        OBVIOUS
      <4>1. d \in F /\ d \in Int
        BY <1>2
      <4>2. d <= m
        BY <1>4, <1>16, <2>1, <4>1
      <4>3. QED
        BY <1>15, <4>1, <4>2
    <3>2. /\ pp # -1 /\ pp' = Base(pp) /\ gp' = Vec(pp) /\ FuncAt(ip') = FuncAt(Back(pp))
          /\ Remains(Vec(pp)) /\ \A i \in 0 .. pp - 5 : stack'[i] = stack[i]
      BY <1>5, <1>6, <1>7, <1>14, <1>16, <1>c, <2>1
    <3>3. QED
      BY <1>1, <3>1, <3>2, EndsCall
\* The frame of a call that is being prepared.
  <2>2. CASE c # pp
    <3>1. Vec(c) = gp /\ FuncAt(Back(c)) = FuncAt(ip) /\ pp < c
      BY <1>3, <1>16, <2>2 DEF Owned
    <3>2. Base(c) = pp /\ pp <= m
      <4>1. IsGreatest(Base(c), A, c) /\ A \subseteq F
        BY <1>2, <1>3 DEF Linked
      <4>2. PICK b : b = Base(c)
        OBVIOUS
      <4>3. b \in A \cup {-1} /\ (\A d \in A : d < c => d <= b)
        BY <4>1, <4>2 DEF IsGreatest
      <4>4. \A a \in A : a \in Int /\ 4 <= a /\ a <= pp
        BY <1>1, <4>1, <1>2, FrameFacts DEF MemInv
      <4>5. b = pp
        BY <1>16, <3>1, <4>3, <4>4
      <4>6. QED
        BY <1>16, <4>2, <4>5
    <3>3. \A d \in A : Remains(Vec(d))
      <4> SUFFICES ASSUME NEW d \in A
                   PROVE  Remains(Vec(d))
        OBVIOUS
      <4>1. d \in F /\ d \in Int /\ d <= pp
        BY <1>1, <1>2, FrameFacts DEF MemInv
      <4>2. d <= m
        BY <1>4, <1>16, <3>2, <4>1
      <4>3. QED
        BY <1>15, <4>1, <4>2
    <3>4. \A i \in 0 .. pp : stack'[i] = stack[i]
      BY <1>3, <1>4, <1>6, <1>16, <3>2
    <3>5. UNCHANGED <<prog, pp, gp>> /\ FuncAt(ip') = FuncAt(ip) /\ Remains(gp)
      BY <1>5, <1>7, <1>14, <1>16, <1>c, <3>1, <3>2
    <3>6. QED
      BY <1>1, <3>3, <3>4, <3>5, SameCalls
  <2>3. QED
    BY <2>1, <2>2
<1>18. QED
  BY <1>14, <1>17 DEF Lawful

LEMMA RetMem ==
  ASSUME MemInv, Inv', ExecRet
  PROVE  Lawful
<1>1. running = "RUNNING" /\ bc.type = "RET"
  BY DEF ExecRet, Instr, Runs
<1>2. Shape.known /\ Shape.mark = 0 /\ InFunction(prog, ip)
  BY <1>1, ShapedHere DEF ShapedAt, Returns, Shape, bc, Code, MemInv
<1>3. fp = pp + Shape.mark /\ (pp = -1 <=> ~InFunction(prog, ip)) /\ pp \in Int
  BY <1>1, <1>2 DEF Inv, FrameInv, Here, Basics, MemInv
<1>4. fp # -1
  BY <1>2, <1>3
<1>5. LeaveFrame /\ FuncAt(ip') = FuncAt(Back(fp)) /\ UNCHANGED <<prog, running>>
  BY DEF ExecRet, mode, Back
<1>6. QED
  BY <1>1, <1>4, <1>5, LeaveMem

LEMMA RethrowMem ==
  ASSUME MemInv, Inv', ExecRethrow
  PROVE  Lawful
<1>1. running = "RUNNING" /\ bc.type = "RETHROW"
  BY DEF ExecRethrow, Instr, Runs
<1>2. InFunction(prog, ip)
  BY <1>1, ShapedHere DEF ShapedAt, bc, Code, MemInv
<1>3. PICK F \in SUBSET Int, A \in SUBSET Int : FrameInv(F, A)
  BY <1>1 DEF MemInv
<1>4. pp # -1
  BY <1>2, <1>3 DEF FrameInv, Here
<1>5. fp # -1 /\ fp \in F /\ Linked(F, A, fp)
  <2>1. Inv
    BY DEF MemInv
  <2>2. QED
    BY <1>1, <1>3, <1>4, <2>1, FrameFacts
<1>6. LeaveFrame /\ ip' = HandlerOf(Back(fp) - 1) /\ UNCHANGED <<prog, running>>
  BY DEF ExecRethrow, mode, Back
<1>7. Back(fp) - 1 \in DOMAIN prog.shape /\ Code[Back(fp) - 1].type = "CALL" /\ FuncAt(Back(fp) - 1) = FuncAt(Back(fp))
  BY <1>5 DEF Linked, GoodReturn
<1>8. Handled(prog, Back(fp) - 1)
  BY <1>7 DEF Inv, Shaped, MemInv
<1>9. Leads(prog, Back(fp) - 1, ip', Handling)
  BY <1>6, <1>7, <1>8 DEF Handled, MayFail, HandlerOf, ExcTab, Code
<1>10. FuncAt(ip') = FuncAt(Back(fp))
  BY <1>7, <1>9 DEF Leads, FuncAt, Funcs
<1>11. QED
  BY <1>1, <1>5, <1>6, <1>10, LeaveMem

-----------------------------------------------------------------------------
(***************************************************************************)
(* The invariant of a run.                                                 *)
(***************************************************************************)
LEMMA MemInit ==
  ASSUME Init, Promised
  PROVE  MemInv
<1>1. Inv
  BY InvInit
<1>2. HeapOK
  BY DEF Init, HeapOK, Allocated, NoObj
<1>3. gp = Nil /\ sp = -1 /\ ip = 0
  BY DEF Init
<1>4. \A i \in 0 .. sp : FALSE
  BY <1>3
<1>5. RootsOK
  BY <1>3, <1>4 DEF RootsOK, Exists
<1>6. VectorFor(gp, ip)
  <2>1. ~InFunction(prog, 0)
    BY <1>1 DEF Inv, Shaped
  <2>2. QED
    BY <1>3, <2>1 DEF VectorFor, Exists
<1>7. PICK F \in SUBSET Int, A \in SUBSET Int : FrameInv(F, A)
  BY <1>1 DEF Inv, Init
<1>8. Held(F)
  <2>1. F \subseteq 4 .. sp
    BY <1>7 DEF FrameInv
  <2>2. \A c \in F : FALSE
    BY <1>3, <2>1
  <2>3. QED
    BY <1>4, <2>2 DEF Held
<1>9. QED
  BY <1>1, <1>2, <1>5, <1>6, <1>7, <1>8 DEF MemInv

LEMMA StutterMem ==
  ASSUME MemInv, Inv', UNCHANGED vmVars
  PROVE  Lawful
<1>1. /\ obj' = obj /\ stack' = stack /\ sp' = sp /\ fp' = fp /\ pp' = pp /\ gp' = gp /\ ip' = ip
      /\ prog' = prog /\ running' = running
  BY DEF vmVars, regs, mode
<1>2. HeapOK' /\ Grown /\ Allocated' = Allocated
  BY <1>1, SameHeap DEF MemInv
<1>3. RootsOK'
  BY <1>1, <1>2 DEF MemInv, RootsOK, Exists
<1>c. CallStack' = CallStack
  <2>1. Activations' = Activations
    BY <1>1 DEF Activations, LinkedFrom
  <2>2. QED
    BY <1>1, <2>1, CallStacks
<1>4. CASE running = "RUNNING"
  <2>1. \A i \in fp + 1 .. sp' : stack'[i].type = "ADDR" => stack'[i].val \in Allocated'
    BY <1>1, <1>2, <1>4, AboveFrames
  <2>2. QED
    BY <1>1, <1>2, <1>4, <2>1, PlainMem
<1>5. CASE running # "RUNNING"
  BY <1>1, <1>2, <1>3, <1>5, <1>c DEF MemInv, Lawful
<1>6. QED
  BY <1>4, <1>5

\* What is called is a function: a closure over one, and not nil.
LEMMA CalleeIsThere ==
  ASSUME MemInv, Promised
  PROVE  Callee
<1> SUFFICES ASSUME running = "RUNNING", bc.type = "CALL", ~Fails
             PROVE  /\ obj[Top(0)].vec \in Addr \cup {Nil}
                    /\ \E i \in DOMAIN Funcs : Funcs[i].start = obj[Top(0)].addr
  BY DEF Callee
<1>f. PICK f : f = obj[Top(0)]
  OBVIOUS
<1>1. WellFormed(f) /\ f.type = "FUNC" /\ f.addr # Nil
  BY <1>f, CalleeFound
<1>2. Exists(f.vec) /\ \E i \in DOMAIN Funcs : Funcs[i].start = f.addr
  BY <1>1 DEF WellFormed
<1>3. f.vec \in Addr \cup {Nil}
  BY <1>2 DEF Exists, Allocated
<1>4. QED
  BY <1>f, <1>2, <1>3

LEMMA MemStep ==
  ASSUME MemInv, Promised, [Next]_vmVars
  PROVE  Lawful
<1>1. Inv'
  <2>1. Inv
    BY DEF MemInv
  <2>2. Callee
    BY CalleeIsThere
  <2>3. QED
    BY <2>1, <2>2, InvStep
<1>2. CASE UNCHANGED vmVars
  BY <1>1, <1>2, StutterMem
\* The actions that make objects, those that look into them or write them, those
\* that only move on, and those that work on frames.
<1>3. CASE \/ ExecLiteral \/ ExecString \/ ExecIdDimLocal \/ ExecGlobalVec \/ ExecIdFunc \/ ExecOp \/ ExecJoin
           \/ ExecEqString \/ ExecEqNil \/ ExecNot \/ ExecNeg \/ ExecConvert \/ ExecBuildIn \/ ExecStringDeref
           \/ ExecFuncFfi \/ ExecRecord \/ ExecNilRecordRef \/ ExecMkArray \/ ExecMkInitArray \/ ExecNegArr
           \/ ExecMulArr \/ ExecSumArr \/ ExecMulArrArr \/ ExecPushExcept \/ ExecAlloc \/ ExecPushParam
  BY <1>1, <1>3, PushNumberMem, StringMem, GlobalVecMem, IdFuncMem, NumberMem, JoinMem, BuildInMem, FuncFfiMem,
     RecordMem, MkArrayMem, MkInitArrayMem, ArithmeticMem, MulArrArrMem, AllocMem, PushParamMem
<1>4. CASE ExecIdLocal \/ ExecIdGlobal \/ ExecCopyGlob \/ ExecAttr \/ ExecArrayDeref \/ ExecAssign \/ ExecRewrite
           \/ ExecArrayAppend \/ ExecIncInt
  BY <1>1, <1>4, IdLocalMem, CapturedMem, PartMem, AssignMem, RewriteMem, ArrayAppendMem, IncIntMem
<1>5. CASE ExecJumpz \/ ExecJump \/ ExecNothing \/ ExecFailing \/ ExecMathFails \/ ExecAssertFails \/ ExecUnhandled
           \/ ExecHalt \/ Exhausted
  BY <1>1, <1>5, PassingMem, MathFailsMem, StopMem
<1>6. CASE ExecMark \/ ExecCall \/ ExecSlide \/ ExecRet \/ ExecRethrow \/ ExecClearStack
  BY <1>1, <1>6, MarkMem, CallMem, SlideMem, RetMem, RethrowMem, ClearStackMem
<1>7. QED
  BY <1>2, <1>3, <1>4, <1>5, <1>6 DEF Next

LEMMA MemInvariance == Spec /\ []Promised => []MemInv
<1>1. Init /\ Promised => MemInv
  BY MemInit
<1>2. MemInv /\ Promised /\ [Next]_vmVars => MemInv'
  BY MemStep DEF Lawful
<1>3. QED
  BY <1>1, <1>2, PTL DEF Spec

(***************************************************************************)
(* Nothing dangles (Compiled!NoDangling): whatever the collections at      *)
(* SLIDE, RET and RETHROW have taken, every cell that can be reached from  *)
(* the stack and gp holds an object, and so does every value on the stack, *)
(* through the calls, exceptions, assignments and REWRITEs of any program. *)
(***************************************************************************)
THEOREM NothingDangles == Spec /\ []Promised => []NoDangling
<1>1. MemInv => NoDangling
  <2> SUFFICES ASSUME MemInv PROVE NoDangling
    OBVIOUS
  <2>r. PICK st, top, g, R : st = stack /\ top = sp /\ g = gp /\ R = Roots(st, top, g)
    OBVIOUS
  <2>1. R \subseteq Allocated
    <3>1. Exists(g) /\ \A i \in 0 .. top : st[i].type = "ADDR" => Exists(st[i].val)
      BY <2>r DEF MemInv, RootsOK
    <3>2. QED
      BY <2>r, <3>1, RootsAreThere
  <2>2. Reach(obj, R) \subseteq Allocated
    BY <2>1, ReachIsAllocated DEF MemInv
  <2>3. Reach(obj, Roots(stack, sp, gp)) \subseteq Allocated
    BY <2>r, <2>2
  <2>4. ASSUME running = "RUNNING", NEW i \in (0 .. sp) \ LinkageOf(Frames), stack[i].type = "ADDR"
        PROVE  stack[i].val \in Allocated
    <3>1. PICK F \in SUBSET Int, A \in SUBSET Int : FrameInv(F, A) /\ Held(F)
      BY <2>4 DEF MemInv
    <3>2. Inv
      BY DEF MemInv
    <3>3. Frames = F
      BY <2>4, <3>1, <3>2, ChainsFound
    <3>4. F \subseteq 4 .. sp /\ sp \in Int
      BY <2>4, <3>1, <3>2, FrameFacts
    <3>5. Outside(F, i)
      BY <2>4, <3>3, <3>4 DEF LinkageOf, Outside
    <3>6. QED
      BY <2>4, <3>1, <3>5 DEF Held
  <2>5. QED
    BY <2>3, <2>4 DEF NoDangling
<1>2. QED
  BY <1>1, MemInvariance, PTL

\* Each activation, running or waiting, has the vector its function was made
\* with, of the length the compiler has listed, so ID_GLOBAL reads inside it.
LEMMA VectorsHere ==
  ASSUME MemInv, running = "RUNNING"
  PROVE  VectorsFit(Activations)
<1>0. Inv
  BY DEF MemInv
<1>1. PICK F \in SUBSET Int, A \in SUBSET Int : FrameInv(F, A) /\ Held(F)
  BY DEF MemInv
<1>2. /\ pp \in Int /\ F \subseteq 4 .. sp /\ A \subseteq F
      /\ (\A c \in F : Linked(F, A, c)) /\ Here
  BY <1>0, <1>1, FrameFacts
<1>b. PICK bs : bs = Activations
  OBVIOUS
<1>3. IsWalk(4, A, pp, bs) /\ Chained(bs) = A
  BY <1>0, <1>1, <1>b, ChainsFound
<1>4. bs \in Seq(Int) /\ Len(bs) \in Nat /\ Len(bs) >= 1 /\ bs[Len(bs)] = pp
  BY <1>3 DEF IsWalk
<1>5. \A v, n : IsVector(v, n) => Len(Captured(v)) = n
  BY DEF IsVector, Captured
<1>6. ASSUME NEW i \in 2 .. Len(bs) PROVE Len(Captured(VecOf(bs, i))) = FuncOf(bs, i).captures
  <2>1. bs[i] \in A /\ bs[i] # -1
    <3>1. bs[i] \in A
      BY <1>3, <1>6 DEF Chained
    <3>2. QED
      BY <1>2, <3>1
  <2>2. CASE i = Len(bs)
    <3>1. InFunction(prog, ip)
      BY <1>2, <1>4, <2>1, <2>2 DEF Here
    <3>2. IsVector(gp, FuncAt(ip).captures)
      BY <3>1 DEF MemInv, VectorFor
    <3>3. QED
      BY <1>5, <2>2, <3>2 DEF VecOf, FuncOf
  <2>3. CASE i # Len(bs)
    <3>1. i \in 1 .. Len(bs) - 1 /\ i + 1 \in 2 .. Len(bs)
      BY <1>4, <2>3
    <3>2. PICK a \in A : a = bs[i + 1]
      BY <1>3, <3>1 DEF Chained
    <3>3. bs[i] = Base(a)
      BY <1>3, <3>1, <3>2 DEF IsWalk, Base
    <3>4. a \in F /\ Linked(F, A, a) /\ Base(a) # -1
      BY <1>2, <2>1, <3>3
    <3>5. InFunction(prog, Back(a))
      BY <3>4 DEF Linked
    <3>6. IsVector(Vec(a), FuncAt(Back(a)).captures)
      BY <1>1, <3>4, <3>5 DEF Held, VectorFor
    <3>7. QED
      BY <1>5, <2>3, <3>2, <3>6 DEF VecOf, FuncOf, Vec, Back
  <2>4. QED
    BY <2>2, <2>3
<1>7. QED
  BY <1>b, <1>6 DEF VectorsFit

(***************************************************************************)
(* Type correctness (Compiled!TypeOK): the registers of vm_execute lie in  *)
(* order, gp is a cell or nil, and a running machine is at an instruction, *)
(* for every program that keeps what Promised says.                        *)
(***************************************************************************)
THEOREM TypeCorrect == Spec /\ []Promised => []TypeOK
<1>1. MemInv => Inv
  BY DEF MemInv
<1>2. Inv => TypeOK
  BY RegistersInOrder
<1>3. QED
  BY <1>1, <1>2, MemInvariance, PTL

(***************************************************************************)
(* The emitter's stack_level is right (Compiled!LevelAgrees): at every     *)
(* identifier of the frame, by whatever calls, branches, handlers and      *)
(* unfinished frames the machine has come there.                           *)
(***************************************************************************)
THEOREM LevelsAgree == Spec /\ []Promised => []LevelAgrees
<1>1. MemInv => Inv
  BY DEF MemInv
<1>2. Inv => LevelAgrees
  BY LevelIsRight
<1>3. QED
  BY <1>1, <1>2, MemInvariance, PTL

(***************************************************************************)
(* An exception is handled where it happens (Compiled!HandledHere): what   *)
(* fails goes on behind itself, in the function and in the activation it   *)
(* has failed in.                                                          *)
(***************************************************************************)
THEOREM RaisedIsHandledHere == Spec /\ []Promised => HandledHere
<1>1. MemInv => Inv
  BY DEF MemInv
<1>2. Inv /\ [Next]_vmVars =>
        [ExecFailing \/ ExecMathFails => ip' > ip /\ FuncAt(ip').start = FuncAt(ip).start /\ pp' = pp]_vmVars
  BY HandlerIsBehind
<1>3. QED
  BY <1>1, <1>2, MemInvariance, PTL DEF Spec, HandledHere

(***************************************************************************)
(* The frames are what the code takes them for (Compiled!FramesOK): laid   *)
(* as MARK lays them, each with the base, the vector and a return address  *)
(* of the activation that has begun it, values everywhere else, and as     *)
(* many captured cells as the function of each activation reads, through   *)
(* calls, tail calls, returns and exceptions that leave frames half made.  *)
(***************************************************************************)
THEOREM FramesAreLaid == Spec /\ []Promised => []FramesOK
<1>1. MemInv => FramesOK
  <2> SUFFICES ASSUME MemInv, running = "RUNNING"
               PROVE  FramesAre(Frames, Activations) /\ VectorsFit(Activations)
    BY DEF FramesOK
  <2>1. Inv
    BY DEF MemInv
  <2>2. QED
    BY <2>1, FramesLaid, VectorsHere
<1>2. QED
  BY <1>1, MemInvariance, PTL

\* Arrays added have the same number of elements, and those of a product as
\* many as its rows and columns.
LEMMA PairsAreThere ==
  ASSUME MemInv, Promised, running = "RUNNING", ~Fails
  PROVE  PairsThere
<1>1. CASE bc.type \notin {"ADD_ARR", "SUB_ARR", "MUL_ARR_ARR"}
  BY <1>1 DEF PairsThere
<1>2. CASE bc.type \in {"ADD_ARR", "SUB_ARR", "MUL_ARR_ARR"}
  <2>m. PICK m1, m2 : m1 = ArrAt(1) /\ m2 = ArrAt(0)
    OBVIOUS
  <2>1. Works(prog, ip)
    <3>1. Inv
      BY DEF MemInv
    <3>2. QED
      BY <1>2, <3>1, WorksHere
  <2>2. /\ Laid(m1.dv, Len(m1.elems)) /\ Laid(m2.dv, Len(m2.elems))
        /\ IF bc.type = "MUL_ARR_ARR" THEN CanMult(m1.dv, m2.dv) ELSE CanAdd(m1.dv, m2.dv)
    BY <1>2, <2>m, <2>1, BothArrays
  <2>3. ASSUME bc.type # "MUL_ARR_ARR" PROVE Len(m1.elems) = Len(m2.elems)
    <3>1. Lens(m1.dv) = Lens(m2.dv)
      BY <2>2, <2>3 DEF CanAdd
    <3>2. Len(m1.elems) = Size(Lens(m1.dv)) /\ Len(m2.elems) = Size(Lens(m2.dv))
      BY <2>2, LaidAgain
    <3>3. QED
      BY <3>1, <3>2
  <2>4. ASSUME bc.type = "MUL_ARR_ARR"
        PROVE  /\ Len(m1.elems) = m1.dv[1].elems * m1.dv[2].elems
               /\ Len(m2.elems) = m1.dv[2].elems * m2.dv[2].elems
    <3>1. Len(m1.dv) = 2 /\ Len(m2.dv) = 2 /\ m1.dv[2].elems = m2.dv[1].elems
      BY <2>2, <2>4 DEF CanMult
    <3>2. Len(m1.elems) = m1.dv[1].elems * m1.dv[2].elems /\ Len(m2.elems) = m2.dv[1].elems * m2.dv[2].elems
      BY <2>2, <3>1, MatrixIs
    <3>3. QED
      BY <3>1, <3>2
  <2>5. QED
    BY <1>2, <2>m, <2>3, <2>4 DEF PairsThere
<1>3. QED
  BY <1>1, <1>2

(***************************************************************************)
(* Arrays fit (Compiled!ArraysFit): whatever has been made, appended to,   *)
(* added or multiplied, an array has one element for each index its        *)
(* dimensions allow and no other, so that ARRAY_DEREF, which compares an   *)
(* index with the dimensions alone, reads an element and its own; and the  *)
(* loops over two arrays, which count the elements of one, stay in both.   *)
(***************************************************************************)
THEOREM ArraysAlwaysFit == Spec /\ []Promised => []ArraysFit
<1>1. MemInv /\ Promised => ArraysFit
  <2> SUFFICES ASSUME MemInv, Promised
               PROVE  ArraysFit
    OBVIOUS
  <2>1. ASSUME NEW a \in Allocated, obj[a].type = "ARR"
        PROVE  OneEach(obj[a].dv, Len(obj[a].elems))
    <3>1. Laid(obj[a].dv, Len(obj[a].elems))
      BY <2>1 DEF MemInv, HeapOK, WellFormed
    <3>2. QED
      BY <3>1, OneForEach
  <2>2. running = "RUNNING" /\ ~Fails => PairsThere
    BY PairsAreThere
  <2>3. QED
    BY <2>1, <2>2 DEF ArraysFit
<1>2. QED
  BY <1>1, MemInvariance, PTL

(***************************************************************************)
(* The frames implement calls (Compiled!ImplementsCalls): CALL on a frame  *)
(* begins a call and leaves the others, RET and a RETHROW out of the       *)
(* running function end the last one, a tail call makes it a call of the   *)
(* same function with the same captured cells, and no other step touches   *)
(* a call but for the arguments of the last.  Collections and exceptions   *)
(* that pass through the frames are among these steps.                     *)
(***************************************************************************)
THEOREM CallsImplemented == Spec /\ []Promised => ImplementsCalls
<1>1. Init => Calls!Init
  <2> SUFFICES ASSUME Init
               PROVE  CallStack = << >>
    BY DEF Calls!Init
  <2>1. pp = -1
    BY DEF Init
  <2>2. LinkedFrom(4)[-1] = <<-1>>
    BY FollowsNow, SizesAssumption DEF Follows
  <2>3. Activations = <<-1>>
    BY <2>1, <2>2 DEF Activations
  <2>4. PICK bs : bs = Activations
    OBVIOUS
  <2>5. QED
    BY <2>3, CallsNow, NoCalls
<1>2. MemInv /\ Promised /\ [Next]_vmVars => [Calls!Next]_CallStack
  BY MemStep DEF Lawful
<1>3. QED
  BY <1>1, <1>2, MemInvariance, PTL DEF Spec, ImplementsCalls, Calls!Spec
=============================================================================

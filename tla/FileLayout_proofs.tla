-------------------------- MODULE FileLayout_proofs --------------------------
(***************************************************************************)
(* The way from a place in a torrent to places in its files, for any files *)
(* and any blocks: the binary search finds the file, the loop over the     *)
(* files fills them one after the other, and what describeLocation returns *)
(* is the row of files the block lies in, or begins too far ahead.         *)
(***************************************************************************)
EXTENDS FileLayout, SequenceTheorems, FiniteSetTheorems, WellFoundedInduction, TLAPS

----------------------------------------------------------------------------
\* Induction and recursion over numbers.

\* A set of numbers that has 0 and the successor of each of its members has them all.
LEMMA NatSetInduction ==
  ASSUME NEW T \in SUBSET Nat, 0 \in T, \A n \in T : n + 1 \in T
  PROVE  T = Nat
<1> SUFFICES ASSUME Nat \ T # {} PROVE FALSE
  OBVIOUS
<1>1. PICK n \in Nat \ T : \A m \in Nat \ T : ~ (<<m, n>> \in OpToRel(<, Nat))
  BY NatLessThanWellFounded, WFMin
<1>2. n # 0 /\ n - 1 \in Nat  OBVIOUS
<1>3. <<n - 1, n>> \in OpToRel(<, Nat)  BY <1>2 DEF OpToRel
<1>4. n - 1 \in T  BY <1>1, <1>2, <1>3
<1> QED  BY <1>2, <1>4

LEMMA SmallestFacts ==
  ASSUME NEW T \in SUBSET Nat, T # {}
  PROVE  Smallest(T) \in T /\ \A n \in T : Smallest(T) <= n
<1>1. PICK n \in T : \A m \in T : ~ (<<m, n>> \in OpToRel(<, Nat))
  BY NatLessThanWellFounded, WFMin
<1>2. ASSUME NEW m \in T PROVE n <= m
  <2>1. m < n => <<m, n>> \in OpToRel(<, Nat)  BY DEF OpToRel
  <2>2. ~ (m < n)  BY <1>1, <2>1
  <2> QED  BY <2>2
<1> QED  BY <1>2 DEF Smallest

\* A function that is defined from its value one before exists.
Recursion(a, N, S, base, step) ==
    a \in Nat /\ N \in Nat /\ a <= N /\ base \in S /\ step \in [a..N -> [S -> S]]
Follows(f, a, N, S, base, step) ==
    f \in [a..N -> S] /\ f[a] = base /\ \A n \in (a+1)..N : f[n] = step[n][f[n-1]]

LEMMA RecursionExists ==
  ASSUME NEW a, NEW N, NEW S, NEW base, NEW step, Recursion(a, N, S, base, step)
  PROVE  \E f : Follows(f, a, N, S, base, step)
<1> USE DEF Recursion, Follows
<1> DEFINE Upto(f, k) == /\ f \in [a..k -> S] /\ f[a] = base
                         /\ \A n \in (a+1)..k : f[n] = step[n][f[n-1]]
           T == {k \in Nat : k <= N - a => \E f : Upto(f, a + k)}
<1>1. 0 \in T
  <2>1. Upto([n \in a..a |-> base], a + 0)  OBVIOUS
  <2> QED  BY <2>1
<1>2. ASSUME NEW k \in T PROVE k + 1 \in T
  <2> SUFFICES ASSUME k + 1 <= N - a PROVE \E f : Upto(f, a + (k + 1))
    OBVIOUS
  <2>1. PICK f : Upto(f, a + k)  OBVIOUS
  <2> DEFINE m == a + k
             g == [n \in a..m+1 |-> IF n = m + 1 THEN step[m+1][f[m]] ELSE f[n]]
  <2>2. m \in a..N /\ m + 1 \in a..N /\ f[m] \in S  BY <2>1
  <2>3. g \in [a..m+1 -> S]  BY <2>1, <2>2
  <2>4. g[a] = base  BY <2>1, <2>2
  <2>5. ASSUME NEW n \in (a+1)..m+1 PROVE g[n] = step[n][g[n-1]]
    <3>1. CASE n = m + 1
      <4>1. g[n] = step[n][f[m]] /\ n - 1 = m  BY <2>2, <3>1
      <4>2. g[m] = f[m]  BY <2>2
      <4> QED  BY <4>1, <4>2
    <3>2. CASE n # m + 1
      <4>1. n \in (a+1)..m /\ n - 1 \in a..m  BY <2>2, <3>2
      <4>2. g[n] = f[n] /\ g[n-1] = f[n-1]  BY <2>2, <4>1
      <4> QED  BY <2>1, <4>1, <4>2
    <3> QED  BY <3>1, <3>2
  <2>6. Upto(g, m + 1)
    <3> HIDE DEF g
    <3> QED  BY <2>3, <2>4, <2>5
  <2>7. m + 1 = a + (k + 1)  OBVIOUS
  <2> HIDE DEF g, m, Upto
  <2> QED  BY <2>6, <2>7
<1> HIDE DEF T
<1>3. T = Nat  BY <1>1, <1>2, NatSetInduction DEF T
<1>4. PICK f : Upto(f, N)
  <2>1. N - a \in T /\ a + (N - a) = N  BY <1>3
  <2> QED  BY <2>1 DEF T
<1> QED  BY <1>4

----------------------------------------------------------------------------
\* Where the files begin.

LEMMA StartsFacts ==
  ASSUME NEW files \in Seq(Nat)
  PROVE  /\ Len(files) \in Nat /\ \A f \in 1..Len(files) : files[f] \in Nat
         /\ Starts(files) \in [1..Len(files)+1 -> Nat] /\ Starts(files)[1] = 0
         /\ \A f \in 1..Len(files) : Starts(files)[f+1] = Starts(files)[f] + files[f]
<1> DEFINE L == Len(files)
           step == [n \in 1..L+1 |-> [x \in Nat |-> IF n = 1 THEN 0 ELSE x + files[n-1]]]
           Def(s) == s = [f \in 1..L+1 |-> IF f = 1 THEN 0 ELSE s[f-1] + files[f-1]]
<1>1. L \in Nat /\ L + 1 \in Nat /\ 1 <= L + 1 /\ \A f \in 1..L : files[f] \in Nat  OBVIOUS
<1>2. step \in [1..L+1 -> [Nat -> Nat]]
  <2>1. ASSUME NEW f \in 1..L+1, f # 1 PROVE files[f-1] \in Nat
    <3>1. f - 1 \in 1..L  BY <1>1, <2>1
    <3> QED  BY <1>1, <3>1
  <2> QED  BY <2>1
<1>3. PICK s \in [1..L+1 -> Nat] : s[1] = 0 /\ \A n \in 2..L+1 : s[n] = step[n][s[n-1]]
  <2> DEFINE N == L + 1
  <2>1. N \in Nat /\ 1 <= N /\ 0 \in Nat /\ 1 \in Nat /\ step \in [1..N -> [Nat -> Nat]]
    BY <1>1, <1>2
  <2>2. PICK a, base, S : a = 1 /\ base = 0 /\ S = Nat  OBVIOUS
  <2> HIDE DEF step, L, N
  <2>3. Recursion(a, N, S, base, step)
    BY <2>1, <2>2 DEF Recursion
  <2>4. PICK s : Follows(s, a, N, S, base, step)
    BY <2>3, RecursionExists
  <2>5. a + 1 = 2  BY <2>2
  <2> QED  BY <2>2, <2>4, <2>5 DEF N, Follows
<1>4. Def(s)
  <2>1. ASSUME NEW n \in 1..L+1, n # 1 PROVE s[n] = s[n-1] + files[n-1]
    <3>1. n - 1 \in 1..L+1 /\ n \in 2..L+1  BY <1>1, <2>1
    <3>2. step[n][s[n-1]] = s[n-1] + files[n-1]  BY <3>1, <2>1
    <3> QED  BY <1>3, <3>1, <3>2
  <2> HIDE DEF step
  <2> QED  BY <1>3, <2>1
<1>5. Starts(files) = CHOOSE u : Def(u)  BY DEF Starts
<1>6. Def(Starts(files))  BY <1>4, <1>5
<1>7. PICK u : u = Starts(files)  OBVIOUS
<1>8. DOMAIN u = 1..L+1 /\ u[1] = 0 /\ \A f \in 1..L+1 : f # 1 => u[f] = u[f-1] + files[f-1]
  <2>1. u = [f \in 1..L+1 |-> IF f = 1 THEN 0 ELSE u[f-1] + files[f-1]]  BY <1>6, <1>7
  <2>2. 1 \in 1..L+1  BY <1>1
  <2> QED  BY <2>1, <2>2
<1>9. \A f \in 1..L : u[f+1] = u[f] + files[f]
  <2> SUFFICES ASSUME NEW f \in 1..L PROVE u[f+1] = u[f] + files[f]
    OBVIOUS
  <2>1. f + 1 \in 1..L+1 /\ f + 1 # 1 /\ (f + 1) - 1 = f  BY <1>1
  <2> QED  BY <1>8, <2>1
<1> DEFINE T == {k \in Nat : k <= L => u[k+1] \in Nat}
<1>10. T = Nat
  <2>1. 0 \in T  BY <1>8
  <2>2. ASSUME NEW k \in T PROVE k + 1 \in T
    <3> SUFFICES ASSUME k + 1 <= L PROVE u[(k + 1) + 1] \in Nat
      OBVIOUS
    <3>1. PICK g : g = k + 1  OBVIOUS
    <3>2. u[g] \in Nat /\ g \in 1..L  BY <1>1, <3>1
    <3>3. u[g+1] = u[g] + files[g] /\ files[g] \in Nat  BY <1>1, <1>9, <3>2
    <3>4. PICK a, b, c : a = u[g] /\ b = files[g] /\ c = u[g+1]  OBVIOUS
    <3>5. a \in Nat /\ b \in Nat /\ c = a + b  BY <3>2, <3>3, <3>4
    <3>6. c \in Nat  BY <3>5
    <3> QED  BY <3>1, <3>4, <3>6
  <2> HIDE DEF T
  <2> QED  BY <2>1, <2>2, NatSetInduction DEF T
<1>11. \A f \in 1..L+1 : u[f] \in Nat
  <2> SUFFICES ASSUME NEW f \in 1..L+1 PROVE u[f] \in Nat
    OBVIOUS
  <2>1. f - 1 \in Nat /\ f - 1 <= L /\ (f - 1) + 1 = f  BY <1>1
  <2>2. \A k \in Nat : k <= L => u[k+1] \in Nat  BY <1>10
  <2> QED  BY <2>1, <2>2
<1>12. u \in [1..L+1 -> Nat]
  <2>1. u = [f \in 1..L+1 |-> u[f]]  BY <1>6, <1>7
  <2> QED  BY <1>11, <2>1
<1> QED  BY <1>1, <1>7, <1>8, <1>9, <1>12

LEMMA StartsGrow ==
  ASSUME NEW files \in Seq(Nat), NEW f \in 1..Len(files)+1, NEW g \in 1..Len(files)+1, f <= g
  PROVE  Starts(files)[f] <= Starts(files)[g]
<1> DEFINE L == Len(files)
           u == Starts(files)
           T == {k \in Nat : f + k <= L + 1 => u[f] <= u[f+k]}
<1>1. /\ L \in Nat /\ \A h \in 1..L : files[h] \in Nat
      /\ u \in [1..L+1 -> Nat] /\ \A h \in 1..L : u[h+1] = u[h] + files[h]
  BY StartsFacts
<1>2. f \in 1..L+1 /\ g \in 1..L+1  OBVIOUS
<1> HIDE DEF L, u
<1>3. T = Nat
  <2>1. 0 \in T
    <3>1. f + 0 = f /\ u[f] \in Nat  BY <1>1, <1>2
    <3> QED  BY <3>1
  <2>2. ASSUME NEW k \in T PROVE k + 1 \in T
    <3> SUFFICES ASSUME f + (k + 1) <= L + 1 PROVE u[f] <= u[f + (k + 1)]
      OBVIOUS
    <3>1. f + k \in 1..L /\ f + (k + 1) = (f + k) + 1  BY <1>1, <1>2
    <3>2. u[f] <= u[f+k]  BY <1>1, <3>1
    <3>3. u[f + (k + 1)] = u[f+k] + files[f+k] /\ files[f+k] \in Nat  BY <1>1, <3>1
    <3>4. u[f] \in Nat /\ u[f+k] \in Nat  BY <1>1, <1>2, <3>1
    <3> QED  BY <3>2, <3>3, <3>4
  <2> HIDE DEF T
  <2> QED  BY <2>1, <2>2, NatSetInduction DEF T
<1>4. g - f \in Nat /\ f + (g - f) = g /\ g <= L + 1  BY <1>1, <1>2
<1>5. \A k \in Nat : f + k <= L + 1 => u[f] <= u[f+k]  BY <1>3
<1> QED  BY <1>4, <1>5 DEF u

\* A file begins where the ones before it have ended, or later.
LEMMA EndsGrow ==
  ASSUME NEW files \in Seq(Nat), NEW f \in 1..Len(files)+1, NEW g \in 1..Len(files)+1, f < g
  PROVE  Starts(files)[f] + files[f] <= Starts(files)[g]
<1>1. Len(files) \in Nat  OBVIOUS
<1>2. f \in 1..Len(files) /\ f + 1 \in 1..Len(files)+1 /\ f + 1 <= g  BY <1>1
<1>3. Starts(files)[f+1] <= Starts(files)[g]  BY <1>2, StartsGrow
<1> QED  BY <1>2, <1>3, StartsFacts

\* Every place in the torrent is in one file, and in no other.
LEMMA PlaceHasFile ==
  ASSUME NEW files \in Seq(Nat), NEW where \in Nat, where < TorrentSize(files)
  PROVE  \E f \in 1..Len(files) : Starts(files)[f] <= where /\ where < Starts(files)[f] + files[f]
<1> DEFINE L == Len(files)
           u == Starts(files)
           Past == {g \in 1..L+1 : where < u[g]}
<1>1. /\ L \in Nat /\ \A h \in 1..L : files[h] \in Nat
      /\ u \in [1..L+1 -> Nat] /\ u[1] = 0 /\ \A h \in 1..L : u[h+1] = u[h] + files[h]
  BY StartsFacts
<1>2. where < u[L+1]  BY DEF TorrentSize
<1> HIDE DEF L, u
<1>3. Past \in SUBSET Nat /\ Past # {}
  <2>1. Past \subseteq Nat  BY <1>1
  <2>2. L + 1 \in Past  BY <1>1, <1>2
  <2> QED  BY <2>1, <2>2
<1> DEFINE g == Smallest(Past)
<1>4. g \in Past /\ \A n \in Past : g <= n  BY <1>3, SmallestFacts
<1> HIDE DEF g
<1>5. g \in 2..L+1 /\ where < u[g]  BY <1>1, <1>4
<1>6. g - 1 \in 1..L /\ g - 1 \in 1..L+1 /\ (g - 1) + 1 = g  BY <1>1, <1>5
<1>7. ~ (where < u[g-1])
  <2>1. g - 1 \notin Past  BY <1>4, <1>5
  <2> QED  BY <1>6, <2>1
<1>8. u[g-1] <= where  BY <1>1, <1>6, <1>7
<1>9. where < u[g-1] + files[g-1]  BY <1>1, <1>5, <1>6
<1> QED  BY <1>6, <1>8, <1>9 DEF L, u

LEMMA FileUnique ==
  ASSUME NEW files \in Seq(Nat), NEW where \in Nat,
         NEW f \in 1..Len(files), Starts(files)[f] <= where, where < Starts(files)[f] + files[f],
         NEW g \in 1..Len(files), Starts(files)[g] <= where, where < Starts(files)[g] + files[g]
  PROVE  f = g
<1>1. /\ Len(files) \in Nat /\ f \in 1..Len(files)+1 /\ g \in 1..Len(files)+1
      /\ Starts(files)[f] \in Nat /\ Starts(files)[g] \in Nat
      /\ files[f] \in Nat /\ files[g] \in Nat
  <2>1. Len(files) \in Nat  OBVIOUS
  <2>2. f \in 1..Len(files)+1 /\ g \in 1..Len(files)+1  BY <2>1
  <2> QED  BY <2>1, <2>2, StartsFacts
<1>2. PICK p, q, r, t : p = Starts(files)[f] /\ q = files[f] /\ r = Starts(files)[g] /\ t = files[g]
  OBVIOUS
<1>3. f < g => p + q <= r  BY <1>1, <1>2, EndsGrow
<1>4. g < f => r + t <= p  BY <1>1, <1>2, EndsGrow
<1>5. /\ p \in Nat /\ q \in Nat /\ r \in Nat /\ t \in Nat
      /\ p <= where /\ where < p + q /\ r <= where /\ where < r + t
  BY <1>1, <1>2
<1>6. ~ (f < g) /\ ~ (g < f)  BY <1>3, <1>4, <1>5
<1> QED  BY <1>1, <1>6

----------------------------------------------------------------------------
\* The binary search.

Holds(files, f, where) ==
    f \in 1..Len(files) /\ Starts(files)[f] <= where /\ where < Starts(files)[f] + files[f]

\* The range the search has come to, n turns after its start.
Searching(files, where, range, n) ==
    /\ range.left \in 1..Len(files) /\ range.right \in 1..Len(files)+1
    /\ range.left < range.right
    /\ Starts(files)[range.left] <= where /\ where < Starts(files)[range.right]
    /\ \/ Holds(files, Middle(range), where)
       \/ range.right - range.left <= Len(files) - n

LEMMA MiddleFacts ==
  ASSUME NEW left \in Int, NEW right \in Int, left < right,
         NEW range, range.left = left, range.right = right
  PROVE  Middle(range) \in Int /\ left <= Middle(range) /\ Middle(range) < right
BY DEF Middle

Ranges(files) == [left : 1..Len(files)+1, right : 1..Len(files)+1]

LEMMA HalveType ==
  ASSUME NEW files \in Seq(Nat), NEW where, NEW range \in Ranges(files)
  PROVE  Halve(files, where, range) \in Ranges(files)
<1>1. range.left \in 1..Len(files)+1 /\ range.right \in 1..Len(files)+1
  BY DEF Ranges
<1>2. Len(files) \in Nat  OBVIOUS
<1>3. CASE range.left >= range.right
  BY <1>3 DEF Halve
<1>4. CASE ~ (range.left >= range.right)
  <2>1. range.left < range.right  BY <1>1, <1>2, <1>4
  <2>2. Middle(range) \in 1..Len(files)+1
    <3>1. PICK l, r : l = range.left /\ r = range.right  OBVIOUS
    <3>2. Middle(range) \in Int /\ l <= Middle(range) /\ Middle(range) < r
      BY <1>1, <1>2, <2>1, <3>1, MiddleFacts
    <3> QED  BY <1>1, <1>2, <3>1, <3>2
  <2> QED  BY <1>1, <2>2 DEF Halve, Ranges
<1> QED  BY <1>3, <1>4

LEMMA HalveSearches ==
  ASSUME NEW files \in Seq(Nat), NEW where \in Nat, NEW n \in Nat, NEW range \in Ranges(files),
         Searching(files, where, range, n)
  PROVE  Searching(files, where, Halve(files, where, range), n + 1)
<1> DEFINE L == Len(files)
           u == Starts(files)
           m == Middle(range)
           l == range.left
           r == range.right
<1>1. /\ L \in Nat /\ \A h \in 1..L : files[h] \in Nat
      /\ u \in [1..L+1 -> Nat] /\ \A h \in 1..L : u[h+1] = u[h] + files[h]
  BY StartsFacts
<1>2. /\ l \in 1..L /\ r \in 1..L+1 /\ l < r /\ u[l] <= where /\ where < u[r]
      /\ Holds(files, m, where) \/ r - l <= L - n
  BY DEF Searching
<1>3. m \in 1..L /\ l <= m /\ m < r
  <2>1. m \in Int /\ l <= m /\ m < r
    <3>1. PICK x, y : x = l /\ y = r  OBVIOUS
    <3> QED  BY <1>1, <1>2, <3>1, MiddleFacts
  <2> QED  BY <1>1, <1>2, <2>1
<1>4. u[m] \in Nat /\ files[m] \in Nat /\ u[m+1] = u[m] + files[m]
  <2> HIDE DEF L, u, m
  <2> QED  BY <1>1, <1>3
<1>5. ~ (l >= r)  BY <1>1, <1>2
<1>6. CASE where < u[m]
  <2>1. Halve(files, where, range) = [range EXCEPT !.right = m]
    BY <1>5, <1>6 DEF Halve
  <2>2. PICK h : h = Halve(files, where, range)  OBVIOUS
  <2>3. h.left = l /\ h.right = m  BY <2>1, <2>2 DEF Ranges
  <2>4. l < m
    <3> HIDE DEF u, l, r, m, L
    <3>1. PICK x : x = u[m]  OBVIOUS
    <3>2. x \in Nat /\ where < x  BY <1>4, <1>6, <3>1
    <3>3. l = m => x <= where  BY <1>2, <3>1
    <3>4. l # m  BY <3>2, <3>3
    <3> QED  BY <1>1, <1>2, <1>3, <3>4
  <2>5. ~ Holds(files, m, where)  BY <1>4, <1>6 DEF Holds
  <2>6. m - l <= L - (n + 1)
    <3>1. r - l <= L - n  BY <1>2, <2>5
    <3> HIDE DEF L, m, l, r
    <3> QED  BY <1>1, <1>2, <1>3, <3>1
  <2>7. Searching(files, where, h, n + 1)
    <3> HIDE DEF L, u, m, l, r
    <3>1. l \in 1..L /\ m \in 1..L+1 /\ l < m /\ u[l] <= where /\ where < u[m] /\ m - l <= L - (n + 1)
      BY <1>1, <1>2, <1>3, <1>6, <2>4, <2>6
    <3> QED  BY <2>3, <3>1 DEF Searching, L, u
  <2> QED  BY <2>2, <2>7
<1>7. CASE where >= u[m] + files[m]
  <2>1. Halve(files, where, range) = [range EXCEPT !.left = m]
    BY <1>4, <1>5, <1>7 DEF Halve
  <2>2. PICK h : h = Halve(files, where, range)  OBVIOUS
  <2>3. h.left = m /\ h.right = r  BY <2>1, <2>2 DEF Ranges
  <2>4. l < m
    <3>1. u[m+1] <= where  BY <1>4, <1>7
    <3>4. m = l + (r - l) \div 2  BY DEF Middle
    <3> HIDE DEF l, r, m, L, u
    <3>2. m + 1 # r
      <4>1. PICK x : x = u[r]  OBVIOUS
      <4>2. x \in Nat /\ where < x  BY <1>1, <1>2, <4>1
      <4>3. m + 1 = r => x <= where  BY <3>1, <4>1
      <4> QED  BY <4>2, <4>3
    <3>3. l + 1 < r  BY <1>1, <1>2, <1>3, <3>2
    <3>5. r - l \in Int /\ r - l >= 2  BY <1>1, <1>2, <3>3
    <3>6. \A d \in Int : d >= 2 => d \div 2 >= 1  OBVIOUS
    <3>7. (r - l) \div 2 \in Int /\ (r - l) \div 2 >= 1  BY <3>5, <3>6
    <3> QED  BY <1>1, <1>2, <3>4, <3>7
  <2>5. ~ Holds(files, m, where)  BY <1>4, <1>7 DEF Holds
  <2>6. r - m <= L - (n + 1)
    <3>1. r - l <= L - n  BY <1>2, <2>5
    <3> HIDE DEF L, m, l, r
    <3> QED  BY <1>1, <1>2, <1>3, <2>4, <3>1
  <2>7. Searching(files, where, h, n + 1)
    <3> HIDE DEF L, u, m, l, r
    <3>1. u[m] <= where  BY <1>4, <1>7
    <3>2. m \in 1..L /\ r \in 1..L+1 /\ m < r /\ where < u[r] /\ r - m <= L - (n + 1)
      BY <1>2, <1>3, <2>6
    <3> QED  BY <2>3, <3>1, <3>2 DEF Searching, L, u
  <2> QED  BY <2>2, <2>7
<1>8. CASE ~ (where < u[m]) /\ ~ (where >= u[m] + files[m])
  <2>1. Halve(files, where, range) = range
    BY <1>5, <1>8 DEF Halve
  <2>2. Holds(files, m, where)  BY <1>3, <1>4, <1>8 DEF Holds
  <2> QED  BY <1>2, <2>1, <2>2 DEF Searching
<1> QED  BY <1>6, <1>7, <1>8

\* The loop of describeLocation ends, and at the file with the place, for any files,
\* empty ones among them, and any place in the torrent (diskio.cc:173-191).
THEOREM BinarySearchFinds ==
  ASSUME NEW files \in Seq(Nat), NEW where \in Nat, where < TorrentSize(files)
  PROVE  Holds(files, BinarySearch(files, where), where)
<1> DEFINE L == Len(files)
           S == Ranges(files)
           base == [left |-> 1, right |-> L + 1]
           step == [n \in 0..L |-> [x \in S |-> Halve(files, where, x)]]
           Def(g) == g = [n \in 0..L |-> IF n = 0 THEN base ELSE Halve(files, where, g[n - 1])]
<1>1. L \in Nat /\ base \in S
  BY DEF Ranges
<1>2. Recursion(0, L, S, base, step)
  <2>1. step \in [0..L -> [S -> S]]  BY HalveType
  <2> QED  BY <1>1, <2>1 DEF Recursion
<1>3. PICK g : Follows(g, 0, L, S, base, step)
  <2> HIDE DEF L, S, base, step
  <2> QED  BY <1>2, RecursionExists
<1>4. /\ g \in [0..L -> S] /\ g[0] = base
      /\ \A n \in 1..L : g[n] = Halve(files, where, g[n-1])
  <2>1. g \in [0..L -> S] /\ g[0] = base /\ \A n \in 1..L : g[n] = step[n][g[n-1]]
    <3> HIDE DEF S, base, step
    <3> QED  BY <1>1, <1>3 DEF Follows
  <2>2. ASSUME NEW n \in 1..L PROVE g[n] = Halve(files, where, g[n-1])
    <3>1. n \in 0..L /\ n - 1 \in 0..L  BY <1>1
    <3>2. g[n-1] \in S  BY <2>1, <3>1
    <3> HIDE DEF S
    <3> QED  BY <2>1, <3>1, <3>2
  <2> QED  BY <2>1, <2>2
<1>5. Def(g)
  <2> HIDE DEF S, base
  <2> QED  BY <1>1, <1>4
<1> DEFINE v == CHOOSE w : Def(w)
<1>6. Def(v)  BY <1>5
<1> HIDE DEF v, Def
<1>7. BinarySearch(files, where) = IF v[L].left >= v[L].right THEN 0 ELSE Middle(v[L])
  BY DEF BinarySearch, v, Def
<1>8. v[0] = base /\ \A n \in 0..L : n # 0 => v[n] = Halve(files, where, v[n-1])
  <2> HIDE DEF base
  <2>1. v = [n \in 0..L |-> IF n = 0 THEN base ELSE Halve(files, where, v[n - 1])]  BY <1>6 DEF Def
  <2>2. PICK w : w = v  OBVIOUS
  <2>3. w = [n \in 0..L |-> IF n = 0 THEN base ELSE Halve(files, where, w[n - 1])]  BY <2>1, <2>2
  <2>4. 0 \in 0..L  BY <1>1
  <2> HIDE DEF L
  <2>5. w[0] = base /\ \A n \in 0..L : n # 0 => w[n] = Halve(files, where, w[n-1])
    BY <2>3, <2>4
  <2> QED  BY <2>2, <2>5
<1> DEFINE T == {n \in Nat : n <= L => v[n] \in S /\ Searching(files, where, v[n], n)}
<1>9. T = Nat
  <2>1. 0 \in T
    <3>1. base.left = 1 /\ base.right = L + 1 /\ base \in S  BY <1>1
    <3>2. Starts(files)[1] = 0 /\ where < Starts(files)[L+1]
      BY StartsFacts DEF TorrentSize
    <3>3. 1 \in 1..L
      <4>1. L # 0  BY <3>2
      <4> QED  BY <1>1, <4>1
    <3>4. Searching(files, where, base, 0)
      <4> HIDE DEF base
      <4> QED  BY <1>1, <3>1, <3>2, <3>3 DEF Searching
    <3> HIDE DEF S, base
    <3> QED  BY <1>8, <3>1, <3>4
  <2>2. ASSUME NEW n \in T PROVE n + 1 \in T
    <3> HIDE DEF S
    <3> SUFFICES ASSUME n + 1 <= L
                 PROVE  v[n+1] \in S /\ Searching(files, where, v[n+1], n + 1)
      OBVIOUS
    <3>1. n \in Nat /\ n + 1 \in 0..L /\ n + 1 # 0 /\ (n + 1) - 1 = n
          /\ v[n] \in S /\ Searching(files, where, v[n], n)
      BY <1>1
    <3>2. v[n+1] = Halve(files, where, v[n])  BY <1>8, <3>1
    <3> QED  BY <3>1, <3>2, HalveType, HalveSearches DEF S
  <2> HIDE DEF T
  <2> QED  BY <2>1, <2>2, NatSetInduction DEF T
<1>10. Searching(files, where, v[L], L)
  <2>1. L \in T  BY <1>1, <1>9
  <2> QED  BY <1>1, <2>1
<1>11. PICK w : w = v[L]  OBVIOUS
<1>12. /\ w.left \in Nat /\ w.right \in Nat /\ w.left < w.right
       /\ Holds(files, Middle(w), where) \/ w.right - w.left <= L - L
  BY <1>1, <1>10, <1>11 DEF Searching
<1>13. Holds(files, Middle(w), where)  BY <1>1, <1>12
<1> QED  BY <1>7, <1>11, <1>12, <1>13

----------------------------------------------------------------------------
\* Rows of runs: each goes on where the one before has ended.

From(files, run) == Starts(files)[run.file] + run.offset
Upto(files, run) == Starts(files)[run.file] + files[run.file]

\* Where the first n runs, which begin at a place, end.
Reached(files, runs, from, n) == IF n = 0 THEN from ELSE Upto(files, runs[n])

RunIn(files, run) ==
    /\ run.file \in 1..Len(files) /\ run.offset \in Int
    /\ run.offset < files[run.file]

Run == [file : Nat, offset : Int]

Row(files, runs, from) ==
    /\ runs \in Seq(Run)
    /\ \A n \in 1..Len(runs) :
         RunIn(files, runs[n]) /\ From(files, runs[n]) = Reached(files, runs, from, n - 1)

RowEnd(files, runs, from) == Reached(files, runs, from, Len(runs))

\* What the code makes of sequences, as facts about their elements.
Joined(s, t, q) ==
    /\ Len(s) \in Nat /\ Len(t) \in Nat /\ Len(q) = Len(s) + Len(t)
    /\ \A n \in 1..Len(s) : q[n] = s[n]
    /\ \A n \in 1..Len(t) : q[Len(s) + n] = t[n]

LEMMA SameLength ==
  ASSUME NEW m \in Nat, NEW n \in Nat, 1..m = 1..n
  PROVE  m = n
<1>1. m >= 1 => m \in 1..n  OBVIOUS
<1>2. n >= 1 => n \in 1..m  OBVIOUS
<1> QED  BY <1>1, <1>2

LEMMA RowOfLength ==
  ASSUME NEW S, NEW n \in Nat, NEW f \in [1..n -> S]
  PROVE  f \in Seq(S) /\ Len(f) = n
<1>1. f \in Seq(S)  BY SeqDef
<1>2. Len(f) \in Nat /\ DOMAIN f = 1..Len(f)  BY <1>1, LenProperties
<1>3. DOMAIN f = 1..n  OBVIOUS
<1>4. PICK m : m = Len(f)  OBVIOUS
<1>5. m \in Nat /\ 1..m = 1..n  BY <1>2, <1>3, <1>4
<1>6. m = n  BY <1>5, SameLength
<1> QED  BY <1>1, <1>4, <1>6

LEMMA JoinedFacts ==
  ASSUME NEW S, NEW s \in Seq(S), NEW t \in Seq(S)
  PROVE  (s \o t) \in Seq(S) /\ Joined(s, t, s \o t)
<1>1. Len(s) \in Nat /\ Len(t) \in Nat  OBVIOUS
<1>2. (s \o t) \in Seq(S) /\ Len(s \o t) = Len(s) + Len(t)  OBVIOUS
<1>3. \A n \in 1..Len(s) : (s \o t)[n] = s[n]  OBVIOUS
<1>4. \A n \in 1..Len(t) : (s \o t)[Len(s) + n] = t[n]
  <2> SUFFICES ASSUME NEW n \in 1..Len(t) PROVE (s \o t)[Len(s) + n] = t[n]
    OBVIOUS
  <2>1. Len(s) + n \in 1..Len(s) + Len(t) /\ ~ (Len(s) + n <= Len(s)) /\ (Len(s) + n) - Len(s) = n
    BY <1>1
  <2> QED  BY <1>1, <2>1
<1> QED  BY <1>1, <1>2, <1>3, <1>4 DEF Joined

LEMMA RowEmpty ==
  ASSUME NEW files, NEW from
  PROVE  Row(files, <<>>, from) /\ RowEnd(files, <<>>, from) = from
BY DEF Row, RowEnd, Reached

LEMMA RowSingle ==
  ASSUME NEW files \in Seq(Nat), NEW from, NEW run \in Run, RunIn(files, run),
         From(files, run) = from
  PROVE  Row(files, <<run>>, from) /\ RowEnd(files, <<run>>, from) = Upto(files, run)
<1> DEFINE q == <<run>>
<1>1. q \in Seq(Run) /\ Len(q) = 1 /\ q[1] = run  OBVIOUS
<1> HIDE DEF q
<1>2. Reached(files, q, from, 0) = from /\ 1 - 1 = 0  BY DEF Reached
<1>3. Row(files, q, from)  BY <1>1, <1>2 DEF Row
<1>4. RowEnd(files, q, from) = Upto(files, run)  BY <1>1 DEF RowEnd, Reached
<1> QED  BY <1>3, <1>4 DEF q

LEMMA RowJoin ==
  ASSUME NEW files, NEW from, NEW s, Row(files, s, from), NEW t, Row(files, t, RowEnd(files, s, from))
  PROVE  Row(files, s \o t, from) /\ RowEnd(files, s \o t, from) = RowEnd(files, t, RowEnd(files, s, from))
         /\ Joined(s, t, s \o t)
<1>1. s \in Seq(Run) /\ t \in Seq(Run)  BY DEF Row
<1>2. PICK q : q = s \o t  OBVIOUS
<1>3. q \in Seq(Run) /\ Joined(s, t, q)  BY <1>1, <1>2, JoinedFacts
<1> DEFINE mid == RowEnd(files, s, from)
           k == Len(s)
<1>4. /\ k \in Nat /\ Len(t) \in Nat /\ Len(q) = k + Len(t)
      /\ \A n \in 1..k : q[n] = s[n]
      /\ \A n \in 1..Len(t) : q[k + n] = t[n]
  BY <1>3 DEF Joined
<1>5. \A n \in 0..k : Reached(files, q, from, n) = Reached(files, s, from, n)
  <2> HIDE DEF k
  <2> QED  BY <1>4 DEF Reached
<1>6. mid = Reached(files, s, from, k)  BY DEF RowEnd
<1> HIDE DEF mid, k
<1>7. \A n \in 0..Len(t) : Reached(files, q, from, k + n) = Reached(files, t, mid, n)
  <2> SUFFICES ASSUME NEW n \in 0..Len(t)
               PROVE  Reached(files, q, from, k + n) = Reached(files, t, mid, n)
    OBVIOUS
  <2>1. CASE n = 0
    <3>1. k + n = k /\ k \in 0..k  BY <1>4, <2>1
    <3> QED  BY <1>5, <1>6, <2>1, <3>1 DEF Reached
  <2>2. CASE n # 0
    <3>1. n \in 1..Len(t) /\ k + n # 0  BY <1>4, <2>2
    <3> QED  BY <1>4, <2>2, <3>1 DEF Reached
  <2> QED  BY <2>1, <2>2
<1>8. ASSUME NEW n \in 1..Len(q)
      PROVE  RunIn(files, q[n]) /\ From(files, q[n]) = Reached(files, q, from, n - 1)
  <2>1. CASE n <= k
    <3>1. n \in 1..k /\ n - 1 \in 0..k  BY <1>4, <2>1
    <3>2. RunIn(files, s[n]) /\ From(files, s[n]) = Reached(files, s, from, n - 1)
      BY <3>1 DEF Row, k
    <3> QED  BY <1>4, <1>5, <3>1, <3>2
  <2>2. CASE ~ (n <= k)
    <3>1. PICK m \in 1..Len(t) : n = k + m
      <4>1. n - k \in 1..Len(t) /\ n = k + (n - k)  BY <1>4, <2>2
      <4> QED  BY <4>1
    <3>2. m - 1 \in 0..Len(t) /\ n - 1 = k + (m - 1)  BY <1>4, <3>1
    <3>3. RunIn(files, t[m]) /\ From(files, t[m]) = Reached(files, t, mid, m - 1)
      BY DEF Row, mid
    <3>4. q[n] = t[m]  BY <1>4, <3>1
    <3> QED  BY <1>7, <3>2, <3>3, <3>4
  <2> QED  BY <2>1, <2>2
<1>9. Row(files, q, from)  BY <1>3, <1>8 DEF Row
<1>10. RowEnd(files, q, from) = RowEnd(files, t, mid)
  <2>1. Len(t) \in 0..Len(t)  BY <1>4
  <2> QED  BY <1>4, <1>7, <2>1 DEF RowEnd
<1> QED  BY <1>2, <1>3, <1>9, <1>10 DEF mid

\* A row only goes forward.
LEMMA RowGrows ==
  ASSUME NEW files \in Seq(Nat), NEW from \in Int, NEW s, Row(files, s, from),
         NEW n \in 0..Len(s)
  PROVE  Reached(files, s, from, n) \in Int /\ Reached(files, s, from, n) <= RowEnd(files, s, from)
<1> DEFINE P(k) == Reached(files, s, from, k)
           L == Len(s)
           T == {k \in Nat : k <= L => P(L - k) <= P(L)}
<1>1. L \in Nat  BY DEF Row
<1>2. \A k \in 1..L : P(k) = Upto(files, s[k]) /\ P(k) \in Int /\ P(k-1) \in Int /\ P(k-1) < P(k)
  <2> SUFFICES ASSUME NEW k \in 1..L
               PROVE  P(k) = Upto(files, s[k]) /\ P(k) \in Int /\ P(k-1) \in Int /\ P(k-1) < P(k)
    OBVIOUS
  <2>1. RunIn(files, s[k]) /\ From(files, s[k]) = P(k-1)  BY DEF Row
  <2>2. k # 0  BY <1>1
  <2>3. P(k) = Upto(files, s[k])  BY <2>2 DEF Reached
  <2> HIDE DEF P
  <2>4. PICK f : f = s[k].file  OBVIOUS
  <2>5. f \in 1..Len(files) /\ s[k].offset \in Int /\ s[k].offset < files[f]
    BY <2>1, <2>4 DEF RunIn
  <2>6. Starts(files)[f] \in Nat /\ files[f] \in Nat
    <3>1. f \in 1..Len(files)+1  BY <2>5, StartsFacts
    <3> QED  BY <2>5, <3>1, StartsFacts
  <2>7. P(k) = Starts(files)[f] + files[f]  BY <2>3, <2>4 DEF Upto
  <2>8. P(k-1) = Starts(files)[f] + s[k].offset  BY <2>1, <2>4 DEF From
  <2>9. PICK b, o, z : b = Starts(files)[f] /\ o = s[k].offset /\ z = files[f]  OBVIOUS
  <2>10. b \in Nat /\ o \in Int /\ z \in Nat /\ o < z  BY <2>5, <2>6, <2>9
  <2>11. P(k) = b + z /\ P(k-1) = b + o  BY <2>7, <2>8, <2>9
  <2>12. b + z \in Int /\ b + o \in Int /\ b + o < b + z  BY <2>10
  <2> QED  BY <2>3, <2>11, <2>12
<1>3. P(L) \in Int
  <2>1. CASE L = 0  BY <2>1 DEF Reached
  <2>2. CASE L # 0
    <3>1. L \in 1..L  BY <1>1, <2>2
    <3> HIDE DEF P
    <3> QED  BY <1>2, <3>1
  <2> QED  BY <2>1, <2>2
<1> HIDE DEF P, L
<1>4. T = Nat
  <2>1. 0 \in T
    <3>1. L - 0 = L  BY <1>1
    <3> QED  BY <1>3, <3>1
  <2>2. ASSUME NEW k \in T PROVE k + 1 \in T
    <3> SUFFICES ASSUME k + 1 <= L PROVE P(L - (k + 1)) <= P(L)
      OBVIOUS
    <3>1. L - k \in 1..L /\ L - (k + 1) = (L - k) - 1 /\ P(L - k) <= P(L)  BY <1>1
    <3>2. P(L - k) \in Int /\ P(L - (k + 1)) \in Int /\ P(L - (k + 1)) < P(L - k)
      BY <1>2, <3>1
    <3> QED  BY <1>3, <3>1, <3>2
  <2> HIDE DEF T
  <2> QED  BY <2>1, <2>2, NatSetInduction DEF T
<1>5. n \in 0..L  BY DEF L
<1>6. P(n) <= P(L)
  <2>1. L - n \in Nat /\ L - n <= L /\ L - (L - n) = n  BY <1>1, <1>5
  <2>2. \A k \in Nat : k <= L => P(L - k) <= P(L)  BY <1>4
  <2> QED  BY <2>1, <2>2
<1>7. P(n) \in Int
  <2>1. CASE n = L  BY <1>3, <2>1
  <2>2. CASE n # L
    <3>1. n + 1 \in 1..L /\ (n + 1) - 1 = n  BY <1>1, <1>5, <2>2
    <3> QED  BY <1>2, <3>1
  <2> QED  BY <2>1, <2>2
<1> QED  BY <1>6, <1>7 DEF P, L, RowEnd

----------------------------------------------------------------------------
\* The loop over the files that a block fills.

Stopped(files, at) ==
    ~ (at.remaining > 0 /\ at.index <= Len(files) /\ at.remaining >= files[at.index])

FillState(files) == [runs : Seq(Run), index : 1..Len(files)+1, remaining : Nat]

\* Every run begins with its file.
FromStarts(runs) == \A n \in 1..Len(runs) : runs[n].offset = 0

\* After n turns, for a block that goes on at a place up to its goal.
Filling(files, first, goal, at, n) ==
    /\ at.index >= first
    /\ Starts(files)[at.index] + at.remaining = goal
    /\ Row(files, at.runs, Starts(files)[first])
    /\ RowEnd(files, at.runs, Starts(files)[first]) = Starts(files)[at.index]
    /\ FromStarts(at.runs)
    /\ Stopped(files, at) \/ at.index = first + n

LEMMA JoinedFrom ==
  ASSUME NEW s, NEW t, NEW q, Joined(s, t, q), FromStarts(s), FromStarts(t)
  PROVE  FromStarts(q)
<1> SUFFICES ASSUME NEW n \in 1..Len(q) PROVE q[n].offset = 0
  BY DEF FromStarts
<1>1. Len(s) \in Nat /\ Len(t) \in Nat /\ Len(q) = Len(s) + Len(t)  BY DEF Joined
<1>2. CASE n <= Len(s)
  <2>1. n \in 1..Len(s)  BY <1>1, <1>2
  <2> QED  BY <2>1 DEF Joined, FromStarts
<1>3. CASE ~ (n <= Len(s))
  <2>1. PICK m : m = n - Len(s)  OBVIOUS
  <2>2. m \in 1..Len(t) /\ n = Len(s) + m  BY <1>1, <1>3, <2>1
  <2> QED  BY <2>2 DEF Joined, FromStarts
<1> QED  BY <1>2, <1>3

LEMMA FillFileKeeps ==
  ASSUME NEW files \in Seq(Nat), NEW first \in 1..Len(files)+1, NEW goal \in Nat,
         NEW n \in Nat, NEW at \in FillState(files), Filling(files, first, goal, at, n)
  PROVE  /\ FillFile(files, at) \in FillState(files)
         /\ Filling(files, first, goal, FillFile(files, at), n + 1)
<1> DEFINE L == Len(files)
           u == Starts(files)
           i == at.index
           r == at.remaining
           from == Starts(files)[first]
<1>1. /\ L \in Nat /\ \A h \in 1..L : files[h] \in Nat
      /\ u \in [1..L+1 -> Nat] /\ \A h \in 1..L : u[h+1] = u[h] + files[h]
  BY StartsFacts
<1>2. i \in 1..L+1 /\ r \in Nat /\ at.runs \in Seq(Run) /\ i >= first
      /\ u[i] + r = goal
  BY DEF FillState, Filling
<1>3. Row(files, at.runs, from) /\ RowEnd(files, at.runs, from) = u[i]
  BY DEF Filling
<1>4. CASE Stopped(files, at)
  <2>1. FillFile(files, at) = at  BY <1>4 DEF FillFile, Stopped
  <2> QED  BY <1>4, <2>1 DEF Filling
<1>5. CASE ~ Stopped(files, at)
  <2>1. r > 0 /\ i <= L /\ r >= files[i] /\ i = first + n
    BY <1>5 DEF Stopped, Filling
  <2>2. /\ i \in 1..L /\ i + 1 \in 1..L+1 /\ files[i] \in Nat /\ u[i+1] = u[i] + files[i]
        /\ u[i] \in Nat /\ r - files[i] \in Nat /\ i + 1 >= first /\ i + 1 = first + (n + 1)
    <3> HIDE DEF u, L, i, r
    <3>1. i \in 1..L /\ i + 1 \in 1..L+1  BY <1>1, <1>2, <2>1
    <3>2. files[i] \in Nat /\ u[i+1] = u[i] + files[i] /\ u[i] \in Nat  BY <1>1, <1>2, <3>1
    <3>3. r - files[i] \in Nat
      <4>1. PICK z : z = files[i]  OBVIOUS
      <4>2. z \in Nat /\ r \in Nat /\ r >= z  BY <1>2, <2>1, <3>2, <4>1
      <4> QED  BY <4>1, <4>2
    <3>4. first \in Int /\ i \in Int  BY <1>1, <1>2
    <3> QED  BY <1>2, <2>1, <3>1, <3>2, <3>3, <3>4
  <2>3. PICK g : g = FillFile(files, at)  OBVIOUS
  <2> DEFINE t == IF files[i] = 0 THEN <<>> ELSE <<[file |-> i, offset |-> 0]>>
  <2>4. g = [runs |-> at.runs \o t, index |-> i + 1, remaining |-> r - files[i]]
    BY <2>1, <2>3 DEF FillFile
  <2>5. g.runs = at.runs \o t /\ g.index = i + 1 /\ g.remaining = r - files[i]
    BY <2>4
  <2>6. Row(files, t, u[i]) /\ RowEnd(files, t, u[i]) = u[i+1]
    <3>1. CASE files[i] = 0
      <4>1. u[i+1] = u[i]  BY <2>2, <3>1
      <4> QED  BY <3>1, <4>1, RowEmpty
    <3>2. CASE files[i] # 0
      <4> DEFINE run == [file |-> i, offset |-> 0]
      <4>1. run \in Run /\ run.file = i /\ run.offset = 0  BY <2>2 DEF Run
      <4> HIDE DEF run
      <4>2. RunIn(files, run)
        <5>1. PICK z : z = files[i]  OBVIOUS
        <5>2. z \in Nat /\ z # 0  BY <2>2, <3>2, <5>1
        <5>3. 0 < z  BY <5>2
        <5> QED  BY <2>2, <4>1, <5>1, <5>3 DEF RunIn
      <4>3. From(files, run) = u[i] /\ Upto(files, run) = u[i+1]
        BY <2>2, <4>1 DEF From, Upto
      <4>4. t = <<run>>  BY <3>2 DEF run
      <4> QED  BY <4>1, <4>2, <4>3, <4>4, RowSingle
    <3> QED  BY <3>1, <3>2
  <2>7. /\ Row(files, g.runs, from) /\ RowEnd(files, g.runs, from) = u[i+1]
        /\ Joined(at.runs, t, g.runs)
    <3> HIDE DEF t, u
    <3> QED  BY <1>3, <2>5, <2>6, RowJoin
  <2>8. u[i+1] + (r - files[i]) = goal
    <3>1. PICK b, z, c : b = u[i] /\ z = files[i] /\ c = u[i+1]  OBVIOUS
    <3> HIDE DEF u, L, i, r
    <3>2. b \in Nat /\ z \in Nat /\ r \in Nat /\ c = b + z /\ b + r = goal  BY <1>2, <2>2, <3>1
    <3>3. c + (r - z) = goal  BY <3>2
    <3> QED  BY <3>1, <3>3
  <2>9. g \in FillState(files)
    <3>1. g.runs \in Seq(Run)  BY <2>7 DEF Row
    <3>2. g = [runs |-> g.runs, index |-> i + 1, remaining |-> r - files[i]]
      BY <2>4, <2>5
    <3>3. PICK x, y, z : x = g.runs /\ y = i + 1 /\ z = r - files[i]  OBVIOUS
    <3>4. x \in Seq(Run) /\ y \in 1..Len(files)+1 /\ z \in Nat  BY <2>2, <3>1, <3>3
    <3>5. g = [runs |-> x, index |-> y, remaining |-> z]  BY <3>2, <3>3
    <3> QED  BY <3>4, <3>5 DEF FillState
  <2>10. FromStarts(g.runs)
    <3>1. FromStarts(at.runs)  BY DEF Filling
    <3>2. FromStarts(t)
      <4>1. CASE files[i] = 0  BY <4>1 DEF FromStarts
      <4>2. CASE files[i] # 0
        <5> DEFINE run == [file |-> i, offset |-> 0]
        <5>1. run.offset = 0  OBVIOUS
        <5> HIDE DEF run
        <5>2. t = <<run>>  BY <4>2 DEF run
        <5> QED  BY <5>1, <5>2 DEF FromStarts
      <4> QED  BY <4>1, <4>2
    <3> HIDE DEF t
    <3> QED  BY <2>7, <3>1, <3>2, JoinedFrom
  <2>11. Filling(files, first, goal, g, n + 1)
    <3> HIDE DEF L, i, r
    <3> QED  BY <2>2, <2>5, <2>7, <2>8, <2>10 DEF Filling
  <2> QED  BY <2>3, <2>9, <2>11
<1> QED  BY <1>4, <1>5

\* FillFile stays within its types, whatever it begins with.
LEMMA FillFileType ==
  ASSUME NEW files \in Seq(Nat), NEW at \in FillState(files)
  PROVE  FillFile(files, at) \in FillState(files)
<1> DEFINE L == Len(files)
           i == at.index
           r == at.remaining
<1>1. i \in 1..L+1 /\ r \in Nat /\ at.runs \in Seq(Run) /\ L \in Nat
  BY DEF FillState
<1>2. CASE Stopped(files, at)
  BY <1>2 DEF FillFile, Stopped
<1>3. CASE ~ Stopped(files, at)
  <2>1. r > 0 /\ i <= L /\ r >= files[i]  BY <1>3 DEF Stopped
  <2>2. i \in 1..L /\ i + 1 \in 1..L+1 /\ files[i] \in Nat /\ r - files[i] \in Nat
    <3>1. i \in 1..L  BY <1>1, <2>1
    <3>2. files[i] \in Nat  BY <3>1, StartsFacts
    <3> QED  BY <1>1, <2>1, <3>1, <3>2
  <2> DEFINE t == IF files[i] = 0 THEN <<>> ELSE <<[file |-> i, offset |-> 0]>>
  <2>3. FillFile(files, at) = [runs |-> at.runs \o t, index |-> i + 1, remaining |-> r - files[i]]
    BY <2>1 DEF FillFile
  <2>4. t \in Seq(Run)
    <3>1. [file |-> i, offset |-> 0] \in Run  BY <2>2 DEF Run
    <3> QED  BY <3>1
  <2>5. at.runs \o t \in Seq(Run)
    <3> HIDE DEF t
    <3> QED  BY <1>1, <2>4, JoinedFacts
  <2> HIDE DEF t
  <2> QED  BY <2>2, <2>3, <2>5 DEF FillState
<1> QED  BY <1>2, <1>3

\* The loop comes to its end, and what it has filled is a row.
LEMMA FillFacts ==
  ASSUME NEW files \in Seq(Nat), NEW first \in 1..Len(files)+1, NEW size \in Nat
  PROVE  LET at   == Fill(files, first, size)
             from == Starts(files)[first]
         IN  /\ at \in FillState(files)
             /\ Starts(files)[at.index] + at.remaining = from + size
             /\ Row(files, at.runs, from) /\ RowEnd(files, at.runs, from) = Starts(files)[at.index]
             /\ FromStarts(at.runs)
             /\ Stopped(files, at)
<1> DEFINE L == Len(files)
           S == FillState(files)
           from == Starts(files)[first]
           goal == from + size
           base == [runs |-> <<>>, index |-> first, remaining |-> size]
           step == [n \in 0..L |-> [x \in S |-> FillFile(files, x)]]
           Def(g) == g = [n \in 0..L |-> IF n = 0 THEN base ELSE FillFile(files, g[n - 1])]
<1>1. L \in Nat /\ base \in S /\ from \in Nat /\ goal \in Nat
  <2>1. <<>> \in Seq(Run) /\ L \in Nat  OBVIOUS
  <2>2. from \in Nat  BY StartsFacts
  <2>3. base \in S  BY <2>1 DEF FillState
  <2> QED  BY <2>1, <2>2, <2>3
<1>2. Recursion(0, L, S, base, step)
  <2>1. step \in [0..L -> [S -> S]]  BY FillFileType
  <2> QED  BY <1>1, <2>1 DEF Recursion
<1>3. PICK g : Follows(g, 0, L, S, base, step)
  <2> HIDE DEF L, S, base, step
  <2> QED  BY <1>2, RecursionExists
<1>4. /\ g \in [0..L -> S] /\ g[0] = base
      /\ \A n \in 1..L : g[n] = FillFile(files, g[n-1])
  <2>1. g \in [0..L -> S] /\ g[0] = base /\ \A n \in 1..L : g[n] = step[n][g[n-1]]
    <3> HIDE DEF S, base, step
    <3> QED  BY <1>1, <1>3 DEF Follows
  <2>2. ASSUME NEW n \in 1..L PROVE g[n] = FillFile(files, g[n-1])
    <3>1. n \in 0..L /\ n - 1 \in 0..L  BY <1>1
    <3>2. g[n-1] \in S  BY <2>1, <3>1
    <3> HIDE DEF S, base
    <3> QED  BY <2>1, <3>1, <3>2
  <2> QED  BY <2>1, <2>2
<1>5. Def(g)
  <2> HIDE DEF S, base
  <2> QED  BY <1>1, <1>4
<1> DEFINE v == CHOOSE w : Def(w)
<1>6. Def(v)  BY <1>5
<1> HIDE DEF v, Def
<1>7. Fill(files, first, size) = v[L]
  BY DEF Fill, v, Def
<1>8. v[0] = base /\ \A n \in 0..L : n # 0 => v[n] = FillFile(files, v[n-1])
  <2> HIDE DEF base
  <2>1. v = [n \in 0..L |-> IF n = 0 THEN base ELSE FillFile(files, v[n - 1])]  BY <1>6 DEF Def
  <2>2. PICK w : w = v  OBVIOUS
  <2>3. w = [n \in 0..L |-> IF n = 0 THEN base ELSE FillFile(files, w[n - 1])]  BY <2>1, <2>2
  <2>4. 0 \in 0..L  BY <1>1
  <2> HIDE DEF L
  <2>5. w[0] = base /\ \A n \in 0..L : n # 0 => w[n] = FillFile(files, w[n-1])
    BY <2>3, <2>4
  <2> QED  BY <2>2, <2>5
<1> DEFINE T == {n \in Nat : n <= L => v[n] \in S /\ Filling(files, first, goal, v[n], n)}
<1>9. T = Nat
  <2>1. 0 \in T
    <3>1. base.runs = <<>> /\ base.index = first /\ base.remaining = size  OBVIOUS
    <3>2. first >= first /\ first = first + 0 /\ Starts(files)[first] + size = goal  BY <1>1
    <3>3. Filling(files, first, goal, base, 0)
      <4> HIDE DEF base
      <4>1. FromStarts(base.runs)  BY <3>1 DEF FromStarts
      <4> QED  BY <3>1, <3>2, <4>1, RowEmpty DEF Filling
    <3> HIDE DEF S, base
    <3> QED  BY <1>1, <1>8, <3>3
  <2>2. ASSUME NEW n \in T PROVE n + 1 \in T
    <3> HIDE DEF S, goal
    <3> SUFFICES ASSUME n + 1 <= L
                 PROVE  v[n+1] \in S /\ Filling(files, first, goal, v[n+1], n + 1)
      OBVIOUS
    <3>1. n \in Nat /\ n + 1 \in 0..L /\ n + 1 # 0 /\ (n + 1) - 1 = n
          /\ v[n] \in S /\ Filling(files, first, goal, v[n], n)
      BY <1>1
    <3>2. v[n+1] = FillFile(files, v[n])  BY <1>8, <3>1
    <3> QED  BY <1>1, <3>1, <3>2, FillFileKeeps DEF S
  <2> HIDE DEF T
  <2> QED  BY <2>1, <2>2, NatSetInduction DEF T
<1>10. v[L] \in S /\ Filling(files, first, goal, v[L], L)
  <2>1. L \in T  BY <1>1, <1>9
  <2> QED  BY <1>1, <2>1
<1>11. PICK w : w = v[L]  OBVIOUS
<1>12. w.index \in 1..L+1 /\ (Stopped(files, w) \/ w.index = first + L)
  BY <1>10, <1>11 DEF FillState, Filling
<1>13. Stopped(files, w)
  <2>1. w.index = first + L => ~ (w.index <= L)  BY <1>1
  <2> QED  BY <1>12, <2>1 DEF Stopped
<1> QED  BY <1>7, <1>10, <1>11, <1>13 DEF Filling

----------------------------------------------------------------------------
\* describeLocation.

\* No file from the hint on ends before the place that the hint is for.
HintTrue(files, hint) ==
    /\ hint.offset \in Nat /\ hint.index \in Nat \ {0}
    /\ \A f \in 1..Len(files) :
         f >= hint.index /\ files[f] > 0 => hint.offset < Starts(files)[f] + files[f]

\* The runs of a block: each is in its file where the block goes on, or there is no
\* such file; all but the last end with their files, the last one goes up to the
\* end of the block.
Located(files, where, size, runs) ==
    /\ runs \in Seq(Run) /\ runs # <<>>
    /\ \A n \in 1..Len(runs) :
         \/ /\ runs[n].file \notin 1..Len(files) /\ n = Len(runs)
            /\ Reached(files, runs, where, n - 1) < where + size
         \/ /\ RunIn(files, runs[n])
            /\ From(files, runs[n]) = Reached(files, runs, where, n - 1)
            /\ n < Len(runs) => Reached(files, runs, where, n) <= where + size
            /\ n = Len(runs) => Reached(files, runs, where, n) >= where + size

\* The first file is not one that ends before the place, whatever the hint; without a
\* hint it is the one with the place.
Found(files, where, hint) ==
    {f \in FindFile(files, where, hint)..Len(files) : files[f] > 0}

LEMMA FoundFacts ==
  ASSUME NEW files \in Seq(Nat), NEW where \in Nat, where < TorrentSize(files), NEW hint,
         HintTrue(files, hint), Found(files, where, hint) # {}
  PROVE  LET first == Smallest(Found(files, where, hint))
         IN  /\ first \in 1..Len(files) /\ files[first] > 0
             /\ where < Starts(files)[first] + files[first]
             /\ \A f \in 1..Len(files) : f < first => f < FindFile(files, where, hint) \/ files[f] = 0
<1> DEFINE F == Found(files, where, hint)
           first == Smallest(F)
           i == FindFile(files, where, hint)
<1>1. i \in Nat \ {0}
  <2>1. CASE where = hint.offset  BY <2>1 DEF FindFile, HintTrue
  <2>2. CASE where # hint.offset
    <3>1. Holds(files, i, where)  BY <2>2, BinarySearchFinds DEF FindFile
    <3> QED  BY <3>1 DEF Holds
  <2> QED  BY <2>1, <2>2
<1>2. Len(files) \in Nat /\ \A f \in 1..Len(files) : files[f] \in Nat  BY StartsFacts
<1>3. F \in SUBSET Nat /\ F # {}
  <2> HIDE DEF i
  <2> QED  BY <1>1, <1>2 DEF Found, i
<1> HIDE DEF i
<1>4. first \in F /\ \A n \in F : first <= n
  <2> HIDE DEF F
  <2> QED  BY <1>3, SmallestFacts
<1> HIDE DEF first
<1>5. first \in i..Len(files) /\ files[first] > 0  BY <1>4 DEF Found, i
<1>6. first \in 1..Len(files) /\ first >= i  BY <1>1, <1>2, <1>5
<1>7. ASSUME NEW f \in 1..Len(files), f < first PROVE f < i \/ files[f] = 0
  <2> SUFFICES ASSUME ~ (f < i) PROVE files[f] = 0
    OBVIOUS
  <2>1. f \in i..Len(files)  BY <1>1, <1>2
  <2>2. f \notin F  BY <1>2, <1>4, <1>6, <1>7
  <2>3. ~ (files[f] > 0)  BY <2>1, <2>2 DEF Found, i
  <2> QED  BY <1>2, <2>3
<1>8. where < Starts(files)[first] + files[first]
  <2>1. CASE where = hint.offset
    <3>1. i = hint.index  BY <2>1 DEF FindFile, i
    <3> QED  BY <1>5, <1>6, <2>1, <3>1 DEF HintTrue
  <2>2. CASE where # hint.offset
    <3>1. Holds(files, i, where)  BY <2>2, BinarySearchFinds DEF FindFile, i
    <3>2. i \in 1..Len(files) /\ where < Starts(files)[i] + files[i] /\ Starts(files)[i] <= where
      BY <3>1 DEF Holds
    <3>3. CASE first = i  BY <3>2, <3>3
    <3>4. CASE first # i
      <4>1. i < first /\ first \in 1..Len(files)+1 /\ i \in 1..Len(files)+1  BY <1>2, <1>6, <3>2, <3>4
      <4>2. Starts(files)[i] + files[i] <= Starts(files)[first]  BY <4>1, EndsGrow
      <4>3. /\ Starts(files)[i] \in Nat /\ Starts(files)[first] \in Nat
            /\ files[i] \in Nat /\ files[first] \in Nat
        BY <1>2, <1>6, <3>2, <4>1, StartsFacts
      <4>4. PICK p, q, r, t : /\ p = Starts(files)[i] /\ q = files[i]
                              /\ r = Starts(files)[first] /\ t = files[first]
        OBVIOUS
      <4>5. p \in Nat /\ q \in Nat /\ r \in Nat /\ t \in Nat /\ p + q <= r /\ where < p + q
        BY <3>2, <4>2, <4>3, <4>4
      <4>6. where < r + t  BY <4>5
      <4> QED  BY <4>4, <4>6
    <3> QED  BY <3>3, <3>4
  <2> QED  BY <2>1, <2>2
<1> QED  BY <1>5, <1>6, <1>7, <1>8 DEF first, i

\* Every file from the one at an index on ends after a place, or is empty, if that one
\* does or the place is not after its start.
LEMMA HintFrom ==
  ASSUME NEW files \in Seq(Nat), NEW where \in Nat, NEW i \in 1..Len(files)+1,
         where <= Starts(files)[i]
         \/ (i \in 1..Len(files) /\ where < Starts(files)[i] + files[i]),
         NEW j \in Nat, j >= i
  PROVE  HintTrue(files, [offset |-> where, index |-> j])
<1> DEFINE h == [offset |-> where, index |-> j]
<1>1. h.offset = where /\ h.index = j  OBVIOUS
<1> HIDE DEF h
<1>2. /\ Len(files) \in Nat /\ \A f \in 1..Len(files) : files[f] \in Nat
      /\ Starts(files) \in [1..Len(files)+1 -> Nat]
  BY StartsFacts
<1>3. j \in Nat \ {0}  BY <1>2
<1>4. ASSUME NEW f \in 1..Len(files), f >= j, files[f] > 0
      PROVE  where < Starts(files)[f] + files[f]
  <2>1. f \in 1..Len(files)+1 /\ f >= i  BY <1>2, <1>4
  <2>2. Starts(files)[f] \in Nat /\ Starts(files)[i] \in Nat /\ files[f] \in Nat
    BY <1>2, <2>1
  <2>3. CASE f = i  BY <1>4, <2>2, <2>3
  <2>4. CASE f # i
    <3>1. i < f  BY <1>2, <2>1, <2>4
    <3>2. i \in 1..Len(files)  BY <1>2, <3>1
    <3>3. Starts(files)[i] + files[i] <= Starts(files)[f]  BY <2>1, <3>1, EndsGrow
    <3>4. files[i] \in Nat  BY <1>2, <3>2
    <3>5. PICK p, q, r, t : /\ p = Starts(files)[i] /\ q = files[i]
                            /\ r = Starts(files)[f] /\ t = files[f]
      OBVIOUS
    <3>6. p \in Nat /\ q \in Nat /\ r \in Nat /\ t \in Nat /\ t > 0 /\ p + q <= r
      BY <1>4, <2>2, <3>3, <3>4, <3>5
    <3>7. where <= p \/ where < p + q  BY <3>2, <3>5
    <3>8. where < r + t  BY <3>6, <3>7
    <3> QED  BY <3>5, <3>8
  <2> QED  BY <2>3, <2>4
<1>5. HintTrue(files, h)
  BY <1>1, <1>3, <1>4 DEF HintTrue
<1> QED  BY <1>5 DEF h

\* A row is what a block needs, if it ends where or after the block does and the
\* one before its last run does not.
LEMMA RowLocates ==
  ASSUME NEW files \in Seq(Nat), NEW where \in Nat, NEW size \in Nat, NEW row,
         Row(files, row, where), row # <<>>,
         \A n \in 1..Len(row) :
            n < Len(row) => Reached(files, row, where, n) <= where + size,
         RowEnd(files, row, where) >= where + size
  PROVE  Located(files, where, size, row)
<1>1. row \in Seq(Run)  BY DEF Row
<1>2. ASSUME NEW n \in 1..Len(row)
      PROVE  /\ RunIn(files, row[n])
             /\ From(files, row[n]) = Reached(files, row, where, n - 1)
             /\ n = Len(row) => Reached(files, row, where, n) >= where + size
  BY DEF Row, RowEnd
<1> QED  BY <1>1, <1>2 DEF Located

LEMMA LocateFacts ==
  ASSUME NEW files \in Seq(Nat), NEW where \in Nat, where < TorrentSize(files),
         NEW size \in Nat \ {0}, NEW hint, HintTrue(files, hint)
  PROVE  LET l == Locate(files, where, size, hint)
         IN  /\ Located(files, where, size, l.runs)
             /\ HintTrue(files, l.hint)
             /\ /\ where + size <= TorrentSize(files)
                /\ Found(files, where, hint) # {}
                => \A n \in 1..Len(l.runs) : l.runs[n].file \in 1..Len(files)
<1> DEFINE L == Len(files)
           u == Starts(files)
           first == Smallest(Found(files, where, hint))
           offset == where - u[first]
           run == [file |-> first, offset |-> offset]
           rest == Fill(files, first + 1, size - (files[first] - offset))
<1>1. /\ L \in Nat /\ \A h \in 1..L : files[h] \in Nat
      /\ u \in [1..L+1 -> Nat] /\ \A h \in 1..L : u[h+1] = u[h] + files[h]
  BY StartsFacts
<1>2. PICK l : l = Locate(files, where, size, hint)  OBVIOUS
<1> SUFFICES /\ Located(files, where, size, l.runs)
             /\ HintTrue(files, l.hint)
             /\ /\ where + size <= TorrentSize(files)
                /\ Found(files, where, hint) # {}
                => \A n \in 1..Len(l.runs) : l.runs[n].file \in 1..L
  BY <1>2
<1>3. CASE Found(files, where, hint) = {}
  <2> DEFINE miss == [file |-> L + 1, offset |-> 0]
  <2>1. l = [runs |-> <<miss>>, hint |-> hint]
    BY <1>2, <1>3 DEF Locate, LocateFrom, Found
  <2>2. l.runs = <<miss>> /\ l.hint = hint  BY <2>1
  <2>3. miss \in Run /\ miss.file \notin 1..L  BY <1>1 DEF Run
  <2> HIDE DEF miss
  <2> DEFINE q == <<miss>>
  <2>4. q \in Seq(Run) /\ Len(q) = 1 /\ q[1] = miss /\ q # <<>>  BY <2>3
  <2> HIDE DEF q
  <2>5. Reached(files, q, where, 1 - 1) < where + size
    <3>1. Reached(files, q, where, 1 - 1) = where  BY DEF Reached
    <3> QED  BY <3>1
  <2>6. Located(files, where, size, q)  BY <2>3, <2>4, <2>5 DEF Located
  <2> QED  BY <1>3, <2>2, <2>6 DEF q
<1>4. CASE Found(files, where, hint) # {}
  <2>1. first \in 1..L /\ files[first] > 0 /\ where < u[first] + files[first]
    BY <1>4, FoundFacts
  <2>2. l = IF size <= files[first] - offset
            THEN [runs |-> <<run>>,
                  hint |-> [offset |-> where + size,
                            index |-> IF size = files[first] - offset THEN first + 1 ELSE first]]
            ELSE IF rest.remaining = 0
            THEN [runs |-> <<run>> \o rest.runs,
                  hint |-> [offset |-> where + size, index |-> rest.index + 1]]
            ELSE [runs |-> <<run>> \o rest.runs \o <<[file |-> rest.index, offset |-> 0]>>,
                  hint |-> [offset |-> where + size, index |-> rest.index]]
    BY <1>2, <1>4 DEF Locate, LocateFrom, Found
  <2> HIDE DEF first
  <2>3. /\ first + 1 \in 1..L+1 /\ first \in 1..L+1 /\ u[first] \in Nat /\ files[first] \in Nat
        /\ u[first + 1] = u[first] + files[first] /\ where + size \in Nat
    BY <1>1, <2>1
  <2>4. PICK b, z : b = u[first] /\ z = files[first]  OBVIOUS
  <2>5. b \in Nat /\ z \in Nat /\ z > 0 /\ where < b + z /\ offset = where - b /\ offset \in Int
        /\ files[first] - offset = (b + z) - where /\ offset < z /\ b + offset = where
    BY <2>1, <2>3, <2>4
  <2>6. run \in Run /\ RunIn(files, run) /\ From(files, run) = where
        /\ Upto(files, run) = b + z /\ run.file = first
    <3>1. run.file = first /\ run.offset = offset  OBVIOUS
    <3>2. run \in Run  BY <1>1, <2>1, <2>5 DEF Run
    <3> HIDE DEF run, offset
    <3> QED  BY <2>1, <2>4, <2>5, <3>1, <3>2 DEF RunIn, From, Upto
  <2>7. Row(files, <<run>>, where) /\ RowEnd(files, <<run>>, where) = b + z
    <3> HIDE DEF run
    <3> QED  BY <2>6, RowSingle
  <2> HIDE DEF offset
  <2> DEFINE one == <<run>>
  <2>8. Len(one) = 1 /\ one[1] = run /\ one # <<>>  OBVIOUS
  <2> HIDE DEF one
  <2>9. CASE size <= files[first] - offset
    <3>1. l.runs = one /\ l.hint = [offset |-> where + size,
                  index |-> IF size = files[first] - offset THEN first + 1 ELSE first]
      BY <2>2, <2>9 DEF one
    <3>2. where + size <= b + z  BY <2>5, <2>9
    <3>3. Located(files, where, size, one)
      <4>1. \A n \in 1..Len(one) : ~ (n < Len(one))  BY <2>8
      <4>2. RowEnd(files, one, where) >= where + size  BY <2>5, <2>7, <3>2 DEF one
      <4>3. Row(files, one, where)  BY <2>7 DEF one
      <4> QED  BY <2>8, <4>1, <4>2, <4>3, RowLocates
    <3>4. HintTrue(files, l.hint)
      <4>1. CASE size = files[first] - offset
        <5>1. where + size <= u[first + 1]  BY <2>3, <2>4, <3>2
        <5>2. l.hint = [offset |-> where + size, index |-> first + 1]  BY <3>1, <4>1
        <5> HIDE DEF u, L
        <5>3. first + 1 \in Nat /\ first + 1 >= first + 1  BY <1>1, <2>1
        <5> QED  BY <2>3, <5>1, <5>2, <5>3, HintFrom DEF u, L
      <4>2. CASE size # files[first] - offset
        <5>1. where + size # b + z  BY <2>5, <4>2
        <5>2. where + size < u[first] + files[first]
          <6>1. where + size < b + z  BY <2>3, <2>5, <3>2, <5>1
          <6> QED  BY <2>4, <6>1
        <5>3. l.hint = [offset |-> where + size, index |-> first]  BY <3>1, <4>2
        <5>4. first \in Nat /\ first >= first  BY <1>1, <2>1
        <5> QED  BY <2>1, <2>3, <5>2, <5>3, <5>4, HintFrom
      <4> QED  BY <4>1, <4>2
    <3>5. \A n \in 1..Len(l.runs) : l.runs[n].file \in 1..L
      <4>1. \A n \in 1..Len(one) : one[n] = run  BY <2>8
      <4> HIDE DEF run, L
      <4> QED  BY <2>1, <2>6, <3>1, <4>1
    <3> QED  BY <3>1, <3>3, <3>4, <3>5
  <2>10. CASE ~ (size <= files[first] - offset)
    <3> DEFINE left == size - (files[first] - offset)
    <3>1. left \in Nat /\ left > 0 /\ (b + z) + left = where + size /\ b + z <= where + size
      BY <2>5, <2>10
    <3>2. PICK at : at = rest  OBVIOUS
    <3>3. u[first + 1] = b + z  BY <2>3, <2>4
    <3>4. /\ at \in FillState(files) /\ u[at.index] + at.remaining = (b + z) + left
          /\ Row(files, at.runs, b + z) /\ RowEnd(files, at.runs, b + z) = u[at.index]
          /\ Stopped(files, at)
      <4> HIDE DEF left
      <4>1. at = Fill(files, first + 1, left)  BY <3>2 DEF left
      <4>2. PICK j, d : j = first + 1 /\ d = b + z  OBVIOUS
      <4>3. j \in 1..Len(files)+1 /\ left \in Nat /\ Starts(files)[j] = d /\ at = Fill(files, j, left)
        BY <2>3, <3>1, <3>3, <4>1, <4>2
      <4> HIDE DEF u
      <4>4. /\ at \in FillState(files) /\ Starts(files)[at.index] + at.remaining = Starts(files)[j] + left
            /\ Row(files, at.runs, Starts(files)[j])
            /\ RowEnd(files, at.runs, Starts(files)[j]) = Starts(files)[at.index]
            /\ Stopped(files, at)
        BY <4>3, FillFacts
      <4> QED  BY <4>2, <4>3, <4>4 DEF u
    <3> DEFINE i == at.index
               r == at.remaining
               row == <<run>> \o at.runs
    <3>5. i \in 1..L+1 /\ r \in Nat /\ u[i] + r = where + size /\ u[i] \in Nat
      BY <1>1, <3>1, <3>4 DEF FillState
    <3>6. /\ Row(files, row, where) /\ RowEnd(files, row, where) = u[i]
          /\ Joined(one, at.runs, row)
      <4> HIDE DEF run, i, u
      <4> QED  BY <2>7, <3>4, RowJoin DEF one, i
    <3>7. row \in Seq(Run) /\ Len(row) \in Nat /\ Len(row) >= 1 /\ row # <<>>
      <4>1. row \in Seq(Run)  BY <3>6 DEF Row
      <4>2. Len(row) = 1 + Len(at.runs) /\ Len(at.runs) \in Nat
        BY <2>8, <3>6 DEF Joined
      <4> HIDE DEF row
      <4> QED  BY <4>1, <4>2
    <3>8. \A n \in 0..Len(row) : Reached(files, row, where, n) \in Int
                                 /\ Reached(files, row, where, n) <= u[i]
      <4> HIDE DEF row, i
      <4>1. where \in Int  OBVIOUS
      <4> QED  BY <3>6, <4>1, RowGrows
    <3>9. u[i] <= where + size  BY <3>5
    <3>10. \A n \in 1..Len(row) : RunIn(files, row[n])  BY <3>6 DEF Row
    <3> HIDE DEF row, i, r
    <3>11. CASE r = 0
      <4>1. l.runs = row /\ l.hint = [offset |-> where + size, index |-> i + 1]
        BY <2>2, <2>10, <3>2, <3>11 DEF row, i, r
      <4>2. u[i] = where + size  BY <3>5, <3>11
      <4>3. Located(files, where, size, row)
        <5>1. \A n \in 1..Len(row) : Reached(files, row, where, n) <= where + size
          BY <3>7, <3>8, <4>2
        <5>2. RowEnd(files, row, where) >= where + size
          BY <3>5, <3>6, <4>2 DEF i
        <5> QED  BY <3>6, <3>7, <5>1, <5>2, RowLocates
      <4>4. HintTrue(files, l.hint)
        <5>1. where + size <= Starts(files)[i] /\ where + size \in Nat  BY <2>3, <4>2
        <5>2. i + 1 \in Nat /\ i + 1 >= i /\ i \in 1..Len(files)+1  BY <1>1, <3>5
        <5> HIDE DEF u, L
        <5> QED  BY <4>1, <5>1, <5>2, HintFrom
      <4>5. \A n \in 1..Len(l.runs) : l.runs[n].file \in 1..L
        BY <3>10, <4>1 DEF RunIn
      <4> QED  BY <4>1, <4>3, <4>4, <4>5
    <3>12. CASE r # 0
      <4> DEFINE final == [file |-> i, offset |-> 0]
                 q == row \o <<final>>
                 k == Len(row)
      <4>1. l.runs = q /\ l.hint = [offset |-> where + size, index |-> i]
        BY <2>2, <2>10, <3>2, <3>12 DEF row, i, r
      <4>2. final \in Run /\ final.file = i /\ final.offset = 0  BY <3>5 DEF Run
      <4> HIDE DEF final
      <4>3. q \in Seq(Run) /\ Joined(row, <<final>>, q)
        <5>1. <<final>> \in Seq(Run)  BY <4>2
        <5> QED  BY <3>7, <5>1, JoinedFacts
      <4>4. Len(q) = k + 1 /\ q[k+1] = final /\ k \in Nat /\ k >= 1
            /\ \A n \in 1..k : q[n] = row[n]
        <5> DEFINE t == <<final>>
        <5>1. Len(t) = 1 /\ t[1] = final /\ 1 \in 1..1  OBVIOUS
        <5> HIDE DEF t, q
        <5>2. Joined(row, t, q)  BY <4>3 DEF t
        <5> QED  BY <3>7, <5>1, <5>2 DEF Joined
      <4> HIDE DEF q, k
      <4>5. \A n \in 0..k : Reached(files, q, where, n) = Reached(files, row, where, n)
        BY <4>4 DEF Reached
      <4>6. q # <<>>  BY <4>4
      <4>7. i \in 1..L =>
               /\ RunIn(files, final) /\ From(files, final) = u[i]
               /\ Upto(files, final) > where + size
        <5> SUFFICES ASSUME i \in 1..L
                     PROVE  /\ RunIn(files, final) /\ From(files, final) = u[i]
                            /\ Upto(files, final) > where + size
          OBVIOUS
        <5>1. files[i] \in Nat  BY <1>1
        <5>2. r < files[i]
          <6>1. i <= L /\ r > 0  BY <1>1, <3>5, <3>12
          <6>2. ~ (r >= files[i])  BY <3>4, <6>1 DEF Stopped, i, r
          <6> QED  BY <3>5, <5>1, <6>2
        <5>3. PICK s, y : s = u[i] /\ y = files[i]  OBVIOUS
        <5>4. s \in Nat /\ y \in Nat /\ s + r = where + size /\ r < y  BY <3>5, <5>1, <5>2, <5>3
        <5>5. s + 0 = s /\ 0 < y /\ s + y > where + size  BY <3>5, <5>4
        <5>6. From(files, final) = s /\ Upto(files, final) = s + y
          BY <4>2, <5>3, <5>5 DEF From, Upto
        <5>7. RunIn(files, final)  BY <4>2, <5>3, <5>5 DEF RunIn
        <5> QED  BY <5>3, <5>5, <5>6, <5>7
      <4>8. Located(files, where, size, q)
        <5> SUFFICES ASSUME NEW n \in 1..Len(q)
                     PROVE  \/ /\ q[n].file \notin 1..L /\ n = Len(q)
                               /\ Reached(files, q, where, n - 1) < where + size
                            \/ /\ RunIn(files, q[n])
                               /\ From(files, q[n]) = Reached(files, q, where, n - 1)
                               /\ n < Len(q) => Reached(files, q, where, n) <= where + size
                               /\ n = Len(q) => Reached(files, q, where, n) >= where + size
          BY <4>3, <4>6 DEF Located
        <5>1. CASE n <= k
          <6>1. n \in 1..k /\ n - 1 \in 0..k /\ n \in 0..k /\ n # Len(q)  BY <4>4, <5>1
          <6>2. RunIn(files, row[n]) /\ From(files, row[n]) = Reached(files, row, where, n - 1)
            BY <3>6, <6>1 DEF Row, k
          <6>3. Reached(files, row, where, n) \in Int /\ Reached(files, row, where, n) <= u[i]
            BY <3>8, <6>1 DEF k
          <6>4. Reached(files, row, where, n) <= where + size  BY <3>5, <3>9, <6>3
          <6> QED  BY <4>4, <4>5, <6>1, <6>2, <6>4
        <5>2. CASE ~ (n <= k)
          <6>1. n = k + 1 /\ n - 1 = k /\ k \in 0..k /\ ~ (n < Len(q)) /\ n # 0  BY <4>4, <5>2
          <6>2. CASE i \in 1..L
            <7>1. Reached(files, q, where, n - 1) = u[i]  BY <3>6, <4>5, <6>1 DEF RowEnd, k, i
            <7>2. Reached(files, q, where, n) = Upto(files, final)  BY <4>4, <6>1 DEF Reached
            <7>3. Reached(files, q, where, n) > where + size  BY <4>7, <6>2, <7>2
            <7>4. Reached(files, q, where, n) \in Int
              <8>1. u[i] \in Nat /\ files[i] \in Nat  BY <1>1, <3>5, <6>2
              <8>2. Upto(files, final) = u[i] + files[i]  BY <4>2 DEF Upto
              <8> QED  BY <7>2, <8>1, <8>2
            <7>5. Reached(files, q, where, n) >= where + size  BY <2>3, <7>3, <7>4
            <7> QED  BY <4>4, <4>7, <6>1, <6>2, <7>1, <7>5
          <6>3. CASE i \notin 1..L
            <7>1. Reached(files, q, where, n - 1) = u[i]  BY <3>6, <4>5, <6>1 DEF RowEnd, k, i
            <7>2. u[i] < where + size
              <8>1. r > 0  BY <3>5, <3>12
              <8>2. PICK s : s = u[i]  OBVIOUS
              <8>3. s \in Nat /\ s + r = where + size  BY <3>5, <8>2
              <8>4. s < where + size  BY <3>5, <8>1, <8>3
              <8> QED  BY <8>2, <8>4
            <7> QED  BY <4>2, <4>4, <6>1, <6>3, <7>1, <7>2
          <6> QED  BY <6>2, <6>3
        <5> QED  BY <5>1, <5>2
      <4>9. HintTrue(files, l.hint)
        <5>1. i \in Nat /\ i >= i /\ i \in 1..Len(files)+1 /\ where + size \in Nat  BY <1>1, <3>5, <2>3
        <5>2. i \in 1..Len(files) \/ i = Len(files) + 1  BY <1>1, <3>5
        <5>3. CASE i \in 1..Len(files)
          <6>1. where + size < Starts(files)[i] + files[i]
            BY <4>2, <4>7, <5>1, <5>3, <1>1, <3>5 DEF Upto
          <6> HIDE DEF u, L
          <6> QED  BY <4>1, <5>1, <5>3, <6>1, HintFrom
        <5>4. CASE i = Len(files) + 1
          <6> DEFINE h == [offset |-> where + size, index |-> i]
          <6>1. h.offset = where + size /\ h.index = i  OBVIOUS
          <6> HIDE DEF h
          <6>2. \A f \in 1..Len(files) : ~ (f >= i)  BY <1>1, <5>4
          <6>3. i \in Nat \ {0}  BY <3>5
          <6>4. HintTrue(files, h)  BY <5>1, <6>1, <6>2, <6>3 DEF HintTrue
          <6> QED  BY <4>1, <6>4 DEF h
        <5> QED  BY <5>2, <5>3, <5>4
      <4>10. ASSUME where + size <= TorrentSize(files)
             PROVE  \A n \in 1..Len(l.runs) : l.runs[n].file \in 1..L
        <5>1. i \in 1..L
          <6>1. TorrentSize(files) = u[L+1]  BY DEF TorrentSize
          <6>2. i # L + 1  BY <3>5, <3>12, <4>10, <6>1
          <6> QED  BY <1>1, <3>5, <6>2
        <5> SUFFICES ASSUME NEW n \in 1..Len(q) PROVE q[n].file \in 1..L
          BY <4>1
        <5>2. CASE n <= k
          <6>1. n \in 1..k  BY <4>4, <5>2
          <6> QED  BY <3>10, <4>4, <6>1 DEF RunIn, k
        <5>3. CASE ~ (n <= k)
          <6>1. n = k + 1  BY <4>4, <5>3
          <6> QED  BY <4>2, <4>4, <5>1, <6>1
        <5> QED  BY <5>2, <5>3
      <4> QED  BY <4>1, <4>8, <4>9, <4>10
    <3> QED  BY <3>11, <3>12
  <2> QED  BY <2>9, <2>10
<1> QED  BY <1>3, <1>4

----------------------------------------------------------------------------
\* Pieces and blocks.

LEMMA DivFacts ==
  ASSUME NEW P \in Nat \ {0}, NEW a \in Nat
  PROVE  a \div P \in Nat /\ (a \div P) * P <= a /\ a < (a \div P) * P + P
OBVIOUS

LEMMA TimesFacts ==
  ASSUME NEW P \in Nat \ {0}, NEW i \in Nat
  PROVE  i * P \in Nat /\ (i + 1) * P = i * P + P
OBVIOUS

LEMMA TimesGrows ==
  ASSUME NEW P \in Nat \ {0}, NEW i \in Nat, NEW j \in Nat, i < j
  PROVE  i * P + P <= j * P
OBVIOUS

LEMMA ModFacts ==
  ASSUME NEW x \in Nat, NEW M \in Nat \ {0}
  PROVE  x % M \in Nat /\ x % M <= x /\ (x < M => x % M = x)
OBVIOUS

\* A piece has some bytes and not too many, and lies in the torrent.
LEMMA PieceFacts ==
  ASSUME NEW files \in Seq(Nat), TorrentSize(files) > 0, NEW i \in 0..PieceCount(files)-1
  PROVE  /\ i \in Nat /\ i * PieceSize \in Nat
         /\ SizeOfPiece(files, i) \in Nat /\ 0 < SizeOfPiece(files, i)
         /\ SizeOfPiece(files, i) <= PieceSize
         /\ i * PieceSize + SizeOfPiece(files, i) <= TorrentSize(files)
<1> DEFINE P == PieceSize
           T == TorrentSize(files)
           C == PieceCount(files)
<1>1. P \in Nat \ {0}  BY SizeAssumption
<1>2. T \in Nat /\ T > 0
  <2>1. Len(files) + 1 \in 1..Len(files)+1  BY StartsFacts
  <2>2. Starts(files)[Len(files)+1] \in Nat  BY <2>1, StartsFacts
  <2> QED  BY <2>2 DEF TorrentSize
<1>3. C = (T + P - 1) \div P  BY DEF PieceCount
<1>4. SizeOfPiece(files, i) = IF i < C - 1 THEN P ELSE T - i * P  BY DEF SizeOfPiece
<1>5. i \in 0..C-1  OBVIOUS
<1> HIDE DEF P, T, C
<1>6. C \in Nat /\ C * P <= T + P - 1 /\ T + P - 1 < C * P + P
  <2>1. T + P - 1 \in Nat  BY <1>1, <1>2
  <2> QED  BY <1>1, <1>3, <2>1, DivFacts
<1>7. i \in Nat /\ i < C  BY <1>5, <1>6
<1>8. i * P \in Nat /\ C * P \in Nat  BY <1>1, <1>6, <1>7, TimesFacts
<1>9. i * P + P <= C * P  BY <1>1, <1>6, <1>7, TimesGrows
<1>10. CASE i < C - 1
  <2>1. i + 1 \in Nat /\ i + 1 < C  BY <1>6, <1>7, <1>10
  <2>2. (i + 1) * P + P <= C * P  BY <1>1, <1>6, <2>1, TimesGrows
  <2>3. (i + 1) * P = i * P + P  BY <1>1, <1>7, TimesFacts
  <2>4. PICK a, c : a = i * P /\ c = C * P  OBVIOUS
  <2>5. a \in Nat /\ c \in Nat /\ (a + P) + P <= c /\ c <= T + P - 1
    BY <1>6, <1>8, <2>2, <2>3, <2>4
  <2>6. a + P <= T  BY <1>1, <1>2, <2>5
  <2>7. SizeOfPiece(files, i) = P  BY <1>4, <1>10
  <2> QED  BY <1>1, <1>7, <1>8, <2>4, <2>6, <2>7 DEF P, T
<1>11. CASE ~ (i < C - 1)
  <2>1. C = i + 1  BY <1>6, <1>7, <1>11
  <2>2. (i + 1) * P = i * P + P  BY <1>1, <1>7, TimesFacts
  <2>3. PICK a : a = i * P  OBVIOUS
  <2>4. a \in Nat /\ a + P <= T + P - 1 /\ T + P - 1 < (a + P) + P
    BY <1>6, <1>8, <2>1, <2>2, <2>3
  <2>5. T - a \in Nat /\ 0 < T - a /\ T - a <= P /\ a + (T - a) <= T
    BY <1>1, <1>2, <2>4
  <2>6. SizeOfPiece(files, i) = T - a  BY <1>4, <1>11, <2>3
  <2> QED  BY <1>7, <1>8, <2>3, <2>5, <2>6 DEF P, T
<1> QED  BY <1>10, <1>11

\* Two pieces have no byte in common.
LEMMA PiecesApart ==
  ASSUME NEW files \in Seq(Nat), TorrentSize(files) > 0,
         NEW i \in 0..PieceCount(files)-1, NEW j \in 0..PieceCount(files)-1, i # j,
         NEW address \in PieceAddresses(files, i)
  PROVE  address \notin PieceAddresses(files, j)
<1> DEFINE P == PieceSize
           a == i * P
           b == j * P
           m == SizeOfPiece(files, i)
           n == SizeOfPiece(files, j)
<1>1. P \in Nat \ {0}  BY SizeAssumption
<1>2. i \in Nat /\ a \in Nat /\ m \in Nat /\ m <= P  BY PieceFacts
<1>3. j \in Nat /\ b \in Nat /\ n \in Nat /\ n <= P  BY PieceFacts
<1>4. address \in a .. a + m - 1  BY DEF PieceAddresses
<1>5. (i < j => a + P <= b) /\ (j < i => b + P <= a)  BY <1>1, <1>2, <1>3, TimesGrows
<1>6. PieceAddresses(files, j) = b .. b + n - 1  BY DEF PieceAddresses
<1> HIDE DEF a, b, m, n, P
<1>7. i < j \/ j < i  BY <1>2, <1>3
<1>8. address \in Nat /\ a <= address /\ address < a + P  BY <1>1, <1>2, <1>4
<1>9. CASE i < j
  <2>1. address < b  BY <1>1, <1>2, <1>3, <1>5, <1>8, <1>9
  <2>2. address \notin b .. b + n - 1  BY <1>3, <1>8, <2>1
  <2> QED  BY <1>6, <2>2
<1>10. CASE j < i
  <2>1. b + P <= address  BY <1>1, <1>2, <1>3, <1>5, <1>8, <1>10
  <2>2. b + n - 1 < address  BY <1>1, <1>3, <1>8, <2>1
  <2>3. address \notin b .. b + n - 1  BY <1>3, <1>8, <2>2
  <2> QED  BY <1>6, <2>3
<1> QED  BY <1>7, <1>9, <1>10

BlockIn(files, b) ==
    /\ b.where \in Nat /\ b.size \in Nat \ {0}
    /\ b.where + b.size <= TorrentSize(files)

\* A block of a piece has some bytes and lies in the piece.
LEMMA BlocksFacts ==
  ASSUME NEW files \in Seq(Nat), TorrentSize(files) > 0, NEW i \in 0..PieceCount(files)-1
  PROVE  /\ Len(Blocks(files, i)) \in Nat /\ Blocks(files, i) \in Seq([where : Nat, size : Nat])
         /\ \A n \in 1..Len(Blocks(files, i)) :
              LET b == Blocks(files, i)[n]
              IN  BlockIn(files, b) /\ b.where .. b.where + b.size - 1 \subseteq PieceAddresses(files, i)
<1> DEFINE B == BlockSize
           S == SizeOfPiece(files, i)
           a == i * PieceSize
           N == (S + B - 1) \div B
           T == TorrentSize(files)
           blocks == [n \in 1..N |->
                        [where |-> a + (n - 1) * B,
                         size  |-> IF n * B <= S THEN B ELSE S - (n - 1) * B]]
<1>1. B \in Nat \ {0}  BY SizeAssumption
<1>2. a \in Nat /\ S \in Nat /\ 0 < S /\ a + S <= T  BY PieceFacts
<1>3. Blocks(files, i) = blocks  BY DEF Blocks
<1>4. PieceAddresses(files, i) = a .. a + S - 1  BY DEF PieceAddresses
<1>5. T \in Nat
  <2>1. Len(files) + 1 \in 1..Len(files)+1  BY StartsFacts
  <2>2. Starts(files)[Len(files)+1] \in Nat  BY <2>1, StartsFacts
  <2> QED  BY <2>2 DEF TorrentSize
<1> HIDE DEF B, S, a, T
<1>6. N \in Nat /\ N * B <= S + B - 1
  <2>1. S + B - 1 \in Nat  BY <1>1, <1>2
  <2> QED  BY <1>1, <2>1, DivFacts
<1> HIDE DEF N
<1>7. ASSUME NEW n \in 1..N
      PROVE  LET w == a + (n - 1) * B
                 s == IF n * B <= S THEN B ELSE S - (n - 1) * B
             IN  /\ w \in Nat /\ s \in Nat \ {0} /\ w + s <= T
                 /\ w .. w + s - 1 \subseteq a .. a + S - 1
  <2>1. n \in Nat /\ n - 1 \in Nat /\ (n - 1) + 1 = n /\ n <= N  BY <1>6
  <2>2. PICK c, d : c = (n - 1) * B /\ d = n * B  OBVIOUS
  <2>3. c \in Nat /\ d = c + B
    <3>1. c \in Nat /\ ((n - 1) + 1) * B = c + B  BY <1>1, <2>1, <2>2, TimesFacts
    <3> QED  BY <2>1, <2>2, <3>1
  <2>4. d <= S + B - 1
    <3>1. CASE n = N  BY <1>6, <2>2, <3>1
    <3>2. CASE n # N
      <4>1. n < N  BY <1>6, <2>1, <3>2
      <4>2. n * B + B <= N * B  BY <1>1, <1>6, <2>1, <4>1, TimesGrows
      <4>3. d + B <= S + B - 1
        <5>1. PICK e : e = N * B  OBVIOUS
        <5>2. e \in Nat  BY <1>1, <1>6, <5>1, TimesFacts
        <5>3. d + B <= e /\ e <= S + B - 1  BY <1>6, <2>2, <4>2, <5>1
        <5> QED  BY <1>1, <1>2, <2>3, <5>2, <5>3
      <4> QED  BY <1>1, <1>2, <2>3, <4>3
    <3> QED  BY <3>1, <3>2
  <2>5. c <= S - 1  BY <1>1, <1>2, <2>3, <2>4
  <2> DEFINE w == a + c
             s == IF d <= S THEN B ELSE S - c
  <2>6. s \in Nat \ {0} /\ c + s <= S  BY <1>1, <1>2, <2>3, <2>5
  <2>7. w \in Nat /\ w + s <= T /\ w + s <= a + S /\ a <= w
    <3> HIDE DEF s
    <3> QED  BY <1>2, <1>5, <2>3, <2>6
  <2>8. w .. w + s - 1 \subseteq a .. a + S - 1
    <3> HIDE DEF s, w
    <3> QED  BY <1>2, <2>6, <2>7
  <2> QED  BY <2>2, <2>6, <2>7, <2>8
<1>8. blocks \in Seq([where : Nat, size : Nat]) /\ Len(blocks) = N
  <2>1. \A n \in 1..N : blocks[n] \in [where : Nat, size : Nat]  BY <1>7
  <2>2. blocks \in [1..N -> [where : Nat, size : Nat]]  BY <2>1
  <2> HIDE DEF blocks
  <2> QED  BY <1>6, <2>2, RowOfLength
<1>9. ASSUME NEW n \in 1..N
      PROVE  /\ BlockIn(files, blocks[n])
             /\ blocks[n].where .. blocks[n].where + blocks[n].size - 1 \subseteq a .. a + S - 1
  <2>1. PICK b : b = blocks[n]  OBVIOUS
  <2>2. PICK w, s : w = b.where /\ s = b.size  OBVIOUS
  <2>3. w = a + (n - 1) * B /\ s = IF n * B <= S THEN B ELSE S - (n - 1) * B
    BY <2>1, <2>2
  <2>4. w \in Nat /\ s \in Nat \ {0} /\ w + s <= T /\ w .. w + s - 1 \subseteq a .. a + S - 1
    BY <1>7, <2>3
  <2> HIDE DEF blocks
  <2> QED  BY <2>1, <2>2, <2>4 DEF BlockIn, T
<1> HIDE DEF blocks
<1> QED  BY <1>3, <1>4, <1>6, <1>8, <1>9

----------------------------------------------------------------------------
\* The blocks of a request, one after the other.

Hint == [offset : Nat, index : Nat]
At(files) == {x \in [runs : Seq(Run), hint : Hint] : HintTrue(files, x.hint)}

LEMMA LocateType ==
  ASSUME NEW files \in Seq(Nat), NEW b, BlockIn(files, b), NEW hint \in Hint, HintTrue(files, hint)
  PROVE  Locate(files, b.where, b.size, hint) \in At(files)
<1> DEFINE w == b.where
           s == b.size
<1>1. w \in Nat /\ s \in Nat \ {0} /\ w + s \in Nat /\ w < TorrentSize(files)
  <2>1. w \in Nat /\ s \in Nat \ {0} /\ w + s <= TorrentSize(files)  BY DEF BlockIn
  <2>2. TorrentSize(files) \in Nat
    <3>1. Len(files) + 1 \in 1..Len(files)+1  BY StartsFacts
    <3>2. Starts(files)[Len(files)+1] \in Nat  BY <3>1, StartsFacts
    <3> QED  BY <3>2 DEF TorrentSize
  <2> QED  BY <2>1, <2>2
<1> HIDE DEF w, s
<1>2. PICK l : l = Locate(files, w, s, hint)  OBVIOUS
<1>3. Located(files, w, s, l.runs) /\ HintTrue(files, l.hint)
  BY <1>1, <1>2, LocateFacts
<1>4. l.runs \in Seq(Run)  BY <1>3 DEF Located
<1>5. l = [runs |-> l.runs, hint |-> l.hint]
      /\ (l.hint = hint \/ \E o, i : l.hint = [offset |-> o, index |-> i])
  <2> DEFINE first == Smallest({f \in FindFile(files, w, hint)..Len(files) : files[f] > 0})
             off == w - Starts(files)[first]
             rest == Fill(files, first + 1, s - (files[first] - off))
  <2>1. \E r, h : l = [runs |-> r, hint |-> h]
                  /\ (h = hint \/ \E o, i : h = [offset |-> o, index |-> i])
    <3> HIDE DEF first, off, rest
    <3>1. l = IF {f \in FindFile(files, w, hint)..Len(files) : files[f] > 0} = {}
              THEN [runs |-> <<[file |-> Len(files) + 1, offset |-> 0]>>, hint |-> hint]
              ELSE IF s <= files[first] - off
              THEN [runs |-> <<[file |-> first, offset |-> off]>>,
                    hint |-> [offset |-> w + s,
                              index |-> IF s = files[first] - off THEN first + 1 ELSE first]]
              ELSE IF rest.remaining = 0
              THEN [runs |-> <<[file |-> first, offset |-> off]>> \o rest.runs,
                    hint |-> [offset |-> w + s, index |-> rest.index + 1]]
              ELSE [runs |-> <<[file |-> first, offset |-> off]>> \o rest.runs
                               \o <<[file |-> rest.index, offset |-> 0]>>,
                    hint |-> [offset |-> w + s, index |-> rest.index]]
      BY <1>2 DEF Locate, LocateFrom, first, off, rest
    <3>2. ASSUME NEW r, NEW h, l = [runs |-> r, hint |-> h],
                 h = hint \/ \E o, i : h = [offset |-> o, index |-> i]
          PROVE  \E r1, h1 : l = [runs |-> r1, hint |-> h1]
                    /\ (h1 = hint \/ \E o, i : h1 = [offset |-> o, index |-> i])
      BY <3>2
    <3>3. CASE {f \in FindFile(files, w, hint)..Len(files) : files[f] > 0} = {}
      BY <3>1, <3>2, <3>3
    <3>4. CASE {f \in FindFile(files, w, hint)..Len(files) : files[f] > 0} # {}
      <4>1. CASE s <= files[first] - off  BY <3>1, <3>2, <3>4, <4>1
      <4>2. CASE ~ (s <= files[first] - off) /\ rest.remaining = 0
        BY <3>1, <3>2, <3>4, <4>2
      <4>3. CASE ~ (s <= files[first] - off) /\ rest.remaining # 0
        BY <3>1, <3>2, <3>4, <4>3
      <4> QED  BY <4>1, <4>2, <4>3
    <3> QED  BY <3>3, <3>4
  <2>2. PICK r, h : l = [runs |-> r, hint |-> h]
                    /\ (h = hint \/ \E o, i : h = [offset |-> o, index |-> i])
    BY <2>1
  <2>3. l.runs = r /\ l.hint = h  BY <2>2
  <2> QED  BY <2>2, <2>3
<1>6. l.hint \in Hint
  <2>1. CASE l.hint = hint  BY <2>1
  <2>2. CASE \E o, i : l.hint = [offset |-> o, index |-> i]
    <3>1. PICK o, i : l.hint = [offset |-> o, index |-> i]  BY <2>2
    <3>2. PICK h : h = l.hint  OBVIOUS
    <3>3. h = [offset |-> o, index |-> i]  BY <3>1, <3>2
    <3>4. h.offset = o /\ h.index = i  BY <3>3
    <3>5. h.offset \in Nat /\ h.index \in Nat  BY <1>3, <3>2 DEF HintTrue
    <3>6. h \in Hint  BY <3>3, <3>4, <3>5 DEF Hint
    <3> QED  BY <3>2, <3>6
  <2> QED  BY <1>5, <2>1, <2>2
<1>7. l \in [runs : Seq(Run), hint : Hint]  BY <1>4, <1>5, <1>6
<1> QED  BY <1>2, <1>3, <1>7 DEF At, w, s

LEMMA NoHintTrue ==
  ASSUME NEW files \in Seq(Nat)
  PROVE  NoHint \in Hint /\ HintTrue(files, NoHint)
<1>1. NoHint.offset = 0 /\ NoHint.index = 1 /\ NoHint \in Hint  BY DEF NoHint, Hint
<1>2. ASSUME NEW f \in 1..Len(files), files[f] > 0 PROVE 0 < Starts(files)[f] + files[f]
  <2>1. f \in 1..Len(files)+1 /\ files[f] \in Nat  BY StartsFacts
  <2>2. Starts(files)[f] \in Nat  BY <2>1, StartsFacts
  <2> QED  BY <1>2, <2>1, <2>2
<1> QED  BY <1>1, <1>2 DEF HintTrue

\* Without a hint the file is always found.
LEMMA NoHintFinds ==
  ASSUME NEW files \in Seq(Nat), NEW where \in Nat, where < TorrentSize(files)
  PROVE  Found(files, where, NoHint) # {}
<1>1. NoHint.offset = 0 /\ NoHint.index = 1  BY DEF NoHint
<1>2. PICK f \in 1..Len(files) : Starts(files)[f] <= where /\ where < Starts(files)[f] + files[f]
  BY PlaceHasFile
<1>3. Len(files) \in Nat /\ \A g \in 1..Len(files) : files[g] \in Nat  BY StartsFacts
<1>4. ASSUME NEW g \in 1..Len(files), Starts(files)[g] <= where, where < Starts(files)[g] + files[g]
      PROVE  files[g] > 0
  <2>1. g \in 1..Len(files)+1 /\ files[g] \in Nat  BY <1>3
  <2>2. Starts(files)[g] \in Nat  BY <2>1, StartsFacts
  <2> QED  BY <1>4, <2>1, <2>2
<1>5. CASE where = 0
  <2>1. FindFile(files, where, NoHint) = 1  BY <1>1, <1>5 DEF FindFile
  <2>2. f \in 1..Len(files) /\ files[f] > 0  BY <1>2, <1>4
  <2> QED  BY <2>1, <2>2 DEF Found
<1>6. CASE where # 0
  <2>1. PICK i : i = FindFile(files, where, NoHint)  OBVIOUS
  <2>2. Holds(files, i, where)  BY <1>1, <1>6, <2>1, BinarySearchFinds DEF FindFile
  <2>3. i \in 1..Len(files) /\ files[i] > 0  BY <1>4, <2>2 DEF Holds
  <2>4. i \in i..Len(files)  BY <1>3, <2>3
  <2> QED  BY <2>1, <2>3, <2>4 DEF Found
<1> QED  BY <1>5, <1>6

\* Each block is looked for with the hint of the one before, and that hint is true.
LEMMA LocationsSteps ==
  ASSUME NEW files \in Seq(Nat), NEW S, NEW blocks \in Seq(S),
         \A n \in 1..Len(blocks) : BlockIn(files, blocks[n])
  PROVE  LET at == Locations(files, blocks)
         IN  /\ at[0].hint = NoHint
             /\ \A n \in 1..Len(blocks) :
                  /\ HintTrue(files, at[n-1].hint)
                  /\ at[n] = Locate(files, blocks[n].where, blocks[n].size, at[n-1].hint)
<1> DEFINE L == Len(blocks)
           A == At(files)
           Step(n, x) == Locate(files, blocks[n].where, blocks[n].size, x.hint)
           base == [runs |-> <<>>, hint |-> NoHint]
           step == [n \in 0..L |-> [x \in A |-> IF n = 0 THEN x ELSE Step(n, x)]]
           Def(g) == g = [n \in 0..L |-> IF n = 0 THEN base ELSE Step(n, g[n - 1])]
<1>1. L \in Nat /\ base \in A
  <2>1. base.runs = <<>> /\ base.hint = NoHint  OBVIOUS
  <2>2. <<>> \in Seq(Run)  OBVIOUS
  <2>3. base \in [runs : Seq(Run), hint : Hint]  BY <2>2, NoHintTrue
  <2> HIDE DEF base
  <2> QED  BY <2>1, <2>3, NoHintTrue DEF At
<1> HIDE DEF base
<1>2. ASSUME NEW n \in 1..L, NEW x \in A PROVE Step(n, x) \in A
  <2>1. BlockIn(files, blocks[n])  OBVIOUS
  <2>2. x.hint \in Hint /\ HintTrue(files, x.hint)  BY DEF At
  <2> QED  BY <2>1, <2>2, LocateType
<1>3. Recursion(0, L, A, base, step)
  <2> HIDE DEF A, Step
  <2>1. \A n \in 0..L : n # 0 => n \in 1..L  BY <1>1
  <2>2. step \in [0..L -> [A -> A]]  BY <1>2, <2>1
  <2> QED  BY <1>1, <2>2 DEF Recursion
<1>4. PICK g : Follows(g, 0, L, A, base, step)
  <2> HIDE DEF L, A, step
  <2> QED  BY <1>3, RecursionExists
<1>5. /\ g \in [0..L -> A] /\ g[0] = base
      /\ \A n \in 1..L : g[n] = Step(n, g[n-1])
  <2> HIDE DEF A, Step
  <2>1. g \in [0..L -> A] /\ g[0] = base /\ \A n \in 1..L : g[n] = step[n][g[n-1]]
    <3> HIDE DEF step
    <3> QED  BY <1>1, <1>4 DEF Follows
  <2>2. ASSUME NEW n \in 1..L PROVE g[n] = Step(n, g[n-1])
    <3>1. n \in 0..L /\ n - 1 \in 0..L /\ n # 0  BY <1>1
    <3>2. g[n-1] \in A  BY <2>1, <3>1
    <3> QED  BY <2>1, <3>1, <3>2
  <2> QED  BY <2>1, <2>2
<1>6. Def(g)
  <2> HIDE DEF A, Step
  <2> QED  BY <1>1, <1>5
<1> DEFINE v == CHOOSE w : Def(w)
<1>7. Def(v)
  <2> HIDE DEF Def
  <2> QED  BY <1>6
<1> HIDE DEF v, Def
<1>8. Locations(files, blocks) = v
  BY DEF Locations, v, Def, base
<1>9. v[0] = base /\ \A n \in 0..L : n # 0 => v[n] = Step(n, v[n-1])
  <2> HIDE DEF Step
  <2>1. v = [n \in 0..L |-> IF n = 0 THEN base ELSE Step(n, v[n - 1])]  BY <1>7 DEF Def
  <2>2. PICK w : w = v  OBVIOUS
  <2>3. w = [n \in 0..L |-> IF n = 0 THEN base ELSE Step(n, w[n - 1])]  BY <2>1, <2>2
  <2>4. 0 \in 0..L  BY <1>1
  <2> HIDE DEF L
  <2>5. w[0] = base /\ \A n \in 0..L : n # 0 => w[n] = Step(n, w[n-1])
    BY <2>3, <2>4
  <2> QED  BY <2>2, <2>5
<1> DEFINE T == {n \in Nat : n <= L => v[n] \in A}
<1>10. T = Nat
  <2> HIDE DEF A, Step
  <2>1. 0 \in T  BY <1>1, <1>9
  <2>2. ASSUME NEW n \in T PROVE n + 1 \in T
    <3> SUFFICES ASSUME n + 1 <= L PROVE v[n+1] \in A
      OBVIOUS
    <3>1. n \in Nat /\ n + 1 \in 0..L /\ n + 1 \in 1..L /\ n + 1 # 0 /\ (n + 1) - 1 = n /\ v[n] \in A
      BY <1>1
    <3> QED  BY <1>2, <1>9, <3>1
  <2> HIDE DEF T
  <2> QED  BY <2>1, <2>2, NatSetInduction DEF T
<1>18. v[0].hint = NoHint  BY <1>9 DEF base
<1> SUFFICES ASSUME NEW n \in 1..L
             PROVE  /\ HintTrue(files, v[n-1].hint)
                    /\ v[n] = Locate(files, blocks[n].where, blocks[n].size, v[n-1].hint)
  BY <1>8, <1>18
<1>11. n \in 0..L /\ n # 0 /\ n - 1 \in Nat /\ n - 1 <= L  BY <1>1
<1>12. v[n-1] \in A
  <2>1. n - 1 \in T  BY <1>10, <1>11
  <2> HIDE DEF A
  <2> QED  BY <1>11, <2>1
<1>13. HintTrue(files, v[n-1].hint)  BY <1>12 DEF At
<1> QED  BY <1>9, <1>11, <1>13

\* Whatever hints the blocks of a request leave to those behind them, describeLocation never
\* sends data to a wrong place: the runs of a block follow each other, each where its
\* part of the block belongs, up to the end of the block or to a file that there is not.
THEOREM LocationsFacts ==
  ASSUME NEW files \in Seq(Nat), NEW S, NEW blocks \in Seq(S),
         \A n \in 1..Len(blocks) : BlockIn(files, blocks[n])
  PROVE  \A n \in 1..Len(blocks) :
            Located(files, blocks[n].where, blocks[n].size, Locations(files, blocks)[n].runs)
<1> SUFFICES ASSUME NEW n \in 1..Len(blocks)
             PROVE  Located(files, blocks[n].where, blocks[n].size, Locations(files, blocks)[n].runs)
  OBVIOUS
<1>1. PICK v : v = Locations(files, blocks)  OBVIOUS
<1>2. /\ HintTrue(files, v[n-1].hint)
      /\ v[n] = Locate(files, blocks[n].where, blocks[n].size, v[n-1].hint)
  BY <1>1, LocationsSteps
<1>3. PICK w, s : w = blocks[n].where /\ s = blocks[n].size  OBVIOUS
<1>4. w \in Nat /\ s \in Nat \ {0} /\ w < TorrentSize(files)
  <2>1. w \in Nat /\ s \in Nat \ {0} /\ w + s <= TorrentSize(files)  BY <1>3 DEF BlockIn
  <2>2. TorrentSize(files) \in Nat
    <3>1. Len(files) + 1 \in 1..Len(files)+1  BY StartsFacts
    <3>2. Starts(files)[Len(files)+1] \in Nat  BY <3>1, StartsFacts
    <3> QED  BY <3>2 DEF TorrentSize
  <2> QED  BY <2>1, <2>2
<1>5. Located(files, w, s, Locate(files, w, s, v[n-1].hint).runs)
  BY <1>2, <1>4, LocateFacts
<1> QED  BY <1>1, <1>2, <1>3, <1>5

\* breakPieceIntoBlocks leaves nothing out: every byte of a piece, the last one too, is in
\* one of its blocks.
THEOREM BlocksCover ==
  ASSUME NEW files \in Seq(Nat), TorrentSize(files) > 0, NEW i \in 0..PieceCount(files)-1,
         NEW address \in PieceAddresses(files, i)
  PROVE  \E n \in 1..Len(Blocks(files, i)) :
            address \in Blocks(files, i)[n].where
                        .. Blocks(files, i)[n].where + Blocks(files, i)[n].size - 1
<1> DEFINE B == BlockSize
           S == SizeOfPiece(files, i)
           a == i * PieceSize
           N == (S + B - 1) \div B
           c == address - a
           m == c \div B
           blocks == [n \in 1..N |->
                        [where |-> a + (n - 1) * B,
                         size  |-> IF n * B <= S THEN B ELSE S - (n - 1) * B]]
<1>1. B \in Nat \ {0}  BY SizeAssumption
<1>2. a \in Nat /\ S \in Nat /\ 0 < S  BY PieceFacts
<1>3. Blocks(files, i) = blocks  BY DEF Blocks
<1>4. address \in a .. a + S - 1  BY DEF PieceAddresses
<1>5. Len(Blocks(files, i)) = N
  <2>1. Blocks(files, i) \in Seq([where : Nat, size : Nat])  BY BlocksFacts
  <2>2. PICK q : q = Blocks(files, i)  OBVIOUS
  <2>3. DOMAIN q = 1..N  BY <1>3, <2>2
  <2>4. DOMAIN q = 1..Len(q) /\ Len(q) \in Nat  BY <2>1, <2>2, LenProperties
  <2> HIDE DEF N
  <2>5. N \in Nat
    <3>1. S + B - 1 \in Nat  BY <1>1, <1>2
    <3> QED  BY <1>1, <3>1, DivFacts DEF N
  <2>6. PICK l : l = Len(q)  OBVIOUS
  <2>7. l \in Nat /\ 1..l = 1..N  BY <2>3, <2>4, <2>6
  <2>8. l = N  BY <2>5, <2>7, SameLength
  <2> QED  BY <2>2, <2>6, <2>8
<1> HIDE DEF B, S, a, N, c, m
<1>6. N \in Nat /\ S + B - 1 < N * B + B /\ N * B \in Nat
  <2>1. S + B - 1 \in Nat  BY <1>1, <1>2
  <2>2. N \in Nat /\ S + B - 1 < N * B + B  BY <1>1, <2>1, DivFacts DEF N
  <2> QED  BY <1>1, <2>2, TimesFacts
<1>7. c \in Nat /\ c <= S - 1 /\ a + c = address  BY <1>2, <1>4 DEF c
<1>8. m \in Nat /\ m * B <= c /\ c < m * B + B  BY <1>1, <1>7, DivFacts DEF m
<1>9. m * B \in Nat /\ (m + 1) * B = m * B + B  BY <1>1, <1>8, TimesFacts
<1>10. PICK d, e : d = m * B /\ e = N * B  OBVIOUS
<1>11. d \in Nat /\ e \in Nat /\ d <= c /\ c < d + B /\ S + B - 1 < e + B
  BY <1>6, <1>8, <1>9, <1>10
<1>12. d < e  BY <1>1, <1>2, <1>7, <1>11
<1>13. m < N
  <2>1. CASE m = N  BY <1>10, <1>11, <1>12, <2>1
  <2>2. CASE N < m
    <3>1. e + B <= d  BY <1>1, <1>6, <1>8, <1>10, <2>2, TimesGrows
    <3> QED  BY <1>1, <1>11, <1>12, <3>1
  <2> QED  BY <1>6, <1>8, <2>1, <2>2
<1>14. PICK n : n = m + 1  OBVIOUS
<1>15. n \in 1..N /\ n - 1 = m  BY <1>6, <1>8, <1>13, <1>14
<1>16. blocks[n] = [where |-> a + d, size |-> IF d + B <= S THEN B ELSE S - d]
  BY <1>9, <1>10, <1>14, <1>15
<1>17. blocks[n].where = a + d /\ blocks[n].size = IF d + B <= S THEN B ELSE S - d
  BY <1>16
<1>18. PICK s : s = IF d + B <= S THEN B ELSE S - d  OBVIOUS
<1>19. s \in Int /\ c < d + s  BY <1>1, <1>2, <1>7, <1>11, <1>18
<1>20. address \in a + d .. a + d + s - 1  BY <1>2, <1>7, <1>11, <1>19
<1> HIDE DEF blocks
<1> QED  BY <1>3, <1>5, <1>15, <1>17, <1>18, <1>20
----------------------------------------------------------------------------
\* Where hints are exact.

\* Files without a byte begin where the one after them does.
LEMMA EmptyFiles ==
  ASSUME NEW files \in Seq(Nat), NEW f \in 1..Len(files)+1, NEW g \in 1..Len(files)+1, f <= g,
         \A h \in 1..Len(files) : f <= h /\ h < g => files[h] = 0
  PROVE  Starts(files)[f] = Starts(files)[g]
<1> DEFINE L == Len(files)
           u == Starts(files)
           T == {k \in Nat : f + k <= g => u[f] = u[f+k]}
<1>1. /\ L \in Nat /\ u \in [1..L+1 -> Nat] /\ \A h \in 1..L : u[h+1] = u[h] + files[h]
      /\ \A h \in 1..L : f <= h /\ h < g => files[h] = 0
  BY StartsFacts
<1>2. f \in 1..L+1 /\ g \in 1..L+1  OBVIOUS
<1> HIDE DEF L, u
<1>3. T = Nat
  <2>1. 0 \in T
    <3>1. f + 0 = f  BY <1>1, <1>2
    <3> QED  BY <3>1
  <2>2. ASSUME NEW k \in T PROVE k + 1 \in T
    <3> SUFFICES ASSUME f + (k + 1) <= g PROVE u[f] = u[f + (k + 1)]
      OBVIOUS
    <3>1. f + k \in 1..L /\ f + (k + 1) = (f + k) + 1 /\ f <= f + k /\ f + k < g
      BY <1>1, <1>2
    <3>2. u[f] = u[f+k]  BY <1>1, <1>2, <3>1
    <3>3. u[f + (k + 1)] = u[f+k] + files[f+k] /\ files[f+k] = 0  BY <1>1, <3>1
    <3>4. u[f+k] \in Nat /\ f + k \in 1..L+1  BY <1>1, <1>2, <3>1
    <3> QED  BY <3>2, <3>3, <3>4
  <2> HIDE DEF T
  <2> QED  BY <2>1, <2>2, NatSetInduction DEF T
<1>4. g - f \in Nat /\ f + (g - f) = g  BY <1>1, <1>2
<1>5. \A k \in Nat : f + k <= g => u[f] = u[f+k]  BY <1>3
<1>6. u[f] = u[f + (g - f)]  BY <1>4, <1>5, <1>2
<1> QED  BY <1>4, <1>6 DEF u

\* The file of the hint does not begin after the place that the hint is for.
HintExact(files, hint) ==
    hint.index \in 1..Len(files)+1 /\ Starts(files)[hint.index] <= hint.offset

\* With such a hint, the file with the place is found.
LEMMA ExactFinds ==
  ASSUME NEW files \in Seq(Nat), NEW where \in Nat, where < TorrentSize(files), NEW hint,
         HintTrue(files, hint), HintExact(files, hint)
  PROVE  /\ Found(files, where, hint) # {}
         /\ Starts(files)[Smallest(Found(files, where, hint))] <= where
<1> DEFINE L == Len(files)
           u == Starts(files)
           F == Found(files, where, hint)
<1>1. /\ L \in Nat /\ \A h \in 1..L : files[h] \in Nat
      /\ u \in [1..L+1 -> Nat] /\ \A h \in 1..L : u[h+1] = u[h] + files[h]
  BY StartsFacts
<1>2. PICK i : i = FindFile(files, where, hint)  OBVIOUS
<1>3. F = {f \in i..L : files[f] > 0}  BY <1>2 DEF Found
<1>4. i \in 1..L+1 /\ u[i] <= where
  <2>1. CASE where = hint.offset  BY <1>2, <2>1 DEF FindFile, HintExact
  <2>2. CASE where # hint.offset
    <3>1. Holds(files, i, where)  BY <1>2, <2>2, BinarySearchFinds DEF FindFile
    <3>2. i \in 1..L /\ u[i] <= where  BY <3>1 DEF Holds
    <3> QED  BY <1>1, <3>2
  <2> QED  BY <2>1, <2>2
<1> DEFINE Clear(g) == \A h \in 1..L : i <= h /\ h < g => files[h] = 0
<1>5. ASSUME NEW g \in 1..L+1, i <= g, Clear(g) PROVE u[g] <= where
  <2>1. u[i] = u[g]  BY <1>4, <1>5, EmptyFiles
  <2> QED  BY <1>4, <2>1
<1>6. F # {}
  <2> SUFFICES ASSUME F = {} PROVE FALSE
    OBVIOUS
  <2>1. L + 1 \in 1..L+1 /\ i <= L + 1  BY <1>1, <1>4
  <2>2. ASSUME NEW h \in 1..L, i <= h PROVE files[h] = 0
    <3>1. h \in i..L  BY <1>1, <1>4, <2>2
    <3>2. ~ (files[h] > 0)  BY <1>3, <3>1
    <3> QED  BY <1>1, <3>2
  <2>3. u[L+1] <= where  BY <1>5, <2>1, <2>2
  <2>4. where < u[L+1]  BY DEF TorrentSize
  <2>5. u[L+1] \in Nat  BY <1>1, <2>1
  <2> HIDE DEF u
  <2> QED  BY <2>3, <2>4, <2>5
<1>7. PICK first : first = Smallest(F)  OBVIOUS
<1>8. first \in F /\ \A n \in F : first <= n
  <2>1. F \in SUBSET Nat  BY <1>1, <1>3, <1>4
  <2> HIDE DEF F
  <2> QED  BY <1>6, <1>7, <2>1, SmallestFacts
<1>9. first \in i..L /\ first \in 1..L+1 /\ i <= first
  <2>1. first \in i..L  BY <1>3, <1>8
  <2> QED  BY <1>1, <1>4, <2>1
<1>10. ASSUME NEW h \in 1..L, i <= h, h < first PROVE files[h] = 0
  <2>1. h \in i..L  BY <1>1, <1>4, <1>10
  <2>2. h \notin F  BY <1>8, <1>9, <1>1, <1>10
  <2>3. ~ (files[h] > 0)  BY <1>3, <2>1, <2>2
  <2> QED  BY <1>1, <2>3
<1>11. u[first] <= where  BY <1>5, <1>9, <1>10
<1> QED  BY <1>6, <1>7, <1>11

\* A block that ends with a file but is not all in that one has more than one file.
LEMMA SpansTwo ==
  ASSUME NEW files \in Seq(Nat), NEW b, BlockIn(files, b),
         NEW f \in 1..Len(files), Starts(files)[f] <= b.where,
         b.where < Starts(files)[f] + files[f],
         Starts(files)[f] + files[f] < b.where + b.size,
         NEW i \in 1..Len(files)+1, Starts(files)[i] = b.where + b.size
  PROVE  Overshoots(files, b)
<1> DEFINE L == Len(files)
           u == Starts(files)
<1>1. /\ L \in Nat /\ \A h \in 1..L : files[h] \in Nat
      /\ u \in [1..L+1 -> Nat] /\ \A h \in 1..L : u[h+1] = u[h] + files[h]
  BY StartsFacts
<1>2. PICK w, e : w = b.where /\ e = b.where + b.size  OBVIOUS
<1>3. /\ w \in Nat /\ e \in Nat /\ w < e /\ e <= u[L+1] /\ u[L+1] \in Nat
      /\ u[i] = e
  <2>1. b.where \in Nat /\ b.size \in Nat \ {0} /\ e <= TorrentSize(files)
    BY <1>2 DEF BlockIn
  <2>2. L + 1 \in 1..L+1  BY <1>1
  <2>3. u[L+1] \in Nat  BY <1>1, <2>2
  <2>4. TorrentSize(files) = u[L+1] /\ u[i] = e  BY <1>2 DEF TorrentSize
  <2>5. PICK x, z : x = u[L+1] /\ z = b.size  OBVIOUS
  <2>6. w \in Nat /\ z \in Nat \ {0} /\ e = w + z /\ e <= x /\ x \in Nat
    BY <1>2, <2>1, <2>3, <2>4, <2>5
  <2>7. e \in Nat /\ w < e  BY <2>6
  <2> QED  BY <2>4, <2>5, <2>6, <2>7
<1>4. e - 1 \in Nat /\ e - 1 < TorrentSize(files)  BY <1>3 DEF TorrentSize
<1>5. PICK g \in 1..L : u[g] <= e - 1 /\ e - 1 < u[g] + files[g]
  BY <1>4, PlaceHasFile
<1>6. /\ u[f] \in Nat /\ files[f] \in Nat /\ u[f] <= w /\ w < u[f] + files[f] /\ u[f] + files[f] < e
      /\ u[g] \in Nat /\ files[g] \in Nat /\ g \in 1..L+1
  <2>1. f \in 1..L+1 /\ g \in 1..L+1  BY <1>1, <1>5
  <2> QED  BY <1>1, <1>2, <1>5, <2>1
<1> HIDE DEF u
<1>7. PICK p, q, r, t : p = u[f] /\ q = files[f] /\ r = u[g] /\ t = files[g]  OBVIOUS
<1>8. /\ p \in Nat /\ q \in Nat /\ r \in Nat /\ t \in Nat /\ p <= w /\ w < p + q /\ p + q < e
       /\ r <= e - 1 /\ e - 1 < r + t
  BY <1>5, <1>6, <1>7
<1>9. f # g
  <2>1. p + q # r + t  BY <1>3, <1>8
  <2> QED  BY <1>7, <2>1
<1>10. q > 0 /\ t > 0 /\ p < e /\ p + q > w /\ r < e /\ r + t > w  BY <1>3, <1>8
<1>11. DOMAIN files = 1..L  OBVIOUS
<1> DEFINE H == FilesTouched(files, b.where, b.size)
<1>12. f \in H /\ g \in H
  BY <1>2, <1>7, <1>10, <1>11 DEF FilesTouched, u
<1>13. Cardinality(H) > 1
  <2>1. IsFiniteSet(H)
    <3>1. IsFiniteSet(1..L)  BY <1>1, FS_Interval
    <3>2. H \subseteq 1..L  BY <1>11 DEF FilesTouched
    <3> HIDE DEF H
    <3> QED  BY <3>1, <3>2, FS_Subset
  <2> HIDE DEF H
  <2>2. H # {} /\ ~ \E x : H = {x}  BY <1>12, <1>9
  <2>3. Cardinality(H) # 0 /\ Cardinality(H) # 1
    BY <2>1, <2>2, FS_EmptySet, FS_Singleton
  <2>4. Cardinality(H) \in Nat  BY <2>1, FS_CardinalityType
  <2> QED  BY <2>3, <2>4
<1>14. u[g] + files[g] = e
  <2>1. g < i
    <3>1. ASSUME i <= g PROVE FALSE
      <4>1. u[i] <= u[g]  BY <1>6, <3>1, StartsGrow DEF u
      <4>2. e <= r  BY <1>3, <1>7, <4>1
      <4> QED  BY <1>3, <1>8, <4>2
    <3> QED  BY <1>1, <3>1
  <2>2. u[g] + files[g] <= u[i]  BY <1>6, <2>1, EndsGrow DEF u
  <2>3. r + t <= e  BY <1>3, <1>7, <2>2
  <2>4. r + t = e  BY <1>3, <1>8, <2>3
  <2> QED  BY <1>7, <2>4
<1> QED  BY <1>2, <1>7, <1>10, <1>11, <1>13, <1>14 DEF Overshoots, u

\* The runs of a block are all at places that there are.
InFiles(files, runs) ==
    \A n \in 1..Len(runs) : runs[n].file \in 1..Len(files) /\ runs[n].offset >= 0

\* A hint that is exact leads to the block, and the hint for the next one is exact too
\* unless the block is one that describeLocation cannot deal with.
LEMMA LocateExact ==
  ASSUME NEW files \in Seq(Nat), NEW b, BlockIn(files, b), NEW hint,
         HintTrue(files, hint), HintExact(files, hint)
  PROVE  LET l == Locate(files, b.where, b.size, hint)
         IN  /\ InFiles(files, l.runs)
             /\ HintExact(files, l.hint) \/ Overshoots(files, b)
<1> DEFINE L == Len(files)
           u == Starts(files)
<1>1. /\ L \in Nat /\ \A h \in 1..L : files[h] \in Nat
      /\ u \in [1..L+1 -> Nat] /\ \A h \in 1..L : u[h+1] = u[h] + files[h]
  BY StartsFacts
<1>2. PICK w, s : w = b.where /\ s = b.size  OBVIOUS
<1>3. w \in Nat /\ s \in Nat \ {0} /\ w + s <= TorrentSize(files) /\ w < TorrentSize(files)
  <2>1. w \in Nat /\ s \in Nat \ {0} /\ w + s <= TorrentSize(files)  BY <1>2 DEF BlockIn
  <2>2. L + 1 \in 1..L+1  BY <1>1
  <2>3. TorrentSize(files) \in Nat  BY <1>1, <2>2 DEF TorrentSize
  <2> QED  BY <2>1, <2>3
<1>4. PICK first : first = Smallest(Found(files, w, hint))  OBVIOUS
<1>5. /\ Found(files, w, hint) # {} /\ first \in 1..L /\ files[first] > 0
      /\ u[first] <= w /\ w < u[first] + files[first]
  BY <1>3, <1>4, ExactFinds, FoundFacts
<1>6. PICK l : l = Locate(files, w, s, hint)  OBVIOUS
<1> SUFFICES InFiles(files, l.runs) /\ (HintExact(files, l.hint) \/ Overshoots(files, b))
  BY <1>2, <1>6
<1>7. PICK p, z : p = u[first] /\ z = files[first]  OBVIOUS
<1>8. p \in Nat /\ z \in Nat /\ p <= w /\ w < p + z /\ first + 1 \in 1..L+1 /\ first \in 1..L+1
      /\ u[first + 1] = p + z
  <2> HIDE DEF u, L
  <2>1. first \in 1..L /\ first \in 1..L+1 /\ first + 1 \in 1..L+1  BY <1>1, <1>5
  <2>2. p \in Nat /\ z \in Nat /\ u[first + 1] = p + z  BY <1>1, <1>7, <2>1
  <2> QED  BY <1>5, <1>7, <2>1, <2>2 DEF L
<1> DEFINE offset == w - p
           run == [file |-> first, offset |-> offset]
           left == s - (z - offset)
           rest == Fill(files, first + 1, left)
<1>9. l = IF s <= z - offset
          THEN [runs |-> <<run>>,
                hint |-> [offset |-> w + s, index |-> IF s = z - offset THEN first + 1 ELSE first]]
          ELSE IF rest.remaining = 0
          THEN [runs |-> <<run>> \o rest.runs,
                hint |-> [offset |-> w + s, index |-> rest.index + 1]]
          ELSE [runs |-> <<run>> \o rest.runs \o <<[file |-> rest.index, offset |-> 0]>>,
                hint |-> [offset |-> w + s, index |-> rest.index]]
  BY <1>4, <1>5, <1>6, <1>7 DEF Locate, LocateFrom, Found
<1>10. \A n \in 1..Len(l.runs) : l.runs[n].file \in 1..L
  <2> HIDE DEF run, rest, left, offset
  <2> QED  BY <1>3, <1>5, <1>6, LocateFacts
<1>11. run.offset = offset /\ offset \in Nat  BY <1>3, <1>8
<1> DEFINE one == <<run>>
<1>12. Len(one) = 1 /\ FromStarts(<<>>) /\ one[1] = run  BY DEF FromStarts
<1> HIDE DEF run
<1>13. CASE s <= z - offset
  <2>1. l.runs = one /\ l.hint = [offset |-> w + s, index |-> IF s = z - offset THEN first + 1 ELSE first]
    BY <1>9, <1>13
  <2>2. l.hint.offset = w + s /\ l.hint.index = IF s = z - offset THEN first + 1 ELSE first
    BY <2>1
  <2>3. \A n \in 1..Len(l.runs) : l.runs[n].offset >= 0
    <3>1. \A n \in 1..Len(one) : one[n] = run  BY <1>12
    <3> HIDE DEF one, offset
    <3> QED  BY <1>11, <2>1, <3>1
  <2>4. HintExact(files, l.hint)
    <3>1. CASE s = z - offset
      <4>1. p + z <= w + s  BY <1>3, <1>8, <3>1
      <4> QED  BY <1>7, <1>8, <2>2, <3>1, <4>1 DEF HintExact
    <3>2. CASE s # z - offset
      <4>1. p <= w + s  BY <1>3, <1>8
      <4> QED  BY <1>7, <1>8, <2>2, <3>2, <4>1 DEF HintExact
    <3> QED  BY <3>1, <3>2
  <2> QED  BY <1>10, <2>3, <2>4 DEF InFiles
<1>14. CASE ~ (s <= z - offset)
  <2>1. left \in Nat /\ (p + z) + left = w + s /\ p + z < w + s  BY <1>3, <1>8, <1>14
  <2> HIDE DEF left
  <2>2. PICK at : at = rest  OBVIOUS
  <2>3. PICK i, r : i = at.index /\ r = at.remaining  OBVIOUS
  <2>4. /\ i \in 1..L+1 /\ r \in Nat /\ u[i] + r = w + s /\ at.runs \in Seq(Run)
        /\ FromStarts(at.runs)
    <3>1. at = Fill(files, first + 1, left)  BY <2>2
    <3>2. /\ at \in FillState(files) /\ u[at.index] + at.remaining = u[first + 1] + left
          /\ FromStarts(at.runs)
      <4>1. PICK j : j = first + 1  OBVIOUS
      <4>2. j \in 1..Len(files)+1 /\ at = Fill(files, j, left)  BY <1>8, <3>1, <4>1
      <4> HIDE DEF rest
      <4> QED  BY <2>1, <4>1, <4>2, FillFacts
    <3> QED  BY <1>8, <2>1, <2>3, <3>2 DEF FillState
  <2> DEFINE row == <<run>> \o at.runs
  <2>5. run \in Run  BY <1>5, <1>11 DEF Run, run
  <2>6. one \in Seq(Run)  BY <2>5
  <2>7. row \in Seq(Run) /\ Joined(one, at.runs, row)
    <3> HIDE DEF one
    <3>1. (one \o at.runs) \in Seq(Run) /\ Joined(one, at.runs, one \o at.runs)
      BY <2>4, <2>6, JoinedFacts
    <3> QED  BY <3>1 DEF one
  <2> HIDE DEF one, offset
  <2>8. \A n \in 1..Len(row) : row[n].offset >= 0
    <3> SUFFICES ASSUME NEW n \in 1..Len(row) PROVE row[n].offset >= 0
      OBVIOUS
    <3>1. Len(at.runs) \in Nat /\ Len(row) = 1 + Len(at.runs)  BY <1>12, <2>7 DEF Joined
    <3>2. CASE n = 1
      <4>1. 1 \in 1..Len(one)  BY <1>12
      <4>2. row[1] = run  BY <1>12, <2>7, <4>1 DEF Joined
      <4> HIDE DEF row
      <4> QED  BY <1>11, <3>2, <4>2
    <3>3. CASE n # 1
      <4>1. PICK m : m = n - 1  OBVIOUS
      <4>2. m \in 1..Len(at.runs) /\ n = 1 + m  BY <3>1, <3>3, <4>1
      <4>3. row[n] = at.runs[m]  BY <1>12, <2>7, <4>2 DEF Joined
      <4>4. at.runs[m].offset = 0  BY <2>4, <4>2 DEF FromStarts
      <4> HIDE DEF row
      <4> QED  BY <4>3, <4>4
    <3> QED  BY <3>2, <3>3
  <2> HIDE DEF row
  <2>9. CASE r = 0
    <3>1. l = [runs |-> row, hint |-> [offset |-> w + s, index |-> at.index + 1]]
      BY <1>9, <1>14, <2>2, <2>3, <2>9 DEF row
    <3>2. l.runs = row  BY <3>1
    <3>3. Overshoots(files, b)
      <4>1. u[i] = w + s
        <5>1. PICK o : o = u[i]  OBVIOUS
        <5>2. o \in Nat /\ o + r = w + s  BY <1>1, <2>4, <5>1
        <5> QED  BY <2>9, <5>1, <5>2
      <4> HIDE DEF u
      <4>2. /\ Starts(files)[first] <= b.where /\ b.where < Starts(files)[first] + files[first]
            /\ Starts(files)[first] + files[first] < b.where + b.size
            /\ Starts(files)[i] = b.where + b.size
        BY <1>2, <1>7, <1>8, <2>1, <4>1 DEF u
      <4> QED  BY <1>5, <2>4, <4>2, SpansTwo
    <3> QED  BY <1>10, <2>8, <3>2, <3>3 DEF InFiles
  <2>10. CASE r # 0
    <3> DEFINE final == [file |-> at.index, offset |-> 0]
               q == row \o <<final>>
    <3>1. l = [runs |-> q, hint |-> [offset |-> w + s, index |-> at.index]]
      BY <1>9, <1>14, <2>2, <2>3, <2>10 DEF row
    <3>2. l.runs = q /\ l.hint.offset = w + s /\ l.hint.index = i  BY <2>3, <3>1
    <3>3. final.offset = 0 /\ final \in Run  BY <2>3, <2>4 DEF Run
    <3> HIDE DEF final
    <3>4. <<final>> \in Seq(Run)  BY <3>3
    <3>5. Joined(row, <<final>>, q)  BY <2>7, <3>4, JoinedFacts
    <3> HIDE DEF q
    <3>6. \A n \in 1..Len(q) : q[n].offset >= 0
      <4> SUFFICES ASSUME NEW n \in 1..Len(q) PROVE q[n].offset >= 0
        OBVIOUS
      <4>1. PICK t : t = <<final>>  OBVIOUS
      <4>2. Len(t) = 1 /\ t[1] = final /\ 1 \in 1..1 /\ Joined(row, t, q)  BY <3>5, <4>1
      <4>3. Len(row) \in Nat /\ Len(q) = Len(row) + 1 /\ q[Len(row) + 1] = final
        BY <4>2 DEF Joined
      <4>4. CASE n <= Len(row)
        <5>1. n \in 1..Len(row)  BY <4>3, <4>4
        <5>2. q[n] = row[n]  BY <4>2, <5>1 DEF Joined
        <5> QED  BY <2>8, <5>1, <5>2
      <4>5. CASE ~ (n <= Len(row))
        <5>1. n = Len(row) + 1  BY <4>3, <4>5
        <5> QED  BY <3>3, <4>3, <5>1
      <4> QED  BY <4>4, <4>5
    <3>7. HintExact(files, l.hint)
      <4>1. PICK o : o = u[i]  OBVIOUS
      <4>2. o \in Nat /\ o + r = w + s  BY <1>1, <2>4, <4>1
      <4>3. o <= w + s  BY <2>4, <4>2
      <4> QED  BY <2>4, <3>2, <4>1, <4>3 DEF HintExact
    <3> QED  BY <1>10, <3>2, <3>6, <3>7 DEF InFiles
  <2> QED  BY <2>9, <2>10
<1> QED  BY <1>13, <1>14

LEMMA NoHintExact ==
  ASSUME NEW files \in Seq(Nat)
  PROVE  HintTrue(files, NoHint) /\ HintExact(files, NoHint)
<1>1. NoHint.offset = 0 /\ NoHint.index = 1  BY DEF NoHint
<1>2. 1 \in 1..Len(files)+1 /\ Starts(files)[1] = 0  BY StartsFacts
<1> QED  BY <1>1, <1>2, NoHintTrue DEF HintExact

\* Up to the first block that describeLocation cannot deal with, and that one too, all is
\* found.
THEOREM LocationsExact ==
  ASSUME NEW files \in Seq(Nat), NEW S, NEW blocks \in Seq(S),
         \A n \in 1..Len(blocks) : BlockIn(files, blocks[n]),
         NEW n \in 1..Len(blocks), \A m \in 1..Len(blocks) : m < n => ~ Overshoots(files, blocks[m])
  PROVE  InFiles(files, Locations(files, blocks)[n].runs)
<1> DEFINE K == Len(blocks)
<1>1. PICK at : at = Locations(files, blocks)  OBVIOUS
<1>2. /\ at[0].hint = NoHint /\ K \in Nat
      /\ \A k \in 1..K : /\ HintTrue(files, at[k-1].hint)
                         /\ at[k] = Locate(files, blocks[k].where, blocks[k].size, at[k-1].hint)
  BY <1>1, LocationsSteps
<1> DEFINE T == {k \in Nat : k < n => HintExact(files, at[k].hint)}
<1>3. ASSUME NEW k \in 1..K, HintExact(files, at[k-1].hint)
      PROVE  /\ InFiles(files, at[k].runs)
             /\ HintExact(files, at[k].hint) \/ Overshoots(files, blocks[k])
  <2>1. PICK h, b : h = at[k-1].hint /\ b = blocks[k]  OBVIOUS
  <2>2. BlockIn(files, b) /\ HintTrue(files, h) /\ HintExact(files, h)  BY <1>2, <1>3, <2>1
  <2>3. at[k] = Locate(files, b.where, b.size, h)  BY <1>2, <2>1
  <2> QED  BY <2>1, <2>2, <2>3, LocateExact
<1>4. T = Nat
  <2>1. 0 \in T  BY <1>2, NoHintExact
  <2>2. ASSUME NEW k \in T PROVE k + 1 \in T
    <3> SUFFICES ASSUME k + 1 < n PROVE HintExact(files, at[k+1].hint)
      OBVIOUS
    <3>1. k + 1 \in 1..K /\ (k + 1) - 1 = k /\ k < n  BY <1>2
    <3>2. HintExact(files, at[k].hint)  BY <3>1
    <3>3. ~ Overshoots(files, blocks[k+1])  BY <3>1
    <3> QED  BY <1>3, <3>1, <3>2, <3>3
  <2> HIDE DEF T
  <2> QED  BY <2>1, <2>2, NatSetInduction DEF T
<1>5. n - 1 \in Nat /\ n - 1 < n  BY <1>2
<1>6. HintExact(files, at[n-1].hint)
  <2>1. n - 1 \in T  BY <1>4, <1>5
  <2> QED  BY <1>5, <2>1
<1> QED  BY <1>1, <1>3, <1>6

\* The blocks of a piece follow each other.
LEMMA BlocksInOrder ==
  ASSUME NEW files \in Seq(Nat), TorrentSize(files) > 0, NEW i \in 0..PieceCount(files)-1,
         NEW m \in 1..Len(Blocks(files, i)), NEW n \in 1..Len(Blocks(files, i)), m < n
  PROVE  Blocks(files, i)[m].where + Blocks(files, i)[m].size < i * PieceSize + SizeOfPiece(files, i)
<1> DEFINE B == BlockSize
           S == SizeOfPiece(files, i)
           a == i * PieceSize
           N == (S + B - 1) \div B
<1>1. B \in Nat \ {0}  BY SizeAssumption
<1>2. a \in Nat /\ S \in Nat /\ 0 < S  BY PieceFacts
<1>3. PICK blocks : blocks = Blocks(files, i)  OBVIOUS
<1>4. blocks = [k \in 1..N |-> [where |-> a + (k - 1) * B,
                                size  |-> IF k * B <= S THEN B ELSE S - (k - 1) * B]]
  BY <1>3 DEF Blocks
<1>5. DOMAIN blocks = 1..Len(blocks) /\ Len(blocks) \in Nat
  <2>1. blocks \in Seq([where : Nat, size : Nat])  BY <1>3, BlocksFacts
  <2> QED  BY <2>1
<1> HIDE DEF B, S, a, N
<1>6. m \in 1..N /\ n \in 1..N  BY <1>3, <1>4, <1>5
<1>7. PICK w, s : w = blocks[m].where /\ s = blocks[m].size  OBVIOUS
<1>8. w = a + (m - 1) * B /\ s = IF m * B <= S THEN B ELSE S - (m - 1) * B
  BY <1>4, <1>6, <1>7
<1>9. n \in Nat /\ m \in Nat /\ m - 1 \in Nat /\ (m - 1) + 1 = m /\ n - 1 \in Nat /\ (n - 1) + 1 = n
      /\ N \in Nat /\ N * B <= S + B - 1
  <2>1. S + B - 1 \in Nat  BY <1>1, <1>2
  <2>2. N \in Nat /\ N * B <= S + B - 1  BY <1>1, <2>1, DivFacts DEF N
  <2> QED  BY <1>6, <2>2
<1>10. PICK c, d, e : c = (m - 1) * B /\ d = m * B /\ e = N * B  OBVIOUS
<1>11. c \in Nat /\ d = c + B /\ e \in Nat
  <2>1. c \in Nat /\ ((m - 1) + 1) * B = c + B  BY <1>1, <1>9, <1>10, TimesFacts
  <2>2. e \in Nat  BY <1>1, <1>9, <1>10, TimesFacts
  <2> QED  BY <1>9, <1>10, <2>1, <2>2
<1>12. d + B <= e
  <2>1. m < N  BY <1>6, <1>9
  <2> QED  BY <1>1, <1>9, <1>10, <2>1, TimesGrows
<1>13. d < S  BY <1>1, <1>2, <1>9, <1>10, <1>11, <1>12
<1>14. w = a + c /\ s = B  BY <1>8, <1>10, <1>13, <1>1, <1>2, <1>11
<1>15. w + s < a + S  BY <1>1, <1>2, <1>11, <1>13, <1>14
<1> QED  BY <1>3, <1>7, <1>15 DEF a, S
=============================================================================

---------------------------- MODULE DiskIo_proofs ----------------------------
(***************************************************************************)
(* The storage of a torrent, for any files, sizes and bounds: what the     *)
(* thread puts on the disk is where it belongs, the state file only has    *)
(* pieces that are there, and it never forgets one.                        *)
(***************************************************************************)
EXTENDS DiskIo, FileLayout_proofs

----------------------------------------------------------------------------
\* The cells of a request.

Cell == [file : Nat, offset : Int, address : Nat]

\* A cell is in its file where its address belongs, or there is no such file.
CellTrue(c) ==
    c.file \in 1..Len(files) =>
        c.offset < files[c.file] /\ Starts(files)[c.file] + c.offset = c.address

LEMMA CellsOfRunFacts ==
  ASSUME files \in Seq(Nat), NEW b, b.where \in Nat, b.size \in Nat,
         NEW run \in Run, NEW done \in Nat
  PROVE  LET n == Amount(run, b.size - done)
             q == CellsOfRun(b, run, done)
         IN  /\ n \in Int
             /\ q \in Seq(Cell)
             /\ Len(q) = IF n > 0 THEN n ELSE 0
             /\ \A k \in 1..Len(q) : /\ q[k].file = run.file
                                     /\ q[k].offset = run.offset + k - 1
                                     /\ q[k].address = b.where + done + k - 1
<1> DEFINE n == Amount(run, b.size - done)
           N == IF n > 0 THEN n ELSE 0
           q == [k \in 1..n |-> [file |-> run.file, offset |-> run.offset + k - 1,
                                 address |-> b.where + done + k - 1]]
<1>1. run.file \in Nat /\ run.offset \in Int  BY DEF Run
<1>2. n \in Int
  <2>1. PICK m : m = IF run.file \in DOMAIN files THEN files[run.file] - run.offset ELSE 1
    OBVIOUS
  <2>2. m \in Int
    <3>1. CASE run.file \in DOMAIN files
      <4>1. files[run.file] \in Nat  BY <3>1
      <4> QED  BY <1>1, <2>1, <3>1, <4>1
    <3>2. CASE run.file \notin DOMAIN files  BY <2>1, <3>2
    <3> QED  BY <3>1, <3>2
  <2>3. n = Lowest(b.size - done, m)  BY <2>1 DEF Amount
  <2> HIDE DEF n
  <2> QED  BY <2>2, <2>3 DEF Lowest
<1>3. q = CellsOfRun(b, run, done)  BY DEF CellsOfRun
<1> HIDE DEF n
<1>4. N \in Nat /\ 1..n = 1..N  BY <1>2
<1>5. q \in [1..N -> Cell]
  <2>1. ASSUME NEW k \in 1..N PROVE run.offset + k - 1 \in Int /\ b.where + done + k - 1 \in Nat
    BY <1>1, <1>4
  <2> HIDE DEF N
  <2> QED  BY <1>1, <1>4, <2>1 DEF Cell
<1>6. q \in Seq(Cell) /\ Len(q) = N
  <2> HIDE DEF q, N
  <2> QED  BY <1>4, <1>5, RowOfLength
<1>7. \A k \in 1..N : /\ q[k].file = run.file
                      /\ q[k].offset = run.offset + k - 1
                      /\ q[k].address = b.where + done + k - 1
  <2> HIDE DEF N
  <2> QED  BY <1>4
<1> HIDE DEF q
<1> QED  BY <1>2, <1>3, <1>6, <1>7 DEF n

\* A cell that there is.
CellIn(c) == c.file \in 1..Len(files) /\ c.offset >= 0

\* The cells of the first n runs of a block.
Filled(b, runs, q, n) ==
    /\ q \in Seq(Cell) /\ Len(q) <= b.size
    /\ \A k \in 1..Len(q) : q[k].address = b.where + k - 1 /\ CellTrue(q[k])
    /\ InFiles(files, runs) => \A k \in 1..Len(q) : CellIn(q[k])
    /\ n < Len(runs) => b.where + Len(q) = Reached(files, runs, b.where, n)
    /\ n = Len(runs) => IF runs[n].file \in 1..Len(files) THEN Len(q) = b.size
                        ELSE Len(q) >= 1 /\ q[Len(q)].file \notin 1..Len(files)

LEMMA FillsOn ==
  ASSUME files \in Seq(Nat), NEW b, b.where \in Nat, b.size \in Nat \ {0},
         NEW runs, Located(files, b.where, b.size, runs),
         NEW n \in 0..Len(runs)-1, NEW q, Filled(b, runs, q, n)
  PROVE  Filled(b, runs, q \o CellsOfRun(b, runs[n+1], Len(q)), n + 1)
<1> DEFINE w == b.where
           s == b.size
           done == Len(q)
           run == runs[n+1]
           L == Len(files)
           K == Len(runs)
           t == CellsOfRun(b, run, done)
           m == Amount(run, s - done)
<1>1. /\ K \in Nat /\ runs \in Seq(Run) /\ n + 1 \in 1..K /\ n \in Nat /\ n < K
  <2>1. runs \in Seq(Run)  BY DEF Located
  <2>2. K \in Nat  BY <2>1
  <2> QED  BY <2>1, <2>2
<1>2. run \in Run /\ run.file \in Nat /\ run.offset \in Int
  <2>1. run \in Run  BY <1>1
  <2> QED  BY <2>1 DEF Run
<1>3. q \in Seq(Cell) /\ done \in Nat /\ done <= s /\ w + done = Reached(files, runs, w, n)
  BY <1>1 DEF Filled
<1>4. /\ m \in Int /\ t \in Seq(Cell) /\ Len(t) = IF m > 0 THEN m ELSE 0
      /\ \A k \in 1..Len(t) : /\ t[k].file = run.file
                              /\ t[k].offset = run.offset + k - 1
                              /\ t[k].address = w + done + k - 1
  <2> HIDE DEF run, done
  <2> QED  BY <1>2, <1>3, CellsOfRunFacts
<1>5. \/ /\ run.file \notin 1..L /\ n + 1 = K
         /\ Reached(files, runs, w, n) < w + s
      \/ /\ RunIn(files, run)
         /\ From(files, run) = Reached(files, runs, w, n)
         /\ n + 1 < K => Reached(files, runs, w, n + 1) <= w + s
         /\ n + 1 = K => Reached(files, runs, w, n + 1) >= w + s
  <2>1. (n + 1) - 1 = n  BY <1>1
  <2> QED  BY <1>1, <2>1 DEF Located
<1>6. L \in Nat  OBVIOUS
<1>7. PICK r : r = q \o t  OBVIOUS
<1>8. r \in Seq(Cell) /\ Len(t) \in Nat /\ Len(r) = done + Len(t)
      /\ (\A k \in 1..done : r[k] = q[k]) /\ (\A k \in 1..Len(t) : r[done + k] = t[k])
  <2>1. r \in Seq(Cell) /\ Joined(q, t, r)
    <3> HIDE DEF t
    <3> QED  BY <1>3, <1>4, <1>7, JoinedFacts
  <2> HIDE DEF t
  <2> QED  BY <2>1 DEF Joined
<1>9. Reached(files, runs, w, n + 1) = Upto(files, run)  BY <1>1 DEF Reached
<1> HIDE DEF w, s, done, run, L, K, t, m
<1>10. w \in Nat /\ s \in Nat \ {0}  BY DEF w, s
<1>11. ASSUME Len(t) <= s - done,
              \A k \in 1..Len(t) : run.file \in 1..L =>
                    run.offset + k - 1 < files[run.file]
                    /\ Starts(files)[run.file] + (run.offset + k - 1) = w + done + k - 1
       PROVE  /\ Len(r) <= s
              /\ \A k \in 1..Len(r) : r[k].address = w + k - 1 /\ CellTrue(r[k])
  <2>1. Len(r) <= s  BY <1>3, <1>8, <1>10, <1>11
  <2>2. ASSUME NEW k \in 1..Len(r) PROVE r[k].address = w + k - 1 /\ CellTrue(r[k])
    <3>1. CASE k <= done
      <4>1. k \in 1..done  BY <1>3, <1>8, <3>1
      <4>2. q[k].address = w + k - 1 /\ CellTrue(q[k])  BY <4>1 DEF Filled, done, w
      <4> QED  BY <1>8, <4>1, <4>2
    <3>2. CASE ~ (k <= done)
      <4>1. PICK j \in 1..Len(t) : k = done + j
        <5>1. k - done \in 1..Len(t) /\ k = done + (k - done)  BY <1>3, <1>8, <3>2
        <5> QED  BY <5>1
      <4>2. PICK c : c = r[k]  OBVIOUS
      <4>3. c = t[j]  BY <1>8, <4>1, <4>2
      <4>4. c.file = run.file /\ c.offset = run.offset + j - 1 /\ c.address = w + done + j - 1
        BY <1>4, <4>3
      <4>5. c.address = w + k - 1  BY <1>3, <1>10, <4>1, <4>4
      <4>6. CellTrue(c)  BY <1>11, <4>1, <4>4 DEF CellTrue, L
      <4> QED  BY <4>2, <4>5, <4>6
    <3> QED  BY <3>1, <3>2
  <2> QED  BY <2>1, <2>2
<1>12. ASSUME InFiles(files, runs) PROVE \A k \in 1..Len(r) : CellIn(r[k])
  <2>1. run.file \in 1..L /\ run.offset >= 0  BY <1>1, <1>12 DEF InFiles, run, L, K
  <2>2. ASSUME NEW k \in 1..Len(r) PROVE CellIn(r[k])
    <3>1. CASE k <= done
      <4>1. k \in 1..done  BY <1>3, <1>8, <3>1
      <4>2. CellIn(q[k])  BY <1>12, <4>1 DEF Filled, done
      <4> QED  BY <1>8, <4>1, <4>2
    <3>2. CASE ~ (k <= done)
      <4>1. PICK j \in 1..Len(t) : k = done + j
        <5>1. k - done \in 1..Len(t) /\ k = done + (k - done)  BY <1>3, <1>8, <3>2
        <5> QED  BY <5>1
      <4>2. PICK c : c = r[k]  OBVIOUS
      <4>3. c = t[j]  BY <1>8, <4>1, <4>2
      <4>4. c.file = run.file /\ c.offset = run.offset + j - 1  BY <1>4, <4>3
      <4>5. c.offset >= 0  BY <1>2, <2>1, <4>1, <4>4 DEF run
      <4> QED  BY <2>1, <4>2, <4>4, <4>5 DEF CellIn, L
    <3> QED  BY <3>1, <3>2
  <2> QED  BY <2>2
<1>13. CASE run.file \notin 1..L /\ n + 1 = K /\ Reached(files, runs, w, n) < w + s
  <2>1. done < s  BY <1>3, <1>10, <1>13
  <2>2. m = 1
    <3>1. run.file \notin DOMAIN files  BY <1>13 DEF L
    <3>2. s - done >= 1 /\ s - done \in Int  BY <1>3, <1>10, <2>1
    <3> QED  BY <3>1, <3>2 DEF m, Amount, Lowest
  <2>3. Len(t) = 1  BY <1>4, <2>2
  <2>4. Len(t) <= s - done  BY <1>3, <1>10, <2>1, <2>3
  <2>5. Len(r) <= s /\ \A k \in 1..Len(r) : r[k].address = w + k - 1 /\ CellTrue(r[k])
    BY <1>11, <1>13, <2>4
  <2>6. Len(r) >= 1 /\ r[Len(r)].file \notin 1..L
    <3>1. 1 \in 1..Len(t) /\ Len(r) = done + 1  BY <1>8, <2>3
    <3>2. r[done + 1] = t[1] /\ t[1].file = run.file  BY <1>4, <1>8, <3>1
    <3> QED  BY <1>3, <1>13, <3>1, <3>2
  <2>7. ~ (n + 1 < K)  BY <1>1, <1>13
  <2>8. Filled(b, runs, r, n + 1)
    BY <1>8, <1>13, <1>12, <2>5, <2>6, <2>7 DEF Filled, w, s, K, L, run
  <2> QED  BY <1>7, <2>8 DEF t, run, done
<1>14. CASE /\ RunIn(files, run)
            /\ From(files, run) = Reached(files, runs, w, n)
            /\ n + 1 < K => Reached(files, runs, w, n + 1) <= w + s
            /\ n + 1 = K => Reached(files, runs, w, n + 1) >= w + s
  <2>1. PICK f, o, z, a : f = run.file /\ o = run.offset /\ z = files[f] /\ a = Starts(files)[f]
    OBVIOUS
  <2>2. f \in 1..L /\ o \in Int /\ o < z  BY <1>14, <2>1 DEF RunIn, L
  <2>3. z \in Nat /\ a \in Nat
    <3>1. f \in 1..L+1  BY <1>6, <2>2
    <3> QED  BY <2>1, <2>2, <3>1, StartsFacts DEF L
  <2>4. a + o = w + done  BY <1>3, <1>14, <2>1 DEF From
  <2>5. Reached(files, runs, w, n + 1) = a + z  BY <1>9, <2>1 DEF Upto
  <2>6. m = IF s - done <= z - o THEN s - done ELSE z - o
    <3>1. f \in DOMAIN files  BY <2>2 DEF L
    <3> QED  BY <2>1, <3>1 DEF m, Amount, Lowest
  <2>7. /\ Len(t) \in Nat /\ Len(t) <= s - done /\ Len(t) <= z - o
        /\ n + 1 < K => w + (done + Len(t)) = a + z
        /\ n + 1 = K => done + Len(t) = s
    <3>1. z - o > 0 /\ z - o \in Int /\ s - done \in Nat  BY <1>3, <1>10, <2>2, <2>3
    <3>2. Len(t) = m /\ m \in Nat /\ m <= s - done /\ m <= z - o  BY <1>4, <2>6, <3>1
    <3>3. n + 1 < K => a + z <= w + s  BY <1>14, <2>5
    <3>4. n + 1 = K => a + z >= w + s  BY <1>14, <2>5
    <3>5. a + z <= w + s => w + (done + m) = a + z
      <4>1. SUFFICES ASSUME a + z <= w + s PROVE w + (done + m) = a + z
        OBVIOUS
      <4>2. z - o <= s - done  BY <1>3, <1>10, <2>2, <2>3, <2>4, <4>1
      <4>3. m = z - o
        <5>1. s - done <= z - o => s - done = z - o  BY <3>1, <4>2
        <5> QED  BY <2>6, <5>1
      <4> QED  BY <1>3, <1>10, <2>2, <2>3, <2>4, <4>3
    <3>6. a + z >= w + s => done + m = s
      <4>1. SUFFICES ASSUME a + z >= w + s PROVE done + m = s
        OBVIOUS
      <4>2. s - done <= z - o  BY <1>3, <1>10, <2>2, <2>3, <2>4, <4>1
      <4>3. m = s - done  BY <2>6, <4>2
      <4> QED  BY <1>3, <1>10, <4>3
    <3> QED  BY <3>2, <3>3, <3>4, <3>5, <3>6
  <2>8. \A k \in 1..Len(t) : o + k - 1 < z /\ a + (o + k - 1) = w + done + k - 1
    <3> SUFFICES ASSUME NEW k \in 1..Len(t)
                 PROVE  o + k - 1 < z /\ a + (o + k - 1) = w + done + k - 1
      OBVIOUS
    <3>1. PICK e : e = Len(t)  OBVIOUS
    <3>2. k \in 1..e /\ e \in Nat /\ e <= z - o  BY <2>7, <3>1
    <3> QED  BY <1>3, <1>10, <2>2, <2>3, <2>4, <3>2
  <2>9. Len(r) <= s /\ \A k \in 1..Len(r) : r[k].address = w + k - 1 /\ CellTrue(r[k])
    BY <1>11, <2>1, <2>7, <2>8
  <2>10. /\ n + 1 < K => w + Len(r) = Reached(files, runs, w, n + 1)
         /\ n + 1 = K => Len(r) = s
    BY <1>8, <2>5, <2>7
  <2>11. Filled(b, runs, r, n + 1)
    BY <1>8, <1>12, <2>1, <2>2, <2>9, <2>10 DEF Filled, w, s, K, L, run
  <2> QED  BY <1>7, <2>11 DEF t, run, done
<1> QED  BY <1>5, <1>13, <1>14

LEMMA CellsOfFacts ==
  ASSUME files \in Seq(Nat), NEW b, b.where \in Nat, b.size \in Nat \ {0},
         NEW runs, Located(files, b.where, b.size, runs)
  PROVE  Filled(b, runs, CellsOf(b, runs), Len(runs))
<1> DEFINE K == Len(runs)
           S == Seq(Cell)
           Step(n, x) == x \o CellsOfRun(b, runs[n], Len(x))
           step == [n \in 0..K |-> [x \in S |-> IF n = 0 THEN x ELSE Step(n, x)]]
           Def(g) == g = [n \in 0..K |-> IF n = 0 THEN <<>> ELSE Step(n, g[n - 1])]
<1>1. K \in Nat /\ runs \in Seq(Run) /\ runs # <<>> /\ K # 0 /\ <<>> \in S
  <2>1. runs \in Seq(Run) /\ runs # <<>>  BY DEF Located
  <2>2. K \in Nat /\ K # 0 /\ <<>> \in S  BY <2>1
  <2> QED  BY <2>1, <2>2
<1>2. ASSUME NEW n \in 1..K, NEW x \in S PROVE Step(n, x) \in S
  <2>1. PICK run, d : run = runs[n] /\ d = Len(x)  OBVIOUS
  <2>2. run \in Run /\ d \in Nat  BY <1>1, <2>1
  <2>3. CellsOfRun(b, run, d) \in S  BY <2>2, CellsOfRunFacts
  <2>4. PICK t : t = CellsOfRun(b, run, d)  OBVIOUS
  <2>5. x \o t \in Seq(Cell)  BY <2>3, <2>4, JoinedFacts
  <2> QED  BY <2>1, <2>4, <2>5
<1>3. Recursion(0, K, S, <<>>, step)
  <2> HIDE DEF S, Step
  <2>1. \A n \in 0..K : n # 0 => n \in 1..K  BY <1>1
  <2>2. step \in [0..K -> [S -> S]]  BY <1>2, <2>1
  <2> QED  BY <1>1, <2>2 DEF Recursion
<1>4. PICK g : Follows(g, 0, K, S, <<>>, step)
  <2> HIDE DEF K, S, step
  <2> QED  BY <1>3, RecursionExists
<1>5. /\ g \in [0..K -> S] /\ g[0] = <<>>
      /\ \A n \in 1..K : g[n] = Step(n, g[n-1])
  <2> HIDE DEF S, Step
  <2>1. g \in [0..K -> S] /\ g[0] = <<>> /\ \A n \in 1..K : g[n] = step[n][g[n-1]]
    <3> HIDE DEF step
    <3> QED  BY <1>1, <1>4 DEF Follows
  <2>2. ASSUME NEW n \in 1..K PROVE g[n] = Step(n, g[n-1])
    <3>1. n \in 0..K /\ n - 1 \in 0..K /\ n # 0  BY <1>1
    <3>2. g[n-1] \in S  BY <2>1, <3>1
    <3> QED  BY <2>1, <3>1, <3>2
  <2> QED  BY <2>1, <2>2
<1>6. Def(g)
  <2> HIDE DEF S, Step
  <2> QED  BY <1>1, <1>5
<1> DEFINE v == CHOOSE u : Def(u)
<1>7. Def(v)
  <2> HIDE DEF Def
  <2> QED  BY <1>6
<1> HIDE DEF v, Def
<1>8. CellsOf(b, runs) = v[K]
  BY DEF CellsOf, v, Def
<1>9. v[0] = <<>> /\ \A n \in 0..K : n # 0 => v[n] = Step(n, v[n-1])
  <2> HIDE DEF Step
  <2>1. v = [n \in 0..K |-> IF n = 0 THEN <<>> ELSE Step(n, v[n - 1])]  BY <1>7 DEF Def
  <2>2. PICK u : u = v  OBVIOUS
  <2>3. u = [n \in 0..K |-> IF n = 0 THEN <<>> ELSE Step(n, u[n - 1])]  BY <2>1, <2>2
  <2>4. 0 \in 0..K  BY <1>1
  <2> HIDE DEF K
  <2>5. u[0] = <<>> /\ \A n \in 0..K : n # 0 => u[n] = Step(n, u[n-1])
    BY <2>3, <2>4
  <2> QED  BY <2>2, <2>5
<1> DEFINE T == {n \in Nat : n <= K => Filled(b, runs, v[n], n)}
<1>10. T = Nat
  <2>1. 0 \in T
    <3>1. PICK e : e = <<>>  OBVIOUS
    <3>2. e \in Seq(Cell) /\ Len(e) = 0  BY <3>1
    <3>3. Len(e) <= b.size /\ \A k \in 1..Len(e) : FALSE  BY <3>2
    <3>4. b.where + Len(e) = Reached(files, runs, b.where, 0)  BY <3>2 DEF Reached
    <3>5. Filled(b, runs, e, 0)  BY <1>1, <3>2, <3>3, <3>4 DEF Filled
    <3> QED  BY <1>9, <3>1, <3>5
  <2>2. ASSUME NEW n \in T PROVE n + 1 \in T
    <3> SUFFICES ASSUME n + 1 <= K PROVE Filled(b, runs, v[n+1], n + 1)
      OBVIOUS
    <3>1. n \in Nat /\ n \in 0..K-1 /\ n + 1 \in 0..K /\ n + 1 # 0 /\ (n + 1) - 1 = n
          /\ Filled(b, runs, v[n], n)
      BY <1>1
    <3>2. v[n+1] = v[n] \o CellsOfRun(b, runs[n+1], Len(v[n]))  BY <1>9, <3>1
    <3>3. PICK q : q = v[n]  OBVIOUS
    <3>4. Filled(b, runs, q \o CellsOfRun(b, runs[n+1], Len(q)), n + 1)
      BY <3>1, <3>3, FillsOn
    <3> QED  BY <3>2, <3>3, <3>4
  <2> HIDE DEF T
  <2> QED  BY <2>1, <2>2, NatSetInduction DEF T
<1>11. K \in T  BY <1>1, <1>10
<1> QED  BY <1>1, <1>8, <1>11

\* The cells of some blocks: each is in one of them, and where it belongs.
InBlocks(blocks, n, c) ==
    /\ CellTrue(c)
    /\ \E m \in 1..n : c.address \in blocks[m].where .. blocks[m].where + blocks[m].size - 1

\* Every byte of the first n blocks has its cell, unless a cell is in no file.
Covered(blocks, n, q) ==
    \/ \E k \in 1..Len(q) : q[k].file \notin 1..Len(files)
    \/ \A m \in 1..n : \A address \in blocks[m].where .. blocks[m].where + blocks[m].size - 1 :
          \E k \in 1..Len(q) : q[k].address = address

\* The cells of the first block are in the order of its bytes.
Ordered(blocks, n, q) ==
    n = 1 => /\ \A k \in 1..Len(q) : q[k].address = blocks[1].where + k - 1
             /\ Len(q) = blocks[1].size \/ \E k \in 1..Len(q) : q[k].file \notin 1..Len(files)

\* The cells of the first n blocks are all there, unless describeLocation has put one
\* after a block that it cannot deal with.
Overshot(blocks, n) == \E m \in 1..n : m < n /\ Overshoots(files, blocks[m])
Reachable(blocks, n, q) == Overshot(blocks, n) \/ \A k \in 1..Len(q) : CellIn(q[k])

LEMMA CellsOfBlocksFacts ==
  ASSUME files \in Seq(Nat), NEW S, NEW blocks \in Seq(S),
         \A n \in 1..Len(blocks) : BlockIn(files, blocks[n])
  PROVE  LET q == CellsOfBlocks(blocks)
         IN  /\ q \in Seq(Cell)
             /\ \A k \in 1..Len(q) : InBlocks(blocks, Len(blocks), q[k])
             /\ Covered(blocks, Len(blocks), q)
             /\ Ordered(blocks, Len(blocks), q)
             /\ Reachable(blocks, Len(blocks), q)
<1> DEFINE K == Len(blocks)
           A == Seq(Cell)
           CellsAt(n) == CellsOf(blocks[n], Locations(files, blocks)[n].runs)
           Step(n, x) == x \o CellsAt(n)
           step == [n \in 0..K |-> [x \in A |-> IF n = 0 THEN x ELSE Step(n, x)]]
           Def(g) == g = [n \in 0..K |-> IF n = 0 THEN <<>> ELSE Step(n, g[n - 1])]
<1>1. K \in Nat /\ <<>> \in A  OBVIOUS
<1>2. ASSUME NEW n \in 1..K
      PROVE  LET w == blocks[n].where  s == blocks[n].size  q == CellsAt(n)
             IN  /\ w \in Nat /\ s \in Nat \ {0} /\ q \in A /\ Len(q) <= s
                 /\ \A k \in 1..Len(q) : q[k].address = w + k - 1 /\ CellTrue(q[k])
                 /\ Len(q) = s \/ (Len(q) >= 1 /\ q[Len(q)].file \notin 1..Len(files))
                 /\ ~ Overshot(blocks, n) => \A k \in 1..Len(q) : CellIn(q[k])
  <2>1. PICK b, runs : b = blocks[n] /\ runs = Locations(files, blocks)[n].runs  OBVIOUS
  <2>2. Located(files, b.where, b.size, runs)  BY <2>1, LocationsFacts
  <2>3. b.where \in Nat /\ b.size \in Nat \ {0}  BY <2>1 DEF BlockIn
  <2>4. Filled(b, runs, CellsOf(b, runs), Len(runs))  BY <2>2, <2>3, CellsOfFacts
  <2>5. PICK q : q = CellsAt(n)  OBVIOUS
  <2>6. Filled(b, runs, q, Len(runs))  BY <2>1, <2>4, <2>5
  <2>7. ASSUME ~ Overshot(blocks, n) PROVE \A k \in 1..Len(q) : CellIn(q[k])
    <3>1. \A m \in 1..Len(blocks) : m < n => ~ Overshoots(files, blocks[m])
      <4> SUFFICES ASSUME NEW m \in 1..Len(blocks), m < n PROVE ~ Overshoots(files, blocks[m])
        OBVIOUS
      <4>1. m \in 1..n  BY <1>1
      <4> QED  BY <2>7, <4>1 DEF Overshot
    <3>2. InFiles(files, runs)  BY <2>1, <3>1, LocationsExact
    <3> QED  BY <2>6, <3>2 DEF Filled
  <2> QED  BY <2>1, <2>3, <2>5, <2>6, <2>7 DEF Filled
<1> HIDE DEF CellsAt
<1>3. ASSUME NEW n \in 1..K, NEW x \in A
      PROVE  Step(n, x) \in A /\ Joined(x, CellsAt(n), Step(n, x))
  <2>1. PICK t : t = CellsAt(n)  OBVIOUS
  <2>2. t \in A  BY <1>2, <2>1
  <2> QED  BY <2>1, <2>2, JoinedFacts
<1> HIDE DEF Step
<1>4. Recursion(0, K, A, <<>>, step)
  <2> HIDE DEF A
  <2>1. \A n \in 0..K : n # 0 => n \in 1..K  BY <1>1
  <2>2. step \in [0..K -> [A -> A]]  BY <1>3, <2>1
  <2> QED  BY <1>1, <2>2 DEF Recursion
<1>5. PICK g : Follows(g, 0, K, A, <<>>, step)
  <2> HIDE DEF K, A, step
  <2> QED  BY <1>4, RecursionExists
<1>6. /\ g \in [0..K -> A] /\ g[0] = <<>>
      /\ \A n \in 1..K : g[n] = Step(n, g[n-1])
  <2> HIDE DEF A
  <2>1. g \in [0..K -> A] /\ g[0] = <<>> /\ \A n \in 1..K : g[n] = step[n][g[n-1]]
    <3> HIDE DEF step
    <3> QED  BY <1>1, <1>5 DEF Follows
  <2>2. ASSUME NEW n \in 1..K PROVE g[n] = Step(n, g[n-1])
    <3>1. n \in 0..K /\ n - 1 \in 0..K /\ n # 0  BY <1>1
    <3>2. g[n-1] \in A  BY <2>1, <3>1
    <3> QED  BY <2>1, <3>1, <3>2
  <2> QED  BY <2>1, <2>2
<1>7. Def(g)
  <2> HIDE DEF A
  <2> QED  BY <1>1, <1>6
<1> DEFINE v == CHOOSE u : Def(u)
<1>8. Def(v)
  <2> HIDE DEF Def
  <2> QED  BY <1>7
<1> HIDE DEF v, Def
<1>9. CellsOfBlocks(blocks) = v[K]
  BY DEF CellsOfBlocks, v, Def, Step, CellsAt
<1>10. v[0] = <<>> /\ \A n \in 0..K : n # 0 => v[n] = Step(n, v[n-1])
  <2>1. v = [n \in 0..K |-> IF n = 0 THEN <<>> ELSE Step(n, v[n - 1])]  BY <1>8 DEF Def
  <2>2. PICK u : u = v  OBVIOUS
  <2>3. u = [n \in 0..K |-> IF n = 0 THEN <<>> ELSE Step(n, u[n - 1])]  BY <2>1, <2>2
  <2>4. 0 \in 0..K  BY <1>1
  <2> HIDE DEF K
  <2>5. u[0] = <<>> /\ \A n \in 0..K : n # 0 => u[n] = Step(n, u[n-1])
    BY <2>3, <2>4
  <2> QED  BY <2>2, <2>5
<1> DEFINE Good(q, n) == /\ q \in A
                         /\ \A k \in 1..Len(q) : InBlocks(blocks, n, q[k])
                         /\ Covered(blocks, n, q)
                         /\ Ordered(blocks, n, q)
                         /\ Reachable(blocks, n, q)
           T == {n \in Nat : n <= K => Good(v[n], n)}
<1>11. T = Nat
  <2>1. 0 \in T
    <3>1. PICK e : e = <<>>  OBVIOUS
    <3>2. e \in Seq(Cell) /\ Len(e) = 0  BY <3>1
    <3>3. Good(e, 0)  BY <3>2 DEF Covered, Ordered, Reachable
    <3> HIDE DEF Good
    <3> QED  BY <1>10, <3>1, <3>3
  <2>2. ASSUME NEW n \in T PROVE n + 1 \in T
    <3> SUFFICES ASSUME n + 1 <= K PROVE Good(v[n+1], n + 1)
      OBVIOUS
    <3>1. n \in Nat /\ n + 1 \in 0..K /\ n + 1 \in 1..K /\ n + 1 # 0 /\ (n + 1) - 1 = n
      BY <1>1
    <3>2. Good(v[n], n)  BY <3>1
    <3>3. PICK x, t, q : x = v[n] /\ t = CellsAt(n+1) /\ q = v[n+1]  OBVIOUS
    <3>4. q \in A /\ Joined(x, t, q)
      <4>1. q = Step(n + 1, x)  BY <1>10, <3>1, <3>3
      <4> QED  BY <1>3, <3>1, <3>2, <3>3, <4>1
    <3>5. /\ Len(x) \in Nat /\ Len(t) \in Nat /\ Len(q) = Len(x) + Len(t)
          /\ \A k \in 1..Len(x) : q[k] = x[k]
      BY <3>4 DEF Joined
    <3>6. \A k \in 1..Len(t) : q[Len(x) + k] = t[k]  BY <3>4 DEF Joined
    <3>7. PICK w, s : w = blocks[n+1].where /\ s = blocks[n+1].size  OBVIOUS
    <3>8. /\ w \in Nat /\ s \in Nat \ {0} /\ t \in A /\ Len(t) <= s
          /\ \A k \in 1..Len(t) : t[k].address = w + k - 1 /\ CellTrue(t[k])
          /\ Len(t) = s \/ (Len(t) >= 1 /\ t[Len(t)].file \notin 1..Len(files))
          /\ ~ Overshot(blocks, n + 1) => \A k \in 1..Len(t) : CellIn(t[k])
      BY <1>2, <3>1, <3>3, <3>7
    <3>9. ASSUME NEW k \in 1..Len(q) PROVE InBlocks(blocks, n + 1, q[k])
      <4>1. CASE k <= Len(x)
        <5>1. k \in 1..Len(x)  BY <3>5, <4>1
        <5>2. InBlocks(blocks, n, x[k]) /\ q[k] = x[k]  BY <3>2, <3>3, <3>5, <5>1
        <5>3. 1..n \subseteq 1..n+1  BY <3>1
        <5> QED  BY <5>2, <5>3 DEF InBlocks
      <4>2. CASE ~ (k <= Len(x))
        <5>1. PICK j \in 1..Len(t) : k = Len(x) + j
          <6>1. k - Len(x) \in 1..Len(t) /\ k = Len(x) + (k - Len(x))  BY <3>5, <4>2
          <6> QED  BY <6>1
        <5>2. PICK c : c = q[k]  OBVIOUS
        <5>3. c = t[j]  BY <3>6, <5>1, <5>2
        <5>4. c.address = w + j - 1 /\ CellTrue(c)  BY <3>8, <5>3
        <5>5. c.address \in w .. w + s - 1  BY <3>5, <3>8, <5>4
        <5>6. n + 1 \in 1..n+1  BY <3>1
        <5>7. InBlocks(blocks, n + 1, c)  BY <3>7, <5>4, <5>5, <5>6 DEF InBlocks
        <5> QED  BY <5>2, <5>7
      <4> QED  BY <4>1, <4>2
    <3>10. Covered(blocks, n + 1, q)
      <4>1. CASE \E k \in 1..Len(x) : x[k].file \notin 1..Len(files)
        <5>1. PICK k \in 1..Len(x) : x[k].file \notin 1..Len(files)  BY <4>1
        <5>2. k \in 1..Len(q) /\ q[k] = x[k]  BY <3>5
        <5> QED  BY <5>1, <5>2 DEF Covered
      <4>2. CASE Len(t) >= 1 /\ t[Len(t)].file \notin 1..Len(files)
        <5>1. Len(t) \in 1..Len(t) /\ Len(x) + Len(t) \in 1..Len(q)  BY <3>5, <4>2
        <5>2. q[Len(x) + Len(t)] = t[Len(t)]  BY <3>6, <5>1
        <5> QED  BY <4>2, <5>1, <5>2 DEF Covered
      <4>3. CASE /\ ~ (\E k \in 1..Len(x) : x[k].file \notin 1..Len(files))
                 /\ Len(t) = s
        <5>1. ASSUME NEW m \in 1..n+1,
                     NEW address \in blocks[m].where .. blocks[m].where + blocks[m].size - 1
              PROVE  \E k \in 1..Len(q) : q[k].address = address
          <6>1. CASE m <= n
            <7>1. m \in 1..n  BY <3>1, <6>1
            <7>2. PICK k \in 1..Len(x) : x[k].address = address
              BY <3>2, <3>3, <4>3, <7>1 DEF Covered
            <7>3. k \in 1..Len(q) /\ q[k] = x[k]  BY <3>5
            <7> QED  BY <7>2, <7>3
          <6>2. CASE ~ (m <= n)
            <7>1. m = n + 1  BY <3>1, <6>2
            <7>2. address \in w .. w + s - 1  BY <3>7, <7>1
            <7>3. address - w + 1 \in 1..Len(t) /\ w + (address - w + 1) - 1 = address
              BY <3>8, <4>3, <7>2
            <7>4. PICK j : j = address - w + 1  OBVIOUS
            <7>5. j \in 1..Len(t) /\ t[j].address = address  BY <3>8, <7>3, <7>4
            <7>6. Len(x) + j \in 1..Len(q) /\ q[Len(x) + j] = t[j]
              <8>1. PICK l, o : l = Len(x) /\ o = Len(t)  OBVIOUS
              <8>2. l \in Nat /\ o \in Nat /\ Len(q) = l + o /\ j \in 1..o
                BY <3>5, <7>5, <8>1
              <8>3. l + j \in 1..l+o  BY <8>2
              <8> QED  BY <3>6, <7>5, <8>1, <8>2, <8>3
            <7> QED  BY <7>5, <7>6
          <6> QED  BY <6>1, <6>2
        <5> QED  BY <5>1 DEF Covered
      <4> QED  BY <3>8, <4>1, <4>2, <4>3
    <3>11. Ordered(blocks, n + 1, q)
      <4> SUFFICES ASSUME n + 1 = 1
                   PROVE  /\ \A k \in 1..Len(q) : q[k].address = blocks[1].where + k - 1
                          /\ \/ Len(q) = blocks[1].size
                             \/ \E k \in 1..Len(q) : q[k].file \notin 1..Len(files)
        BY DEF Ordered
      <4>1. n = 0  BY <3>1
      <4>2. Len(x) = 0
        <5>1. PICK e : e = <<>>  OBVIOUS
        <5>2. Len(e) = 0  BY <5>1
        <5> QED  BY <1>10, <3>3, <4>1, <5>1, <5>2
      <4>3. Len(q) = Len(t) /\ \A k \in 1..Len(t) : q[k] = t[k]
        <5>1. Len(q) = Len(t)  BY <3>5, <4>2
        <5>2. ASSUME NEW k \in 1..Len(t) PROVE q[k] = t[k]
          <6>1. Len(x) + k = k  BY <3>5, <4>2
          <6> QED  BY <3>6, <6>1
        <5> QED  BY <5>1, <5>2
      <4>4. w = blocks[1].where /\ s = blocks[1].size  BY <3>7
      <4>5. \A k \in 1..Len(q) : q[k].address = w + k - 1  BY <3>8, <4>3
      <4>6. Len(q) = s \/ \E k \in 1..Len(q) : q[k].file \notin 1..Len(files)
        <5>1. CASE Len(t) = s  BY <4>3, <5>1
        <5>2. CASE Len(t) >= 1 /\ t[Len(t)].file \notin 1..Len(files)
          <6>1. Len(t) \in 1..Len(t)  BY <3>5, <5>2
          <6> QED  BY <4>3, <5>2, <6>1
        <5> QED  BY <3>8, <5>1, <5>2
      <4> QED  BY <4>4, <4>5, <4>6
    <3>12. Reachable(blocks, n + 1, q)
      <4> SUFFICES ASSUME ~ Overshot(blocks, n + 1), NEW k \in 1..Len(q) PROVE CellIn(q[k])
        BY DEF Reachable
      <4>1. ~ Overshot(blocks, n)
        <5>1. \A m \in 1..n : m \in 1..n+1 /\ (m < n => m < n + 1)  BY <3>1
        <5> QED  BY <5>1 DEF Overshot
      <4>2. CASE k <= Len(x)
        <5>1. k \in 1..Len(x)  BY <3>5, <4>2
        <5> QED  BY <3>2, <3>3, <3>5, <4>1, <5>1 DEF Reachable
      <4>3. CASE ~ (k <= Len(x))
        <5>1. PICK j \in 1..Len(t) : k = Len(x) + j
          <6>1. k - Len(x) \in 1..Len(t) /\ k = Len(x) + (k - Len(x))  BY <3>5, <4>3
          <6> QED  BY <6>1
        <5> QED  BY <3>6, <3>8, <5>1
      <4> QED  BY <4>2, <4>3
    <3> QED  BY <3>3, <3>4, <3>9, <3>10, <3>11, <3>12
  <2> HIDE DEF T
  <2> QED  BY <2>1, <2>2, NatSetInduction DEF T
<1>12. K \in T  BY <1>1, <1>11
<1> HIDE DEF InBlocks, Covered, Ordered, Reachable
<1> QED  BY <1>1, <1>9, <1>12

\* What a torrent has: some bytes in some files.
LEMMA LayoutFacts ==
  ASSUME files \in Layouts
  PROVE  /\ files \in Seq(Nat) /\ TorrentSize(files) > 0 /\ DOMAIN files = 1..Len(files)
         /\ Len(files) \in Nat /\ PieceCount(files) \in Nat
<1>1. files \in Seq(Nat) /\ TorrentSize(files) > 0  BY LayoutAssumption
<1>2. DOMAIN files = 1..Len(files) /\ Len(files) \in Nat  BY <1>1
<1>3. PieceCount(files) \in Nat
  <2>1. Len(files) + 1 \in 1..Len(files)+1  BY <1>2
  <2>2. TorrentSize(files) \in Nat  BY <1>1, <2>1, StartsFacts DEF TorrentSize
  <2>3. PieceSize \in Nat \ {0}  BY SizeAssumption
  <2>4. TorrentSize(files) + PieceSize - 1 \in Nat  BY <2>2, <2>3
  <2> QED  BY <2>3, <2>4, DivFacts DEF PieceCount
<1> QED  BY <1>1, <1>2, <1>3

\* The cells of the one request for a piece to verify.
LEMMA VerifyCellsFacts ==
  ASSUME files \in Layouts, NEW i \in Pieces
  PROVE  LET q == VerifyCells(i)
         IN  /\ q \in Seq(Cell) /\ Len(q) = SizeOfPiece(files, i)
             /\ \A k \in 1..Len(q) : /\ CellTrue(q[k]) /\ CellIn(q[k])
                                     /\ q[k].address = VerifyOffset(i) + k - 1
<1> DEFINE w == VerifyOffset(i)
           s == SizeOfPiece(files, i)
           b == [where |-> w, size |-> s]
           runs == Locate(files, w, s, NoHint).runs
<1>1. files \in Seq(Nat) /\ TorrentSize(files) > 0  BY LayoutFacts
<1>2. i \in 0..PieceCount(files)-1  BY DEF Pieces
<1>3. /\ i * PieceSize \in Nat /\ s \in Nat \ {0} /\ i * PieceSize + s <= TorrentSize(files)
  BY <1>1, <1>2, PieceFacts
<1>4. TorrentSize(files) \in Nat
  <2>1. Len(files) + 1 \in 1..Len(files)+1  BY <1>1
  <2> QED  BY <1>1, <2>1, StartsFacts DEF TorrentSize
<1>5. w \in Nat /\ w + s <= TorrentSize(files) /\ w < TorrentSize(files)
  <2>1. OffsetMod \in Nat \ {0}  BY ModAssumption, SizeAssumption
  <2>2. PICK x : x = i * PieceSize  OBVIOUS
  <2>3. w \in Nat /\ w <= x  BY <1>3, <2>1, <2>2, ModFacts DEF VerifyOffset
  <2> HIDE DEF w, s
  <2> QED  BY <1>3, <1>4, <2>2, <2>3
<1>6. b.where = w /\ b.size = s  OBVIOUS
<1>7. VerifyCells(i) = CellsOf(b, runs)  BY DEF VerifyCells
<1> HIDE DEF b, w, s
<1>8. HintTrue(files, NoHint) /\ Found(files, w, NoHint) # {}
  BY <1>1, <1>5, NoHintTrue, NoHintFinds
<1>9. Located(files, w, s, runs) /\ \A n \in 1..Len(runs) : runs[n].file \in 1..Len(files)
  BY <1>1, <1>3, <1>5, <1>8, LocateFacts
<1>10. InFiles(files, runs)
  <2>1. BlockIn(files, b)  BY <1>3, <1>5, <1>6 DEF BlockIn
  <2>2. InFiles(files, Locate(files, b.where, b.size, NoHint).runs)
    BY <1>1, <2>1, NoHintExact, LocateExact
  <2> QED  BY <1>6, <2>2
<1> HIDE DEF runs
<1>11. PICK q : q = CellsOf(b, runs)  OBVIOUS
<1>12. Filled(b, runs, q, Len(runs))
  BY <1>1, <1>3, <1>5, <1>6, <1>9, <1>11, CellsOfFacts
<1>13. Len(runs) \in 1..Len(runs)
  <2>1. runs \in Seq(Run) /\ runs # <<>>  BY <1>9 DEF Located
  <2> QED  BY <2>1
<1>14. runs[Len(runs)].file \in 1..Len(files)  BY <1>9, <1>13
<1> QED  BY <1>6, <1>7, <1>11, <1>12, <1>14, <1>10 DEF Filled, s, w

----------------------------------------------------------------------------
\* What is stored where, for any files and contents.

FileFor(fs, address) == CHOOSE f \in FilesTouched(fs, address, 1) : TRUE
StoredIn(fs, d, address) ==
    LET f == FileFor(fs, address)
        k == address - Starts(fs)[f] + 1
    IN  IF k <= Len(d[f]) THEN d[f][k] ELSE Zero
OnDiskIn(fs, d, i) == \A address \in PieceAddresses(fs, i) : StoredIn(fs, d, address) = address

LEMMA StoredIs ==
  ASSUME NEW fs \in Seq(Nat), NEW d, NEW f \in 1..Len(fs), NEW o \in Nat, o < fs[f]
  PROVE  StoredIn(fs, d, Starts(fs)[f] + o) = IF o + 1 <= Len(d[f]) THEN d[f][o+1] ELSE Zero
<1> DEFINE a == Starts(fs)[f] + o
<1>1. /\ Len(fs) \in Nat /\ Starts(fs)[f] \in Nat /\ fs[f] \in Nat /\ a \in Nat
  <2>1. Len(fs) \in Nat /\ fs[f] \in Nat  BY StartsFacts
  <2>2. f \in 1..Len(fs)+1  BY <2>1
  <2>3. Starts(fs)[f] \in Nat  BY <2>2, StartsFacts
  <2> QED  BY <2>1, <2>3
<1>2. DOMAIN fs = 1..Len(fs)  OBVIOUS
<1>3. Starts(fs)[f] <= a /\ a < Starts(fs)[f] + fs[f] /\ fs[f] > 0  BY <1>1
<1> HIDE DEF a
<1>4. f \in FilesTouched(fs, a, 1)  BY <1>1, <1>2, <1>3 DEF FilesTouched
<1>5. ASSUME NEW g \in FilesTouched(fs, a, 1) PROVE g = f
  <2>1. g \in 1..Len(fs) /\ Starts(fs)[g] < a + 1 /\ Starts(fs)[g] + fs[g] > a
    BY <1>2 DEF FilesTouched
  <2>2. g \in 1..Len(fs)+1 /\ fs[g] \in Nat  BY <1>1, <2>1, StartsFacts
  <2>3. Starts(fs)[g] \in Nat  BY <2>2, StartsFacts
  <2>4. Starts(fs)[g] <= a /\ a < Starts(fs)[g] + fs[g]  BY <1>1, <2>1, <2>2, <2>3
  <2> QED  BY <1>1, <1>3, <2>1, <2>4, FileUnique
<1>6. FileFor(fs, a) = f  BY <1>4, <1>5 DEF FileFor
<1>7. a - Starts(fs)[f] + 1 = o + 1  BY <1>1 DEF a
<1>8. StoredIn(fs, d, a) = IF o + 1 <= Len(d[f]) THEN d[f][o+1] ELSE Zero
  BY <1>6, <1>7 DEF StoredIn
<1> QED  BY <1>8 DEF a

\* Every address is at some place of some file.
LEMMA AddressPlace ==
  ASSUME NEW fs \in Seq(Nat), TorrentSize(fs) > 0, NEW i \in 0..PieceCount(fs)-1,
         NEW address \in PieceAddresses(fs, i)
  PROVE  \E f \in 1..Len(fs), o \in Nat : o < fs[f] /\ address = Starts(fs)[f] + o
<1>1. /\ i * PieceSize \in Nat /\ SizeOfPiece(fs, i) \in Nat
      /\ i * PieceSize + SizeOfPiece(fs, i) <= TorrentSize(fs)
  BY PieceFacts
<1>2. TorrentSize(fs) \in Nat
  <2>1. Len(fs) + 1 \in 1..Len(fs)+1  OBVIOUS
  <2> QED  BY <2>1, StartsFacts DEF TorrentSize
<1>3. PICK a, s : a = i * PieceSize /\ s = SizeOfPiece(fs, i)  OBVIOUS
<1>4. address \in a .. a + s - 1  BY <1>3 DEF PieceAddresses
<1>5. address \in Nat /\ address < TorrentSize(fs)  BY <1>1, <1>2, <1>3, <1>4
<1>6. PICK f \in 1..Len(fs) : Starts(fs)[f] <= address /\ address < Starts(fs)[f] + fs[f]
  BY <1>5, PlaceHasFile
<1>7. Starts(fs)[f] \in Nat /\ fs[f] \in Nat
  <2>1. f \in 1..Len(fs)+1  OBVIOUS
  <2> QED  BY <2>1, StartsFacts
<1>8. PICK o : o = address - Starts(fs)[f]  OBVIOUS
<1>9. o \in Nat /\ o < fs[f] /\ address = Starts(fs)[f] + o
  <2>1. PICK p, z : p = Starts(fs)[f] /\ z = fs[f]  OBVIOUS
  <2>2. p \in Nat /\ z \in Nat /\ address \in Nat /\ p <= address /\ address < p + z /\ o = address - p
    BY <1>5, <1>6, <1>7, <1>8, <2>1
  <2>3. o \in Nat /\ o < z /\ address = p + o  BY <2>2
  <2> QED  BY <2>1, <2>3
<1> QED  BY <1>9

----------------------------------------------------------------------------
\* What a request does.

LEMMA PassableFacts ==
  ASSUME files \in Seq(Nat), NEW cells \in Seq(Cell), NEW reading \in BOOLEAN,
         NEW done \in Nat, done <= Passable(cells, reading)
  PROVE  /\ done <= Len(cells)
         /\ \A n \in 1..done : /\ cells[n].file \in 1..Len(files) /\ cells[n].offset >= 0
                               /\ reading => ~ Short(cells[n])
<1> DEFINE stuck == {n \in DOMAIN cells : \/ cells[n].file \notin DOMAIN files
                                          \/ cells[n].offset < 0
                                          \/ ~Openable(cells[n].file)
                                          \/ reading /\ Short(cells[n])}
<1>1. DOMAIN cells = 1..Len(cells) /\ Len(cells) \in Nat /\ DOMAIN files = 1..Len(files)
  OBVIOUS
<1>2. Passable(cells, reading) = IF stuck = {} THEN Len(cells) ELSE Smallest(stuck) - 1
  BY DEF Passable
<1>3. stuck \in SUBSET Nat /\ stuck \subseteq 1..Len(cells)  BY <1>1
<1>4. ASSUME NEW n \in 1..Len(cells), n \notin stuck
      PROVE  /\ cells[n].file \in 1..Len(files) /\ cells[n].offset >= 0
             /\ reading => ~ Short(cells[n])
  <2>1. cells[n] \in Cell  OBVIOUS
  <2>2. cells[n].offset \in Int  BY <2>1 DEF Cell
  <2>3. ~ (cells[n].offset < 0)  BY <1>1, <1>4
  <2>4. cells[n].file \in 1..Len(files) /\ (reading => ~ Short(cells[n]))  BY <1>1, <1>4
  <2> QED  BY <2>2, <2>3, <2>4
<1>5. done <= Len(cells) /\ \A n \in 1..done : n \notin stuck
  <2> HIDE DEF stuck
  <2>1. CASE stuck = {}  BY <1>2, <2>1
  <2>2. CASE stuck # {}
    <3>1. PICK x : x = Smallest(stuck)  OBVIOUS
    <3>2. x \in stuck /\ \A n \in stuck : x <= n  BY <1>3, <2>2, <3>1, SmallestFacts
    <3>3. x \in 1..Len(cells) /\ done <= x - 1  BY <1>2, <1>3, <2>2, <3>1, <3>2
    <3>4. done < x /\ done <= Len(cells)  BY <1>1, <3>3
    <3>5. \A n \in 1..done : ~ (x <= n)  BY <3>3, <3>4
    <3> QED  BY <3>2, <3>4, <3>5
  <2> QED  BY <2>1, <2>2
<1> HIDE DEF stuck
<1> QED  BY <1>1, <1>4, <1>5

Biggest(T) == CHOOSE e \in T : \A other \in T : other <= e

LEMMA BiggestFacts ==
  ASSUME NEW T \in SUBSET Nat, T # {}, NEW K \in Nat, \A n \in T : n <= K
  PROVE  Biggest(T) \in T /\ \A n \in T : n <= Biggest(T)
<1> DEFINE U == {K - n : n \in T}
<1>1. U \in SUBSET Nat /\ U # {}
  <2>1. \A n \in T : K - n \in Nat  OBVIOUS
  <2> QED  BY <2>1
<1> DEFINE x == Smallest(U)
<1>2. x \in U /\ \A u \in U : x <= u
  <2> HIDE DEF U
  <2> QED  BY <1>1, SmallestFacts
<1> HIDE DEF x
<1>3. PICK e \in T : x = K - e  BY <1>2
<1>4. ASSUME NEW n \in T PROVE n <= e
  <2>1. K - n \in U  OBVIOUS
  <2>2. K - e <= K - n  BY <1>2, <1>3, <2>1
  <2> QED  BY <2>2
<1> QED  BY <1>4 DEF Biggest

LEMMA SameStored ==
  /\ \A address : Stored(address) = StoredIn(files, disk, address)
  /\ \A i : OnDisk(i) <=> OnDiskIn(files, disk, i)
<1>1. ASSUME NEW address PROVE Stored(address) = StoredIn(files, disk, address)
  BY DEF Stored, FileAt, StoredIn, FileFor
<1> QED  BY <1>1 DEF OnDisk, OnDiskIn

\* Nothing is where it does not belong.
DiskTrue(fs, d) ==
    /\ DOMAIN d = DOMAIN fs
    /\ \A f \in 1..Len(fs) :
         /\ d[f] \in Seq(Int) /\ Len(d[f]) <= fs[f]
         /\ \A k \in 1..Len(d[f]) : d[f][k] \in {Zero, Bad, Starts(fs)[f] + k - 1}

\* The effect of a write: the cells that are dealt with hold what they should, the
\* others what they did, and no file gets longer than it ought to be.
LEMMA WrittenFacts ==
  ASSUME files \in Seq(Nat), DiskTrue(files, disk),
         NEW cells \in Seq(Cell), \A n \in 1..Len(cells) : CellTrue(cells[n]),
         NEW done \in Nat, done <= Passable(cells, FALSE), NEW good \in BOOLEAN
  PROVE  LET d == Written(cells, done, good)
         IN  /\ DiskTrue(files, d)
             /\ \A f \in 1..Len(files) :
                  /\ Len(disk[f]) <= Len(d[f])
                  /\ \A k \in 1..Len(disk[f]) :
                       (\A n \in 1..done : cells[n].file = f => cells[n].offset # k - 1)
                       => d[f][k] = disk[f][k]
             /\ \A n \in 1..done :
                  LET f == cells[n].file
                      k == cells[n].offset + 1
                  IN  /\ k \in 1..Len(d[f])
                      /\ d[f][k] = IF good THEN cells[n].address ELSE Bad
<1> DEFINE d == Written(cells, done, good)
           Inside(f) == {n \in 1..done : cells[n].file = f}
           Ends(f) == {cells[n].offset + 1 : n \in Inside(f)} \cup {Len(disk[f])}
           size(f) == Biggest(Ends(f))
           Here(f, k) == {n \in Inside(f) : cells[n].offset = k - 1}
           value(f, k) == IF Here(f, k) # {}
                          THEN IF good THEN cells[CHOOSE n \in Here(f, k) : TRUE].address ELSE Bad
                          ELSE IF k <= Len(disk[f]) THEN disk[f][k] ELSE Zero
<1>1. DOMAIN files = 1..Len(files) /\ Len(files) \in Nat /\ DOMAIN disk = 1..Len(files)
  BY DEF DiskTrue
<1>2. d = [f \in 1..Len(files) |-> [k \in 1..size(f) |-> value(f, k)]]
  BY <1>1 DEF Written, Biggest
<1>3. done <= Len(cells) /\ \A n \in 1..done : cells[n].file \in 1..Len(files) /\ cells[n].offset >= 0
  BY PassableFacts
<1>4. ASSUME NEW n \in 1..done
      PROVE  LET f == cells[n].file
                 o == cells[n].offset
             IN  /\ f \in 1..Len(files) /\ o \in Nat /\ cells[n].address \in Nat
                 /\ files[f] \in Nat /\ Starts(files)[f] \in Nat
                 /\ o < files[f] /\ Starts(files)[f] + o = cells[n].address
  <2>1. PICK c : c = cells[n]  OBVIOUS
  <2>2. n \in 1..Len(cells)  BY <1>3
  <2>3. c \in Cell /\ CellTrue(c) /\ c.file \in 1..Len(files) /\ c.offset >= 0
    BY <1>3, <2>1, <2>2
  <2>4. PICK f, o : f = c.file /\ o = c.offset  OBVIOUS
  <2>5. f \in 1..Len(files) /\ o \in Nat /\ c.address \in Nat  BY <2>3, <2>4 DEF Cell
  <2>6. f \in 1..Len(files)+1 /\ files[f] \in Nat  BY <1>1, <2>5
  <2>7. Starts(files)[f] \in Nat  BY <2>6, StartsFacts
  <2>8. o < files[f] /\ Starts(files)[f] + o = c.address  BY <2>3, <2>4 DEF CellTrue
  <2> QED  BY <2>1, <2>4, <2>5, <2>6, <2>7, <2>8
<1>5. ASSUME NEW f \in 1..Len(files)
      PROVE  /\ size(f) \in Nat /\ size(f) <= files[f] /\ Len(disk[f]) <= size(f)
             /\ Len(disk[f]) \in Nat /\ files[f] \in Nat
             /\ \A n \in Inside(f) : cells[n].offset + 1 <= size(f)
  <2>1. disk[f] \in Seq(Int) /\ Len(disk[f]) <= files[f] /\ files[f] \in Nat
    BY DEF DiskTrue
  <2>2. Len(disk[f]) \in Nat  BY <2>1
  <2>3. \A n \in Inside(f) : cells[n].offset + 1 \in Nat /\ cells[n].offset + 1 <= files[f]
    <3> SUFFICES ASSUME NEW n \in Inside(f)
                 PROVE  cells[n].offset + 1 \in Nat /\ cells[n].offset + 1 <= files[f]
      OBVIOUS
    <3>1. n \in 1..done /\ cells[n].file = f  OBVIOUS
    <3>2. PICK o : o = cells[n].offset  OBVIOUS
    <3>3. o \in Nat /\ o < files[f]  BY <1>4, <3>1, <3>2
    <3>4. PICK z : z = files[f]  OBVIOUS
    <3>5. o \in Nat /\ z \in Nat /\ o < z  BY <2>1, <3>3, <3>4
    <3>6. o + 1 \in Nat /\ o + 1 <= z  BY <3>5
    <3> QED  BY <3>2, <3>4, <3>6
  <2>4. Ends(f) \in SUBSET Nat /\ Ends(f) # {} /\ \A e \in Ends(f) : e <= files[f]
    <3> HIDE DEF Inside
    <3> QED  BY <2>1, <2>2, <2>3
  <2>5. PICK E : E = Ends(f)  OBVIOUS
  <2>6. Biggest(E) \in E /\ \A n \in E : n <= Biggest(E)
    BY <2>1, <2>4, <2>5, BiggestFacts
  <2>7. size(f) \in E /\ \A n \in E : n <= size(f)  BY <2>5, <2>6
  <2> HIDE DEF size
  <2>8. size(f) \in Nat /\ size(f) <= files[f]  BY <2>4, <2>5, <2>7
  <2>9. Len(disk[f]) \in E /\ \A n \in Inside(f) : cells[n].offset + 1 \in E
    <3> HIDE DEF Inside
    <3> QED  BY <2>5
  <2> QED  BY <2>1, <2>2, <2>7, <2>8, <2>9
<1> HIDE DEF d, size
<1>6. ASSUME NEW f \in 1..Len(files), NEW k \in 1..size(f)
      PROVE  /\ Here(f, k) # {} => value(f, k) = IF good THEN Starts(files)[f] + k - 1 ELSE Bad
             /\ Here(f, k) = {} => value(f, k) = IF k <= Len(disk[f]) THEN disk[f][k] ELSE Zero
  <2>1. CASE Here(f, k) # {}
    <3>1. PICK n : n = CHOOSE m \in Here(f, k) : TRUE  OBVIOUS
    <3>2. n \in Here(f, k)  BY <2>1, <3>1
    <3>3. n \in 1..done /\ cells[n].file = f /\ cells[n].offset = k - 1  BY <3>2
    <3>4. PICK a, b : a = cells[n].address /\ b = Starts(files)[f]  OBVIOUS
    <3>5. b + (k - 1) = a /\ b \in Nat  BY <1>4, <3>3, <3>4
    <3>6. k \in Nat  BY <1>5
    <3>7. a = b + k - 1  BY <3>5, <3>6
    <3>8. value(f, k) = IF good THEN a ELSE Bad  BY <2>1, <3>1, <3>4
    <3> QED  BY <2>1, <3>4, <3>7, <3>8
  <2>2. CASE Here(f, k) = {}  BY <2>2
  <2> QED  BY <2>1, <2>2
<1> HIDE DEF value
<1>7. ASSUME NEW f \in 1..Len(files)
      PROVE  /\ d[f] \in Seq(Int) /\ Len(d[f]) = size(f)
             /\ \A k \in 1..size(f) : d[f][k] = value(f, k)
                                      /\ value(f, k) \in {Zero, Bad, Starts(files)[f] + k - 1}
  <2>1. ASSUME NEW k \in 1..size(f)
        PROVE  value(f, k) \in {Zero, Bad, Starts(files)[f] + k - 1} /\ value(f, k) \in Int
    <3>1. k \in Nat /\ k \in 1..size(f)  BY <1>5
    <3>2. f \in 1..Len(files)+1  BY <1>1
    <3>3. Starts(files)[f] \in Nat  BY <3>2, StartsFacts
    <3>4. PICK b : b = Starts(files)[f]  OBVIOUS
    <3>5. b + k - 1 \in Int /\ Zero \in Int /\ Bad \in Int  BY <3>1, <3>3, <3>4 DEF Zero, Bad
    <3>6. CASE Here(f, k) # {}
      <4>1. value(f, k) = IF good THEN b + k - 1 ELSE Bad  BY <1>6, <3>4, <3>6
      <4> QED  BY <3>4, <3>5, <4>1
    <3>7. CASE Here(f, k) = {}
      <4>1. value(f, k) = IF k <= Len(disk[f]) THEN disk[f][k] ELSE Zero  BY <1>6, <3>7
      <4>2. k <= Len(disk[f]) => disk[f][k] \in {Zero, Bad, b + k - 1}
        <5>1. k <= Len(disk[f]) => k \in 1..Len(disk[f])  BY <1>5, <3>1
        <5> QED  BY <3>4, <5>1 DEF DiskTrue
      <4> QED  BY <3>4, <3>5, <4>1, <4>2
    <3> QED  BY <3>6, <3>7
  <2>2. d[f] = [k \in 1..size(f) |-> value(f, k)]  BY <1>2
  <2>3. PICK q : q = d[f]  OBVIOUS
  <2>4. q \in [1..size(f) -> Int]  BY <2>1, <2>2, <2>3
  <2>5. q \in Seq(Int) /\ Len(q) = size(f)  BY <1>5, <2>4, RowOfLength
  <2>6. \A k \in 1..size(f) : q[k] = value(f, k)  BY <2>2, <2>3
  <2> QED  BY <2>1, <2>3, <2>5, <2>6
<1>8. DiskTrue(files, d)
  <2>1. DOMAIN d = DOMAIN files  BY <1>1, <1>2
  <2> QED  BY <1>5, <1>7, <2>1 DEF DiskTrue
<1>9. ASSUME NEW f \in 1..Len(files)
      PROVE  /\ Len(disk[f]) <= Len(d[f])
             /\ \A k \in 1..Len(disk[f]) :
                  (\A n \in 1..done : cells[n].file = f => cells[n].offset # k - 1)
                  => d[f][k] = disk[f][k]
  <2>1. Len(disk[f]) <= Len(d[f])  BY <1>5, <1>7
  <2>2. ASSUME NEW k \in 1..Len(disk[f]),
               \A n \in 1..done : cells[n].file = f => cells[n].offset # k - 1
        PROVE  d[f][k] = disk[f][k]
    <3>1. k \in 1..size(f) /\ k <= Len(disk[f])  BY <1>5
    <3>2. Here(f, k) = {}  BY <2>2
    <3> QED  BY <1>6, <1>7, <3>1, <3>2
  <2> QED  BY <2>1, <2>2
<1>10. ASSUME NEW n \in 1..done
       PROVE  LET f == cells[n].file
                  k == cells[n].offset + 1
              IN  /\ k \in 1..Len(d[f])
                  /\ d[f][k] = IF good THEN cells[n].address ELSE Bad
  <2>1. PICK f, o, k, a, b : /\ f = cells[n].file /\ o = cells[n].offset /\ k = o + 1
                             /\ a = cells[n].address /\ b = Starts(files)[f]
    OBVIOUS
  <2>2. f \in 1..Len(files) /\ o \in Nat /\ a \in Nat /\ b \in Nat /\ b + o = a
    BY <1>4, <2>1
  <2>3. n \in Inside(f) /\ k - 1 = o  BY <2>1, <2>2
  <2>4. o + 1 <= size(f) /\ size(f) \in Nat  BY <1>5, <2>1, <2>2, <2>3
  <2>5. k \in 1..size(f)
    <3>1. PICK z : z = size(f)  OBVIOUS
    <3>2. k = o + 1 /\ o \in Nat /\ z \in Nat /\ o + 1 <= z  BY <2>1, <2>2, <2>4, <3>1
    <3>3. k \in 1..z  BY <3>2
    <3> QED  BY <3>1, <3>3
  <2>6. n \in Here(f, k)  BY <2>1, <2>3
  <2>7. value(f, k) = IF good THEN b + k - 1 ELSE Bad  BY <1>6, <2>1, <2>2, <2>5, <2>6
  <2>8. b + k - 1 = a  BY <2>1, <2>2
  <2> QED  BY <1>7, <2>1, <2>2, <2>5, <2>7, <2>8
<1> QED  BY <1>8, <1>9, <1>10 DEF d

\* The cells of a piece that is written lie within the piece.
LEMMA PieceCells ==
  ASSUME files \in Layouts, NEW p \in Pieces
  PROVE  LET cells == CellsOfBlocks(Blocks(files, p))
         IN  /\ cells \in Seq(Cell)
             /\ \A n \in 1..Len(cells) : /\ CellTrue(cells[n])
                                         /\ cells[n].address \in PieceAddresses(files, p)
             /\ \/ \E n \in 1..Len(cells) : cells[n].file \notin 1..Len(files)
                \/ \A address \in PieceAddresses(files, p) :
                     \E n \in 1..Len(cells) : cells[n].address = address
             /\ \/ \A n \in 1..Len(cells) : CellIn(cells[n])
                \/ \E b \in AllBlocks(p) :
                     /\ Overshoots(files, b)
                     /\ b.where + b.size < p * PieceSize + SizeOfPiece(files, p)
<1> DEFINE blocks == Blocks(files, p)
           cells == CellsOfBlocks(blocks)
           A(m) == blocks[m].where .. blocks[m].where + blocks[m].size - 1
<1>1. files \in Seq(Nat) /\ TorrentSize(files) > 0 /\ p \in 0..PieceCount(files)-1
  BY LayoutFacts DEF Pieces
<1>2. /\ blocks \in Seq([where : Nat, size : Nat])
      /\ \A n \in 1..Len(blocks) : BlockIn(files, blocks[n])
      /\ \A n \in 1..Len(blocks) : A(n) \subseteq PieceAddresses(files, p)
  BY <1>1, BlocksFacts
<1>3. \A address \in PieceAddresses(files, p) : \E n \in 1..Len(blocks) : address \in A(n)
  BY <1>1, BlocksCover
<1> HIDE DEF blocks
<1>4. /\ cells \in Seq(Cell)
      /\ \A k \in 1..Len(cells) : InBlocks(blocks, Len(blocks), cells[k])
      /\ Covered(blocks, Len(blocks), cells)
      /\ Reachable(blocks, Len(blocks), cells)
  BY <1>1, <1>2, CellsOfBlocksFacts
<1> HIDE DEF cells
<1>5. \A n \in 1..Len(cells) : CellTrue(cells[n]) /\ cells[n].address \in PieceAddresses(files, p)
  BY <1>2, <1>4 DEF InBlocks
<1>6. \/ \E n \in 1..Len(cells) : cells[n].file \notin 1..Len(files)
      \/ \A address \in PieceAddresses(files, p) :
            \E n \in 1..Len(cells) : cells[n].address = address
  BY <1>3, <1>4 DEF Covered
<1>7. ASSUME Overshot(blocks, Len(blocks))
      PROVE  \E b \in AllBlocks(p) :
               /\ Overshoots(files, b)
               /\ b.where + b.size < p * PieceSize + SizeOfPiece(files, p)
  <2>1. PICK m \in 1..Len(blocks) : m < Len(blocks) /\ Overshoots(files, blocks[m])
    BY <1>7 DEF Overshot
  <2>2. Len(blocks) \in 1..Len(blocks) /\ DOMAIN blocks = 1..Len(blocks)  BY <1>2, <2>1
  <2>3. blocks[m].where + blocks[m].size < p * PieceSize + SizeOfPiece(files, p)
    BY <1>1, <2>1, <2>2, BlocksInOrder DEF blocks
  <2>4. blocks[m] \in AllBlocks(p)  BY <2>2 DEF AllBlocks, ToSet, blocks
  <2> QED  BY <2>1, <2>3, <2>4
<1> QED  BY <1>4, <1>5, <1>6, <1>7 DEF cells, blocks, Reachable

\* A write leaves the other pieces as they are on the disk.
LEMMA WriteKeeps ==
  ASSUME files \in Layouts, DiskTrue(files, disk),
         NEW p \in Pieces, NEW i \in Pieces, i # p, OnDiskIn(files, disk, i),
         NEW done \in Nat, NEW good \in BOOLEAN,
         done <= Passable(CellsOfBlocks(Blocks(files, p)), FALSE)
  PROVE  OnDiskIn(files, Written(CellsOfBlocks(Blocks(files, p)), done, good), i)
<1>1. /\ files \in Seq(Nat) /\ TorrentSize(files) > 0
      /\ p \in 0..PieceCount(files)-1 /\ i \in 0..PieceCount(files)-1
  BY LayoutFacts DEF Pieces
<1>2. PICK cells : cells = CellsOfBlocks(Blocks(files, p))  OBVIOUS
<1>3. /\ cells \in Seq(Cell) /\ done <= Passable(cells, FALSE)
      /\ \A n \in 1..Len(cells) : /\ CellTrue(cells[n])
                                  /\ cells[n].address \in PieceAddresses(files, p)
  BY <1>2, PieceCells
<1>4. PICK d : d = Written(cells, done, good)  OBVIOUS
<1>5. \A f \in 1..Len(files) :
         /\ Len(disk[f]) <= Len(d[f])
         /\ \A k \in 1..Len(disk[f]) :
              (\A n \in 1..done : cells[n].file = f => cells[n].offset # k - 1)
              => d[f][k] = disk[f][k]
  BY <1>1, <1>3, <1>4, WrittenFacts
<1>6. DiskTrue(files, d)  BY <1>1, <1>3, <1>4, WrittenFacts
<1>7. done <= Len(cells) /\ \A n \in 1..done : cells[n].file \in 1..Len(files)
  BY <1>1, <1>3, PassableFacts
<1>8. ASSUME NEW address \in PieceAddresses(files, i)
      PROVE  StoredIn(files, d, address) = address
  <2>1. PICK f \in 1..Len(files), o \in Nat : o < files[f] /\ address = Starts(files)[f] + o
    BY <1>1, AddressPlace
  <2>2. StoredIn(files, disk, address) = address  BY DEF OnDiskIn
  <2>3. StoredIn(files, disk, address) = IF o + 1 <= Len(disk[f]) THEN disk[f][o+1] ELSE Zero
    BY <1>1, <2>1, StoredIs
  <2>4. StoredIn(files, d, address) = IF o + 1 <= Len(d[f]) THEN d[f][o+1] ELSE Zero
    BY <1>1, <2>1, StoredIs
  <2>5. Len(disk[f]) \in Nat /\ Len(d[f]) \in Nat  BY <1>6 DEF DiskTrue
  <2>6. address \in Nat
    <3>1. f \in 1..Len(files)+1  BY <1>1
    <3>2. Starts(files)[f] \in Nat  BY <1>1, <3>1, StartsFacts
    <3> QED  BY <2>1, <3>2
  <2>7. o + 1 <= Len(disk[f]) /\ disk[f][o+1] = address
    <3>1. address # Zero  BY <2>6 DEF Zero
    <3> QED  BY <2>2, <2>3, <3>1
  <2>8. ASSUME NEW n \in 1..done, cells[n].file = f PROVE cells[n].offset # (o + 1) - 1
    <3> SUFFICES ASSUME cells[n].offset = o PROVE FALSE
      OBVIOUS
    <3>1. n \in 1..Len(cells)  BY <1>3, <1>7
    <3>2. cells[n].address = address  BY <1>3, <2>1, <2>8, <3>1 DEF CellTrue
    <3>3. address \in PieceAddresses(files, p)  BY <1>3, <3>1, <3>2
    <3> QED  BY <1>1, <3>3, PiecesApart
  <2>9. o + 1 \in 1..Len(disk[f]) /\ o + 1 <= Len(d[f])  BY <1>5, <2>5, <2>7
  <2>10. d[f][o+1] = disk[f][o+1]  BY <1>5, <2>8, <2>9
  <2> QED  BY <2>4, <2>7, <2>9, <2>10
<1> QED  BY <1>2, <1>4, <1>8 DEF OnDiskIn

\* A write that succeeds stores all of the piece.
LEMMA WriteStores ==
  ASSUME files \in Layouts, DiskTrue(files, disk), NEW p \in Pieces, NEW good \in BOOLEAN,
         NEW done \in Nat, done = Len(CellsOfBlocks(Blocks(files, p))),
         done <= Passable(CellsOfBlocks(Blocks(files, p)), FALSE),
         NEW address \in PieceAddresses(files, p)
  PROVE  StoredIn(files, Written(CellsOfBlocks(Blocks(files, p)), done, good), address)
         = IF good THEN address ELSE Bad
<1>1. files \in Seq(Nat)  BY LayoutFacts
<1>2. PICK cells : cells = CellsOfBlocks(Blocks(files, p))  OBVIOUS
<1>3. /\ cells \in Seq(Cell) /\ done <= Passable(cells, FALSE) /\ done = Len(cells)
      /\ \A n \in 1..Len(cells) : CellTrue(cells[n])
      /\ \/ \E n \in 1..Len(cells) : cells[n].file \notin 1..Len(files)
         \/ \E n \in 1..Len(cells) : cells[n].address = address
  BY <1>2, PieceCells
<1>4. \A n \in 1..Len(cells) : cells[n].file \in 1..Len(files) /\ cells[n].offset >= 0
  BY <1>1, <1>3, PassableFacts
<1>5. PICK n \in 1..Len(cells) : cells[n].address = address  BY <1>3, <1>4
<1>6. PICK f, o : f = cells[n].file /\ o = cells[n].offset  OBVIOUS
<1>7. f \in 1..Len(files) /\ o \in Nat /\ o < files[f] /\ Starts(files)[f] + o = address
  <2>1. cells[n] \in Cell /\ CellTrue(cells[n])  BY <1>3
  <2>2. o \in Int  BY <1>6, <2>1 DEF Cell
  <2> QED  BY <1>4, <1>5, <1>6, <2>1, <2>2 DEF CellTrue
<1>8. PICK d : d = Written(cells, done, good)  OBVIOUS
<1>9. o + 1 \in 1..Len(d[f]) /\ d[f][o+1] = IF good THEN address ELSE Bad
  <2>1. \A m \in 1..done : LET g == cells[m].file
                               k == cells[m].offset + 1
                           IN  /\ k \in 1..Len(d[g])
                               /\ d[g][k] = IF good THEN cells[m].address ELSE Bad
    BY <1>1, <1>3, <1>8, WrittenFacts
  <2>2. n \in 1..done  BY <1>3, <1>5
  <2> QED  BY <1>5, <1>6, <2>1, <2>2
<1>10. StoredIn(files, d, address) = IF o + 1 <= Len(d[f]) THEN d[f][o+1] ELSE Zero
  BY <1>1, <1>7, StoredIs
<1>11. o + 1 <= Len(d[f])  BY <1>7, <1>9
<1> QED  BY <1>2, <1>8, <1>9, <1>10, <1>11

\* A piece that is found good is on the disk.
LEMMA VerifyTells ==
  ASSUME files \in Layouts, DiskTrue(files, disk), NEW i \in Pieces,
         NEW done \in Nat, done = Len(VerifyCells(i)), done <= Passable(VerifyCells(i), TRUE),
         Content(VerifyCells(i)) = [n \in DOMAIN VerifyCells(i) |-> i * PieceSize + n - 1]
  PROVE  OnDiskIn(files, disk, i)
<1>1. files \in Seq(Nat) /\ TorrentSize(files) > 0 /\ i \in 0..PieceCount(files)-1
  BY LayoutFacts DEF Pieces
<1>2. PICK cells : cells = VerifyCells(i)  OBVIOUS
<1>3. /\ cells \in Seq(Cell) /\ Len(cells) = SizeOfPiece(files, i) /\ done = Len(cells)
      /\ done <= Passable(cells, TRUE)
      /\ \A n \in 1..Len(cells) : CellTrue(cells[n])
  BY <1>2, VerifyCellsFacts
<1>4. \A n \in 1..Len(cells) : disk[cells[n].file][cells[n].offset + 1] = i * PieceSize + n - 1
  <2>1. DOMAIN cells = 1..Len(cells)  BY <1>3
  <2>2. Content(cells) = [n \in 1..Len(cells) |-> i * PieceSize + n - 1]  BY <1>2, <2>1
  <2>3. Content(cells) = [n \in 1..Len(cells) |-> disk[cells[n].file][cells[n].offset + 1]]
    BY <2>1 DEF Content
  <2> SUFFICES ASSUME NEW n \in 1..Len(cells)
               PROVE  disk[cells[n].file][cells[n].offset + 1] = i * PieceSize + n - 1
    OBVIOUS
  <2>4. Content(cells)[n] = i * PieceSize + n - 1  BY <2>2
  <2>5. Content(cells)[n] = disk[cells[n].file][cells[n].offset + 1]  BY <2>3
  <2> QED  BY <2>4, <2>5
<1>5. \A n \in 1..Len(cells) : /\ cells[n].file \in 1..Len(files) /\ cells[n].offset >= 0
                               /\ ~ Short(cells[n])
  BY <1>1, <1>3, PassableFacts
<1>6. i * PieceSize \in Nat /\ SizeOfPiece(files, i) \in Nat  BY <1>1, PieceFacts
<1>7. ASSUME NEW address \in PieceAddresses(files, i)
      PROVE  StoredIn(files, disk, address) = address
  <2>1. PICK a : a = i * PieceSize  OBVIOUS
  <2>2. address \in a .. a + Len(cells) - 1  BY <1>3, <2>1 DEF PieceAddresses
  <2>3. a \in Nat /\ Len(cells) \in Nat  BY <1>3, <1>6, <2>1
  <2>4. PICK n : n = address - a + 1  OBVIOUS
  <2>5. n \in 1..Len(cells) /\ a + n - 1 = address /\ address \in Nat  BY <2>2, <2>3, <2>4
  <2>6. PICK f, o : f = cells[n].file /\ o = cells[n].offset  OBVIOUS
  <2>7. cells[n] \in Cell /\ CellTrue(cells[n])  BY <1>3, <2>5
  <2>8. f \in 1..Len(files) /\ o \in Nat
    <3>1. o \in Int  BY <2>6, <2>7 DEF Cell
    <3> QED  BY <1>5, <2>5, <2>6, <3>1
  <2>9. o < files[f]  BY <2>6, <2>7, <2>8 DEF CellTrue
  <2>10. disk[f][o+1] = address  BY <1>4, <2>1, <2>5, <2>6
  <2>11. Len(disk[f]) \in Nat /\ o < Len(disk[f])
    <3>1. Len(disk[f]) \in Nat  BY <2>8 DEF DiskTrue
    <3>2. ~ (o >= Len(disk[f]))  BY <1>5, <2>5, <2>6 DEF Short
    <3> QED  BY <2>8, <3>1, <3>2
  <2>12. o + 1 \in 1..Len(disk[f]) /\ (o + 1) - 1 = o  BY <2>8, <2>11
  <2>13. Starts(files)[f] \in Nat
    <3>1. f \in 1..Len(files)+1  BY <1>1, <2>8
    <3> QED  BY <1>1, <3>1, StartsFacts
  <2>14. disk[f][o+1] \in {Zero, Bad, Starts(files)[f] + (o + 1) - 1}
    BY <2>8, <2>12 DEF DiskTrue
  <2>15. address = Starts(files)[f] + o
    <3>1. address # Zero /\ address # Bad  BY <2>5 DEF Zero, Bad
    <3>2. Starts(files)[f] + (o + 1) - 1 = Starts(files)[f] + o  BY <2>8, <2>13
    <3> QED  BY <2>10, <2>14, <3>1, <3>2
  <2>16. StoredIn(files, disk, address) = IF o + 1 <= Len(disk[f]) THEN disk[f][o+1] ELSE Zero
    BY <1>1, <2>8, <2>9, <2>15, StoredIs
  <2> QED  BY <2>10, <2>12, <2>16
<1> QED  BY <1>7 DEF OnDiskIn

\* What is read is what is stored.
LEMMA ReadTells ==
  ASSUME files \in Layouts, DiskTrue(files, disk), NEW b, BlockIn(files, b),
         NEW done \in Nat, done = Len(CellsOfBlocks(<<b>>)),
         done <= Passable(CellsOfBlocks(<<b>>), TRUE)
  PROVE  Content(CellsOfBlocks(<<b>>)) = [n \in 1..b.size |-> StoredIn(files, disk, b.where + n - 1)]
<1>1. files \in Seq(Nat)  BY LayoutFacts
<1>2. PICK blocks : blocks = <<b>>  OBVIOUS
<1>3. blocks \in Seq({b}) /\ Len(blocks) = 1 /\ blocks[1] = b  BY <1>2
<1>4. \A n \in 1..Len(blocks) : BlockIn(files, blocks[n])  BY <1>3
<1>5. PICK cells : cells = CellsOfBlocks(blocks)  OBVIOUS
<1>6. /\ cells \in Seq(Cell)
      /\ \A k \in 1..Len(cells) : InBlocks(blocks, Len(blocks), cells[k])
      /\ Ordered(blocks, Len(blocks), cells)
  BY <1>1, <1>3, <1>4, <1>5, CellsOfBlocksFacts
<1>7. done = Len(cells) /\ done <= Passable(cells, TRUE)  BY <1>2, <1>5
<1>8. \A n \in 1..Len(cells) : /\ cells[n].file \in 1..Len(files) /\ cells[n].offset >= 0
                               /\ ~ Short(cells[n])
  BY <1>1, <1>6, <1>7, PassableFacts
<1>9. Len(cells) = b.size /\ \A n \in 1..Len(cells) : cells[n].address = b.where + n - 1
  BY <1>3, <1>6, <1>8 DEF Ordered
<1>10. DOMAIN cells = 1..b.size  BY <1>6, <1>9
<1>11. ASSUME NEW n \in 1..b.size
       PROVE  disk[cells[n].file][cells[n].offset + 1] = StoredIn(files, disk, b.where + n - 1)
  <2>1. n \in 1..Len(cells)  BY <1>9
  <2>2. PICK f, o : f = cells[n].file /\ o = cells[n].offset  OBVIOUS
  <2>3. cells[n] \in Cell /\ CellTrue(cells[n])  BY <1>6, <2>1 DEF InBlocks
  <2>4. f \in 1..Len(files) /\ o \in Nat
    <3>1. o \in Int  BY <2>2, <2>3 DEF Cell
    <3> QED  BY <1>8, <2>1, <2>2, <3>1
  <2>5. o < files[f] /\ Starts(files)[f] + o = b.where + n - 1
    BY <1>9, <2>1, <2>2, <2>3, <2>4 DEF CellTrue
  <2>6. Len(disk[f]) \in Nat /\ ~ (o >= Len(disk[f]))
    BY <1>8, <2>1, <2>2, <2>4 DEF DiskTrue, Short
  <2>7. o + 1 <= Len(disk[f])  BY <2>4, <2>6
  <2>8. StoredIn(files, disk, b.where + n - 1)
        = IF o + 1 <= Len(disk[f]) THEN disk[f][o+1] ELSE Zero
    BY <1>1, <2>4, <2>5, StoredIs
  <2> QED  BY <2>2, <2>7, <2>8
<1>12. Content(cells) = [n \in 1..b.size |-> StoredIn(files, disk, b.where + n - 1)]
  BY <1>10, <1>11 DEF Content
<1> QED  BY <1>2, <1>5, <1>12

----------------------------------------------------------------------------
\* Why a request fails.

\* A cell that there is lies in a file that its request needs.
LEMMA CellTouches ==
  ASSUME files \in Seq(Nat), NEW c \in Cell, CellTrue(c), CellIn(c),
         NEW w \in Nat, NEW s \in Nat, c.address \in w .. w + s - 1
  PROVE  /\ c.file \in FilesTouched(files, w, s)
         /\ c.file \in 1..Len(files) /\ files[c.file] \in Nat
         /\ c.offset \in Nat /\ c.offset < files[c.file]
         /\ Starts(files)[c.file] \in Nat /\ Starts(files)[c.file] + c.offset = c.address
<1>1. PICK f, o, a : f = c.file /\ o = c.offset /\ a = c.address  OBVIOUS
<1>2. f \in 1..Len(files) /\ o \in Nat /\ a \in w .. w + s - 1
  BY <1>1 DEF Cell, CellIn
<1>3. DOMAIN files = 1..Len(files) /\ f \in 1..Len(files)+1  BY <1>2
<1>4. PICK p, z : p = Starts(files)[f] /\ z = files[f]  OBVIOUS
<1>5. p \in Nat /\ z \in Nat  BY <1>2, <1>3, <1>4, StartsFacts
<1>6. o < z /\ p + o = a  BY <1>1, <1>2, <1>4 DEF CellTrue
<1>7. z > 0 /\ p < w + s /\ p + z > w  BY <1>2, <1>5, <1>6
<1>8. f \in FilesTouched(files, w, s)  BY <1>2, <1>3, <1>4, <1>7 DEF FilesTouched
<1> QED  BY <1>1, <1>2, <1>4, <1>5, <1>6, <1>8

\* Where the calls end before all cells are dealt with: there is no such cell, no such
\* datum, or its file cannot be opened, which is remembered.
LEMMA StuckCell ==
  ASSUME files \in Seq(Nat), cache \in [DOMAIN files -> {"closed", "open", "failed"}],
         NEW cells \in Seq(Cell), NEW reading \in BOOLEAN
  PROVE  /\ Passable(cells, reading) \in Nat
         /\ Passable(cells, reading) # Len(cells) =>
              \E n \in 1..Len(cells) :
                \/ ~ CellIn(cells[n])
                \/ reading /\ Short(cells[n])
                \/ Opened(cells, Passable(cells, reading), 0)[cells[n].file] = "failed"
<1> DEFINE stuck == {n \in DOMAIN cells : \/ cells[n].file \notin DOMAIN files
                                          \/ cells[n].offset < 0
                                          \/ ~Openable(cells[n].file)
                                          \/ reading /\ Short(cells[n])}
<1>1. DOMAIN cells = 1..Len(cells) /\ Len(cells) \in Nat /\ DOMAIN files = 1..Len(files)
  OBVIOUS
<1>2. PICK able : able = Passable(cells, reading)  OBVIOUS
<1>3. able = IF stuck = {} THEN Len(cells) ELSE Smallest(stuck) - 1  BY <1>2 DEF Passable
<1>4. CASE stuck = {}  BY <1>1, <1>2, <1>3, <1>4
<1>5. CASE stuck # {}
  <2>1. PICK x : x = Smallest(stuck)  OBVIOUS
  <2>2. stuck \in SUBSET Nat  BY <1>1
  <2>3. x \in stuck
    <3> HIDE DEF stuck
    <3> QED  BY <1>5, <2>1, <2>2, SmallestFacts
  <2>4. x \in 1..Len(cells)  BY <1>1, <2>3
  <2>5. able = x - 1 /\ able \in Nat /\ able + 1 = x  BY <1>3, <1>5, <2>1, <2>4
  <2>6. PICK c : c = cells[x]  OBVIOUS
  <2>7. \/ ~ CellIn(c)
        \/ reading /\ Short(c)
        \/ c.file \in DOMAIN files /\ ~Openable(c.file)
    <3>1. c \in Cell  BY <2>4, <2>6
    <3>2. c.offset \in Int  BY <3>1 DEF Cell
    <3>3. c.file \notin DOMAIN files \/ c.offset < 0 \/ ~Openable(c.file)
          \/ (reading /\ Short(c))
      BY <2>3, <2>6
    <3>4. c.offset < 0 => ~ (c.offset >= 0)  BY <3>2
    <3> HIDE DEF stuck
    <3> QED  BY <1>1, <3>3, <3>4 DEF CellIn
  <2>8. ASSUME c.file \in DOMAIN files, ~Openable(c.file)
        PROVE  Opened(cells, able, 0)[c.file] = "failed"
    <3>1. PICK f : f = c.file  OBVIOUS
    <3>2. Lowest(able + 1, Len(cells)) = x  BY <1>1, <2>4, <2>5 DEF Lowest
    <3>3. \E n \in 1..Lowest(able + 1, Len(cells)) : cells[n].file = f
      <4>1. x \in 1..x  BY <2>4
      <4> QED  BY <2>6, <3>1, <3>2, <4>1
    <3>4. f \in DOMAIN files /\ f # 0  BY <1>1, <2>8, <3>1
    <3>5. cache[f] = "failed" \/ (cache[f] = "closed" /\ f \notin housed)
      BY <2>8, <3>1, <3>4 DEF Openable
    <3> HIDE DEF stuck
    <3>6. Opened(cells, able, 0)[f] = IF cache[f] # "closed" THEN cache[f]
                                      ELSE IF f \notin housed THEN "failed" ELSE "open"
      BY <3>3, <3>4 DEF Opened
    <3> QED  BY <3>1, <3>5, <3>6
  <2> QED  BY <1>2, <2>4, <2>5, <2>6, <2>7, <2>8
<1> QED  BY <1>4, <1>5

\* The reasons, for any files, contents and opened files.
RefusedIn(fs, ca, where, size) == \E f \in FilesTouched(fs, where, size) : ca[f] = "failed"
HalfIn(fs, d, where, size) ==
    \E f \in FilesTouched(fs, where, size) :
        Starts(fs)[f] + Len(d[f]) < where + size /\ Len(d[f]) < fs[f]
SpoiltIn(fs, p) ==
    \E b \in ToSet(Blocks(fs, p)) :
        Overshoots(fs, b) /\ b.where + b.size < p * PieceSize + SizeOfPiece(fs, p)

\* Why a write fails.
LEMMA WriteFails ==
  ASSUME files \in Layouts, cache \in [DOMAIN files -> {"closed", "open", "failed"}],
         NEW p \in Pieces, NEW cells, cells = CellsOfBlocks(Blocks(files, p)),
         Passable(cells, FALSE) # Len(cells)
  PROVE  \/ RefusedIn(files, Opened(cells, Passable(cells, FALSE), 0),
                      p * PieceSize, SizeOfPiece(files, p))
         \/ SpoiltIn(files, p)
<1>1. files \in Seq(Nat) /\ TorrentSize(files) > 0 /\ p \in 0..PieceCount(files)-1
  BY LayoutFacts DEF Pieces
<1>2. /\ cells \in Seq(Cell)
      /\ \A n \in 1..Len(cells) : /\ CellTrue(cells[n])
                                  /\ cells[n].address \in PieceAddresses(files, p)
      /\ (\A n \in 1..Len(cells) : CellIn(cells[n])) \/ SpoiltIn(files, p)
  BY PieceCells DEF SpoiltIn, AllBlocks
<1>3. PICK n \in 1..Len(cells) :
         \/ ~ CellIn(cells[n])
         \/ Opened(cells, Passable(cells, FALSE), 0)[cells[n].file] = "failed"
  BY <1>1, <1>2, StuckCell
<1>4. PICK c, w, s : c = cells[n] /\ w = p * PieceSize /\ s = SizeOfPiece(files, p)  OBVIOUS
<1>5. c \in Cell /\ CellTrue(c) /\ c.address \in w .. w + s - 1
  BY <1>2, <1>4 DEF PieceAddresses
<1>6. w \in Nat /\ s \in Nat  BY <1>1, <1>4, PieceFacts
<1>7. CellIn(c) => c.file \in FilesTouched(files, w, s)  BY <1>1, <1>5, <1>6, CellTouches
<1> QED  BY <1>2, <1>3, <1>4, <1>7 DEF RefusedIn

\* Why a block cannot be read.
LEMMA ReadFails ==
  ASSUME files \in Layouts, DiskTrue(files, disk),
         cache \in [DOMAIN files -> {"closed", "open", "failed"}],
         NEW b, BlockIn(files, b), NEW cells, cells = CellsOfBlocks(<<b>>),
         Passable(cells, TRUE) # Len(cells)
  PROVE  \/ RefusedIn(files, Opened(cells, Passable(cells, TRUE), 0), b.where, b.size)
         \/ HalfIn(files, disk, b.where, b.size)
<1>1. files \in Seq(Nat)  BY LayoutFacts
<1>2. PICK blocks : blocks = <<b>>  OBVIOUS
<1>3. blocks \in Seq({b}) /\ Len(blocks) = 1 /\ blocks[1] = b  BY <1>2
<1>4. \A n \in 1..Len(blocks) : BlockIn(files, blocks[n])  BY <1>3
<1>5. /\ cells \in Seq(Cell)
      /\ \A k \in 1..Len(cells) : InBlocks(blocks, 1, cells[k])
      /\ Reachable(blocks, 1, cells)
  <2>1. cells = CellsOfBlocks(blocks)  BY <1>2
  <2> QED  BY <1>1, <1>3, <1>4, <2>1, CellsOfBlocksFacts
<1>6. \A k \in 1..Len(cells) : CellIn(cells[k])
  <2>1. ~ Overshot(blocks, 1)  BY DEF Overshot
  <2> QED  BY <1>5, <2>1 DEF Reachable
<1>7. PICK n \in 1..Len(cells) :
         \/ Short(cells[n])
         \/ Opened(cells, Passable(cells, TRUE), 0)[cells[n].file] = "failed"
  BY <1>1, <1>5, <1>6, StuckCell
<1>8. PICK c, w, s : c = cells[n] /\ w = b.where /\ s = b.size  OBVIOUS
<1>9. c \in Cell /\ CellTrue(c) /\ CellIn(c) /\ c.address \in w .. w + s - 1
  <2>1. InBlocks(blocks, 1, c) /\ c \in Cell /\ CellIn(c)  BY <1>5, <1>6, <1>8
  <2>2. \A m \in 1..1 : m = 1  OBVIOUS
  <2> QED  BY <1>3, <1>8, <2>1, <2>2 DEF InBlocks
<1>10. w \in Nat /\ s \in Nat  BY <1>8 DEF BlockIn
<1>11. PICK f, o : f = c.file /\ o = c.offset  OBVIOUS
<1>12. /\ f \in FilesTouched(files, w, s) /\ f \in 1..Len(files) /\ files[f] \in Nat
       /\ o \in Nat /\ o < files[f] /\ Starts(files)[f] \in Nat
       /\ Starts(files)[f] + o = c.address
  BY <1>1, <1>9, <1>10, <1>11, CellTouches
<1>13. CASE Short(c)
  <2>1. PICK p, z, l : p = Starts(files)[f] /\ z = files[f] /\ l = Len(disk[f])  OBVIOUS
  <2>2. l \in Nat /\ o >= l  BY <1>11, <1>12, <1>13, <2>1 DEF DiskTrue, Short
  <2>3. p \in Nat /\ z \in Nat /\ o \in Nat /\ o < z /\ p + o \in w .. w + s - 1
    BY <1>9, <1>12, <2>1
  <2>4. p + l < w + s /\ l < z  BY <1>10, <2>2, <2>3
  <2> QED  BY <1>8, <1>12, <2>1, <2>4 DEF HalfIn
<1>14. CASE Opened(cells, Passable(cells, TRUE), 0)[f] = "failed"
  BY <1>8, <1>12, <1>14 DEF RefusedIn
<1> QED  BY <1>7, <1>8, <1>11, <1>13, <1>14

\* Why a piece is not found good, though it is there and its offset has 32 bits.
LEMMA VerifyFails ==
  ASSUME files \in Layouts, DiskTrue(files, disk),
         cache \in [DOMAIN files -> {"closed", "open", "failed"}],
         NEW i \in Pieces, i * PieceSize < OffsetMod, OnDiskIn(files, disk, i),
         NEW cells, cells = VerifyCells(i)
  PROVE  /\ Content(cells) = [n \in DOMAIN cells |-> i * PieceSize + n - 1]
         /\ Passable(cells, TRUE) # Len(cells) =>
              RefusedIn(files, Opened(cells, Passable(cells, TRUE), 0),
                        i * PieceSize, SizeOfPiece(files, i))
<1>1. files \in Seq(Nat) /\ TorrentSize(files) > 0 /\ i \in 0..PieceCount(files)-1
  BY LayoutFacts DEF Pieces
<1>2. PICK w, s : w = i * PieceSize /\ s = SizeOfPiece(files, i)  OBVIOUS
<1>3. w \in Nat /\ s \in Nat  BY <1>1, <1>2, PieceFacts
<1>4. VerifyOffset(i) = w
  <2>1. OffsetMod \in Nat \ {0}  BY ModAssumption, SizeAssumption
  <2> QED  BY <1>2, <1>3, <2>1, ModFacts DEF VerifyOffset
<1>5. /\ cells \in Seq(Cell) /\ Len(cells) = s
      /\ \A n \in 1..Len(cells) : /\ CellTrue(cells[n]) /\ CellIn(cells[n])
                                  /\ cells[n].address = w + n - 1
  BY <1>2, <1>4, VerifyCellsFacts
<1>6. ASSUME NEW n \in 1..Len(cells)
      PROVE  /\ cells[n].file \in FilesTouched(files, w, s)
             /\ disk[cells[n].file][cells[n].offset + 1] = w + n - 1
             /\ ~ Short(cells[n])
  <2>1. PICK c, a : c = cells[n] /\ a = w + n - 1  OBVIOUS
  <2>2. c \in Cell /\ CellTrue(c) /\ CellIn(c) /\ c.address = a  BY <1>5, <2>1
  <2>3. a \in w .. w + s - 1 /\ a \in Nat  BY <1>3, <1>5, <2>1
  <2>4. PICK f, o : f = c.file /\ o = c.offset  OBVIOUS
  <2>5. /\ f \in FilesTouched(files, w, s) /\ f \in 1..Len(files) /\ o \in Nat /\ o < files[f]
        /\ Starts(files)[f] + o = a
    BY <1>1, <1>3, <2>2, <2>3, <2>4, CellTouches
  <2>6. StoredIn(files, disk, a) = IF o + 1 <= Len(disk[f]) THEN disk[f][o+1] ELSE Zero
    BY <1>1, <2>5, StoredIs
  <2>7. StoredIn(files, disk, a) = a  BY <1>2, <2>3 DEF OnDiskIn, PieceAddresses
  <2>8. o + 1 <= Len(disk[f]) /\ disk[f][o+1] = a
    <3>1. a # Zero  BY <2>3 DEF Zero
    <3> QED  BY <2>6, <2>7, <3>1
  <2>9. ~ (o >= Len(disk[f]))
    <3>1. Len(disk[f]) \in Nat  BY <2>5 DEF DiskTrue
    <3> QED  BY <2>5, <2>8, <3>1
  <2> QED  BY <2>1, <2>4, <2>5, <2>8, <2>9 DEF Short
<1>7. Content(cells) = [n \in DOMAIN cells |-> i * PieceSize + n - 1]
  <2>1. DOMAIN cells = 1..Len(cells)  BY <1>5
  <2> QED  BY <1>2, <1>6, <2>1 DEF Content
<1>8. ASSUME Passable(cells, TRUE) # Len(cells)
      PROVE  RefusedIn(files, Opened(cells, Passable(cells, TRUE), 0), w, s)
  <2>1. PICK n \in 1..Len(cells) :
           Opened(cells, Passable(cells, TRUE), 0)[cells[n].file] = "failed"
    BY <1>1, <1>5, <1>6, <1>8, StuckCell
  <2> QED  BY <1>6, <2>1 DEF RefusedIn
<1> QED  BY <1>2, <1>7, <1>8

----------------------------------------------------------------------------
\* What holds of the queues, of what CommandTask knows and of the disk.

Result == [piece : Pieces, result : {"unwritten", "bad", "good"}]
Batch  == [writes : Seq(Request), reads : Seq(TorrentBlocks),
           verifies : Seq(Pieces), saves : Seq(SUBSET Pieces)]

\* Types, with the queues as sequences.
Typed ==
    /\ files \in Layouts /\ wanted \subseteq DOMAIN files /\ wanted \subseteq housed
    /\ housed \subseteq DOMAIN files /\ fetchable \subseteq Pieces
    /\ cache \in [DOMAIN files -> {"closed", "open", "failed"}]
    /\ writes \in Seq(Request) /\ reads \in Seq(TorrentBlocks)
    /\ verifies \in Seq(Pieces) /\ saves \in Seq(SUBSET Pieces)
    /\ batch \in Batch /\ results \in Seq(Result)
    /\ loop \in {"looping", "serving", "tested", "waiting", "ended", "crashed"}
    /\ stop \in BOOLEAN
    /\ available \subseteq Pieces /\ stateFile \subseteq Pieces
    /\ written \in 0..MaxWrites /\ events \in 0..MaxEvents

\* The pieces that are past their write: to verify, verified or available.
Past(vs, bv, rs, av) ==
    {vs[n] : n \in 1..Len(vs)} \cup {bv[n] : n \in 1..Len(bv)}
    \cup {rs[n].piece : n \in 1..Len(rs)} \cup av

\* A piece is to be written once, and is not past its write by then.
Sole(ws, bs, past) ==
    /\ \A m, n \in 1..Len(ws) : ws[m].piece = ws[n].piece => m = n
    /\ \A m, n \in 1..Len(bs) : bs[m].piece = bs[n].piece => m = n
    /\ \A m \in 1..Len(ws), n \in 1..Len(bs) : ws[m].piece # bs[n].piece
    /\ \A m \in 1..Len(ws) : ws[m].piece \notin past
    /\ \A n \in 1..Len(bs) : bs[n].piece \notin past

\* A piece that was found good, or is available, is on the disk.
Kept(fs, d, rs, av) ==
    /\ \A n \in 1..Len(rs) : rs[n].result = "good" => OnDiskIn(fs, d, rs[n].piece)
    /\ \A i \in av : OnDiskIn(fs, d, i)

\* From the state file over the states to save to the available pieces, each has
\* all of the one before.
Grown(sf, bs, ss, av) ==
    /\ sf \subseteq av
    /\ \A n \in 1..Len(bs) : sf \subseteq bs[n] /\ bs[n] \subseteq av
    /\ \A n \in 1..Len(ss) : sf \subseteq ss[n] /\ ss[n] \subseteq av
    /\ \A m, n \in 1..Len(bs) : m <= n => bs[m] \subseteq bs[n]
    /\ \A m, n \in 1..Len(ss) : m <= n => ss[m] \subseteq ss[n]
    /\ \A m \in 1..Len(bs), n \in 1..Len(ss) : bs[m] \subseteq ss[n]

\* The last answer of the thread is so.
Told(fs, d, a) ==
    /\ a.kind = "write" /\ a.success =>
         \A address \in PieceAddresses(fs, a.piece) :
            StoredIn(fs, d, address) = IF a.good THEN address ELSE Bad
    /\ a.kind = "read" /\ a.success =>
         a.data = [n \in 1..a.block.size |-> StoredIn(fs, d, a.block.where + n - 1)]
    /\ a.kind = "verify" /\ a.success => OnDiskIn(fs, d, a.piece)

\* The last answer of the thread, if it is a failure and no call failed, has a reason.
Explained(fs, d, ca, a) ==
    LET fails == ~a.success /\ ~a.broken
    IN  /\ a.kind = "write" /\ fails =>
              \/ RefusedIn(fs, ca, a.piece * PieceSize, SizeOfPiece(fs, a.piece))
              \/ SpoiltIn(fs, a.piece)
        /\ a.kind = "read" /\ fails =>
              \/ RefusedIn(fs, ca, a.block.where, a.block.size)
              \/ HalfIn(fs, d, a.block.where, a.block.size)
        /\ a.kind = "verify" /\ fails =>
              \/ RefusedIn(fs, ca, a.piece * PieceSize, SizeOfPiece(fs, a.piece))
              \/ ~ OnDiskIn(fs, d, a.piece) \/ a.piece * PieceSize >= OffsetMod

IInv ==
    /\ Typed
    /\ DiskTrue(files, disk)
    /\ Sole(writes, batch.writes, Past(verifies, batch.verifies, results, available))
    /\ Kept(files, disk, results, available)
    /\ Grown(stateFile, batch.saves, saves, available)
    /\ Told(files, disk, answer)
    /\ Explained(files, disk, cache, answer)

LEMMA QueueFacts ==
  ASSUME NEW S, NEW q \in Seq(S)
  PROVE  /\ Len(q) \in Nat
         /\ \A n \in 1..Len(q) : q[n] \in S
         /\ q # <<>> => /\ Head(q) \in S /\ Tail(q) \in Seq(S) /\ Len(q) > 0
                        /\ Head(q) = q[1] /\ Len(Tail(q)) = Len(q) - 1
                        /\ \A n \in 1..Len(Tail(q)) : Tail(q)[n] = q[n+1]
  OBVIOUS

LEMMA AppendFacts ==
  ASSUME NEW S, NEW q \in Seq(S), NEW e \in S
  PROVE  /\ Append(q, e) \in Seq(S) /\ Len(Append(q, e)) = Len(q) + 1
         /\ \A n \in 1..Len(q) : Append(q, e)[n] = q[n]
         /\ Append(q, e)[Len(q) + 1] = e
  OBVIOUS

\* A piece that is not yet to be written nor past its write is to be written.
LEMMA SoleRequested ==
  ASSUME NEW S, NEW ws \in Seq(S), NEW bs \in Seq(S), NEW past, Sole(ws, bs, past),
         NEW w \in S, w.piece \notin past,
         \A n \in 1..Len(ws) : ws[n].piece # w.piece,
         \A n \in 1..Len(bs) : bs[n].piece # w.piece
  PROVE  Sole(Append(ws, w), bs, past)
<1>1. PICK q : q = Append(ws, w)  OBVIOUS
<1>2. /\ Len(q) = Len(ws) + 1 /\ Len(ws) \in Nat /\ q[Len(ws) + 1] = w
      /\ \A n \in 1..Len(ws) : q[n] = ws[n]
  BY <1>1, AppendFacts, QueueFacts
<1>3. \A n \in 1..Len(q) : n \in 1..Len(ws) \/ n = Len(ws) + 1  BY <1>2
<1> QED  BY <1>1, <1>2, <1>3 DEF Sole

\* The queue is stolen.
LEMMA SoleStolen ==
  ASSUME NEW ws, NEW bs, NEW past, Sole(ws, bs, past), NEW less, less \subseteq past
  PROVE  Sole(<<>>, ws, less)
  BY DEF Sole

\* The first piece is written.
LEMMA SoleWritten ==
  ASSUME NEW S, NEW ws, NEW bs \in Seq(S), bs # <<>>, NEW past, Sole(ws, bs, past),
         NEW more, more \subseteq past \cup {Head(bs).piece}
  PROVE  Sole(ws, Tail(bs), more)
<1>1. PICK q : q = Tail(bs)  OBVIOUS
<1>2. /\ Len(bs) \in Nat /\ Len(bs) > 0 /\ Head(bs) = bs[1] /\ Len(q) = Len(bs) - 1
      /\ \A n \in 1..Len(q) : q[n] = bs[n+1]
  BY <1>1, QueueFacts
<1>3. \A n \in 1..Len(q) : n + 1 \in 1..Len(bs) /\ n + 1 # 1 /\ n \in Nat  BY <1>2
<1>4. \A n \in 1..Len(q) : q[n].piece # Head(bs).piece
  <2>1. 1 \in 1..Len(bs)  BY <1>2
  <2> QED  BY <1>2, <1>3, <2>1 DEF Sole
<1>5. \A n \in 1..Len(ws) : ws[n].piece # Head(bs).piece
  <2>1. 1 \in 1..Len(bs)  BY <1>2
  <2> QED  BY <1>2, <2>1 DEF Sole
<1>6. \A m, n \in 1..Len(q) : q[m].piece = q[n].piece => m = n
  <2> SUFFICES ASSUME NEW m \in 1..Len(q), NEW n \in 1..Len(q), q[m].piece = q[n].piece
               PROVE  m = n
    OBVIOUS
  <2>1. m + 1 = n + 1  BY <1>2, <1>3 DEF Sole
  <2> QED  BY <1>3, <2>1
<1> QED  BY <1>1, <1>2, <1>3, <1>4, <1>5, <1>6 DEF Sole

LEMMA SoleLess ==
  ASSUME NEW ws, NEW bs, NEW past, Sole(ws, bs, past), NEW less, less \subseteq past
  PROVE  Sole(ws, bs, less)
  BY DEF Sole

\* New pieces are available and to be saved.
LEMMA GrownSaved ==
  ASSUME NEW S, NEW sf, NEW bs, NEW ss \in Seq(S), NEW av, Grown(sf, bs, ss, av),
         NEW more \in S, av \subseteq more
  PROVE  Grown(sf, bs, Append(ss, more), more)
<1>1. PICK q : q = Append(ss, more)  OBVIOUS
<1>2. /\ Len(q) = Len(ss) + 1 /\ Len(ss) \in Nat /\ q[Len(ss) + 1] = more
      /\ \A n \in 1..Len(ss) : q[n] = ss[n]
  BY <1>1, AppendFacts, QueueFacts
<1>3. \A n \in 1..Len(q) : n \in 1..Len(ss) \/ n = Len(ss) + 1  BY <1>2
<1>4. \A n \in 1..Len(q) : sf \subseteq q[n] /\ q[n] \subseteq more  BY <1>2, <1>3 DEF Grown
<1>5. ASSUME NEW m \in 1..Len(q), NEW n \in 1..Len(q), m <= n PROVE q[m] \subseteq q[n]
  <2>1. CASE n = Len(ss) + 1  BY <1>2, <1>4, <2>1
  <2>2. CASE n \in 1..Len(ss)
    <3>1. m \in 1..Len(ss)  BY <1>2, <1>5, <2>2
    <3> QED  BY <1>2, <1>5, <2>2, <3>1 DEF Grown
  <2> QED  BY <1>3, <2>1, <2>2
<1>6. \A m \in 1..Len(bs), n \in 1..Len(q) : bs[m] \subseteq q[n]  BY <1>2, <1>3 DEF Grown
<1>7. sf \subseteq more /\ \A n \in 1..Len(bs) : bs[n] \subseteq more  BY DEF Grown
<1> QED  BY <1>1, <1>4, <1>5, <1>6, <1>7 DEF Grown

LEMMA GrownStolen ==
  ASSUME NEW sf, NEW bs, NEW ss, NEW av, Grown(sf, bs, ss, av)
  PROVE  Grown(sf, ss, <<>>, av)
  BY DEF Grown

\* The first state is saved, or a part of it.
LEMMA GrownKept ==
  ASSUME NEW S, NEW sf, NEW bs \in Seq(S), bs # <<>>, NEW ss, NEW av, Grown(sf, bs, ss, av),
         NEW new, sf \subseteq new, new \subseteq Head(bs)
  PROVE  Grown(new, Tail(bs), ss, av)
<1>1. PICK q : q = Tail(bs)  OBVIOUS
<1>2. /\ Len(bs) \in Nat /\ Len(bs) > 0 /\ Head(bs) = bs[1] /\ Len(q) = Len(bs) - 1
      /\ \A n \in 1..Len(q) : q[n] = bs[n+1]
  BY <1>1, QueueFacts
<1>3. 1 \in 1..Len(bs) /\ \A n \in 1..Len(q) : n + 1 \in 1..Len(bs) /\ 1 <= n + 1 /\ n \in Nat
  BY <1>2
<1>4. \A n \in 1..Len(q) : Head(bs) \subseteq q[n] /\ q[n] \subseteq av  BY <1>2, <1>3 DEF Grown
<1>5. \A n \in 1..Len(ss) : Head(bs) \subseteq ss[n] /\ ss[n] \subseteq av
  BY <1>2, <1>3 DEF Grown
<1>6. Head(bs) \subseteq av  BY <1>2, <1>3 DEF Grown
<1>7. ASSUME NEW m \in 1..Len(q), NEW n \in 1..Len(q), m <= n PROVE q[m] \subseteq q[n]
  <2>1. PICK j, k : j = m + 1 /\ k = n + 1  OBVIOUS
  <2>2. j \in 1..Len(bs) /\ k \in 1..Len(bs) /\ j <= k  BY <1>3, <1>7, <2>1
  <2>3. bs[j] \subseteq bs[k]  BY <2>2 DEF Grown
  <2>4. q[m] = bs[j] /\ q[n] = bs[k]  BY <1>2, <2>1
  <2> QED  BY <2>3, <2>4
<1>8. \A m \in 1..Len(q), n \in 1..Len(ss) : q[m] \subseteq ss[n]  BY <1>2, <1>3 DEF Grown
<1>9. \A m, n \in 1..Len(ss) : m <= n => ss[m] \subseteq ss[n]  BY DEF Grown
<1> QED  BY <1>1, <1>4, <1>5, <1>6, <1>7, <1>8, <1>9 DEF Grown

\* A written piece is to be verified, or has a result.
LEMMA PastWritten ==
  ASSUME NEW S, NEW vs \in Seq(S), NEW p \in S, NEW T, NEW rs \in Seq(T), NEW r \in T,
         r.piece = p, NEW bv, NEW av
  PROVE  /\ Past(Append(vs, p), bv, rs, av) \subseteq Past(vs, bv, rs, av) \cup {p}
         /\ Past(vs, bv, Append(rs, r), av) \subseteq Past(vs, bv, rs, av) \cup {p}
<1>1. PICK q : q = Append(vs, p)  OBVIOUS
<1>2. \A n \in 1..Len(q) : q[n] = p \/ \E m \in 1..Len(vs) : q[n] = vs[m]
  <2>1. /\ Len(q) = Len(vs) + 1 /\ Len(vs) \in Nat /\ q[Len(vs) + 1] = p
        /\ \A n \in 1..Len(vs) : q[n] = vs[n]
    BY <1>1, AppendFacts, QueueFacts
  <2>2. \A n \in 1..Len(q) : n \in 1..Len(vs) \/ n = Len(vs) + 1  BY <2>1
  <2> QED  BY <2>1, <2>2
<1>3. PICK u : u = Append(rs, r)  OBVIOUS
<1>4. \A n \in 1..Len(u) : u[n].piece = p \/ \E m \in 1..Len(rs) : u[n].piece = rs[m].piece
  <2>1. /\ Len(u) = Len(rs) + 1 /\ Len(rs) \in Nat /\ u[Len(rs) + 1] = r
        /\ \A n \in 1..Len(rs) : u[n] = rs[n]
    BY <1>3, AppendFacts, QueueFacts
  <2>2. \A n \in 1..Len(u) : n \in 1..Len(rs) \/ n = Len(rs) + 1  BY <2>1
  <2> QED  BY <2>1, <2>2
<1>5. Past(q, bv, rs, av) \subseteq Past(vs, bv, rs, av) \cup {p}  BY <1>2 DEF Past
<1>6. Past(vs, bv, u, av) \subseteq Past(vs, bv, rs, av) \cup {p}  BY <1>4 DEF Past
<1> QED  BY <1>1, <1>3, <1>5, <1>6

\* A piece that was verified has a result.
LEMMA PastVerified ==
  ASSUME NEW S, NEW bv \in Seq(S), bv # <<>>, NEW T, NEW rs \in Seq(T), NEW r \in T,
         r.piece = Head(bv), NEW vs, NEW av
  PROVE  Past(vs, Tail(bv), Append(rs, r), av) \subseteq Past(vs, bv, rs, av)
<1>1. PICK q : q = Tail(bv)  OBVIOUS
<1>2. \A n \in 1..Len(q) : \E m \in 1..Len(bv) : q[n] = bv[m]
  <2>1. /\ Len(bv) \in Nat /\ Len(q) = Len(bv) - 1 /\ \A n \in 1..Len(q) : q[n] = bv[n+1]
    BY <1>1, QueueFacts
  <2> QED  BY <2>1
<1>3. Head(bv) = bv[1] /\ 1 \in 1..Len(bv)  BY QueueFacts
<1>4. PICK u : u = Append(rs, r)  OBVIOUS
<1>5. \A n \in 1..Len(u) : u[n].piece = bv[1] \/ \E m \in 1..Len(rs) : u[n].piece = rs[m].piece
  <2>1. /\ Len(u) = Len(rs) + 1 /\ Len(rs) \in Nat /\ u[Len(rs) + 1] = r
        /\ \A n \in 1..Len(rs) : u[n] = rs[n]
    BY <1>4, AppendFacts, QueueFacts
  <2>2. \A n \in 1..Len(u) : n \in 1..Len(rs) \/ n = Len(rs) + 1  BY <2>1
  <2> QED  BY <1>3, <2>1, <2>2
<1>6. Past(vs, q, u, av) \subseteq Past(vs, bv, rs, av)  BY <1>2, <1>3, <1>5 DEF Past
<1> QED  BY <1>1, <1>4, <1>6

\* Where the requests of a call end, what was opened is remembered.
LEMMA DealsFacts ==
  ASSUME cache \in [DOMAIN files -> {"closed", "open", "failed"}], events \in 0..MaxEvents,
         NEW cells, NEW reading, NEW done, Deals(cells, reading, done)
  PROVE  /\ done <= Passable(cells, reading)
         /\ cache' \in [DOMAIN files -> {"closed", "open", "failed"}]
         /\ events' \in 0..MaxEvents
<1>1. done <= Passable(cells, reading)  BY DEF Deals
<1>2. \A refused : Opened(cells, done, refused) \in [DOMAIN files -> {"closed", "open", "failed"}]
  BY DEF Opened
<1>3. \E refused : cache' = Opened(cells, done, refused)  BY DEF Deals
<1>4. \/ events' = events
      \/ events < MaxEvents /\ events' = events + 1
  BY DEF Deals
<1>5. events' \in 0..MaxEvents  BY <1>4, BoundsAssumption
<1> QED  BY <1>1, <1>2, <1>3, <1>5

\* All that can be dealt with is, unless a call fails.
LEMMA DealsAll ==
  ASSUME files \in Seq(Nat), cache \in [DOMAIN files -> {"closed", "open", "failed"}],
         NEW cells \in Seq(Cell), NEW reading \in BOOLEAN, NEW done \in Nat,
         Deals(cells, reading, done), ~ (done < Passable(cells, reading))
  PROVE  done = Passable(cells, reading) /\ cache' = Opened(cells, Passable(cells, reading), 0)
<1>1. PICK able : able = Passable(cells, reading)  OBVIOUS
<1>2. able \in Nat  BY <1>1, StuckCell
<1>3. done <= able /\ ~ (done < able)  BY <1>1 DEF Deals
<1>4. done = able  BY <1>2, <1>3
<1>5. cache' = Opened(cells, done, 0)  BY <1>1, <1>3 DEF Deals
<1> QED  BY <1>1, <1>4, <1>5

LEMMA InitHolds ==
  ASSUME Init PROVE IInv
<1>1. Typed
  <2>1. fetchable \subseteq Pieces  BY DEF Init, Wanted
  <2>2. batch \in Batch  BY DEF Init, NoBatch, Batch
  <2>3. written \in 0..MaxWrites /\ events \in 0..MaxEvents  BY BoundsAssumption DEF Init
  <2>4. cache \in [DOMAIN files -> {"closed", "open", "failed"}]  BY DEF Init
  <2>5. wanted \subseteq housed /\ housed \subseteq DOMAIN files  BY DEF Init
  <2>6. /\ writes \in Seq(Request) /\ reads \in Seq(TorrentBlocks)
        /\ verifies \in Seq(Pieces) /\ saves \in Seq(SUBSET Pieces)
        /\ results \in Seq(Result)
    BY DEF Init
  <2>7. /\ files \in Layouts /\ wanted \subseteq DOMAIN files /\ loop = "looping" /\ stop = FALSE
        /\ available = {} /\ stateFile = {}
    BY DEF Init
  <2> QED  BY <2>1, <2>2, <2>3, <2>4, <2>5, <2>6, <2>7 DEF Typed
<1>2. DiskTrue(files, disk)
  <2>1. files \in Seq(Nat) /\ DOMAIN files = 1..Len(files)  BY LayoutFacts DEF Init
  <2>2. disk = [f \in DOMAIN files |-> <<>>]  BY DEF Init
  <2> QED  BY <2>1, <2>2 DEF DiskTrue
<1>3. Sole(writes, batch.writes, Past(verifies, batch.verifies, results, available))
  BY DEF Init, NoBatch, Sole
<1>4. Kept(files, disk, results, available)  BY DEF Init, Kept
<1>5. Grown(stateFile, batch.saves, saves, available)  BY DEF Init, NoBatch, Grown
<1>6. Told(files, disk, answer)  BY DEF Init, Told
<1>7. Explained(files, disk, cache, answer)  BY DEF Init, Explained
<1> QED  BY <1>1, <1>2, <1>3, <1>4, <1>5, <1>6, <1>7 DEF IInv

LEMMA SameSets ==
  ASSUME files' = files
  PROVE  /\ Pieces' = Pieces /\ TorrentBlocks' = TorrentBlocks
         /\ Request' = Request /\ Result' = Result /\ Batch' = Batch
<1>1. Pieces' = Pieces  BY DEF Pieces
<1>2. TorrentBlocks' = TorrentBlocks  BY <1>1 DEF TorrentBlocks, AllBlocks
<1>3. Request' = Request /\ Result' = Result  BY <1>1 DEF Request, Result
<1> QED  BY <1>1, <1>2, <1>3 DEF Batch

\* Steps that leave the torrent and its disk alone.
LEMMA SignalFacts ==
  ASSUME Typed, Signal
  PROVE  loop' \in {"looping", "serving", "tested", "waiting", "ended", "crashed"}
  BY DEF Typed, Signal

LEMMA WriteBlocksStep ==
  ASSUME IInv, NEW i \in Pieces, NEW good \in BOOLEAN, WriteBlocks(i, good)
  PROVE  IInv'
<1>1. PICK w : w = [piece |-> i, good |-> good]  OBVIOUS
<1>2. w \in Request /\ w.piece = i  BY <1>1 DEF Request
<1>3. writes \in Seq(Request) /\ batch.writes \in Seq(Request)  BY DEF IInv, Typed, Batch
<1>4. /\ writes' = Append(writes, w) /\ files' = files /\ disk' = disk /\ batch' = batch
      /\ verifies' = verifies /\ results' = results /\ available' = available
      /\ stateFile' = stateFile /\ saves' = saves /\ answer' = answer /\ cache' = cache
  BY <1>1 DEF WriteBlocks, torrentVars, diskVars, bundleVars
<1>5. /\ \A n \in 1..Len(writes) : writes[n].piece # i
      /\ \A n \in 1..Len(batch.writes) : batch.writes[n].piece # i
      /\ i \notin Past(verifies, batch.verifies, results, available)
  <2>1. i \notin available /\ ~InFlight(i)  BY DEF WriteBlocks
  <2>2. /\ DOMAIN writes = 1..Len(writes) /\ DOMAIN batch.writes = 1..Len(batch.writes)
        /\ DOMAIN verifies = 1..Len(verifies)
        /\ DOMAIN batch.verifies = 1..Len(batch.verifies)
        /\ DOMAIN results = 1..Len(results)
    BY DEF IInv, Typed, Batch
  <2>3. \A n \in 1..Len(writes) : writes[n].piece # i  BY <2>1, <2>2 DEF InFlight, Mine, ToSet
  <2>4. \A n \in 1..Len(batch.writes) : batch.writes[n].piece # i
    BY <2>1, <2>2 DEF InFlight, Mine, ToSet
  <2>5. /\ \A n \in 1..Len(verifies) : verifies[n] # i
        /\ \A n \in 1..Len(batch.verifies) : batch.verifies[n] # i
        /\ \A n \in 1..Len(results) : results[n].piece # i
    BY <2>1, <2>2 DEF InFlight, Mine, ToSet
  <2>6. i \notin Past(verifies, batch.verifies, results, available)  BY <2>1, <2>5 DEF Past
  <2> QED  BY <2>3, <2>4, <2>6
<1>6. Typed'
  <2>1. written' \in 0..MaxWrites
    BY BoundsAssumption DEF IInv, Typed, WriteBlocks
  <2>2. writes' \in Seq(Request)  BY <1>2, <1>3, <1>4, AppendFacts
  <2>3. loop' \in {"looping", "serving", "tested", "waiting", "ended", "crashed"}
    BY SignalFacts DEF IInv, WriteBlocks
  <2>4. /\ wanted' = wanted /\ housed' = housed /\ fetchable' = fetchable
        /\ reads' = reads /\ saves' = saves /\ events' = events /\ stop' = stop
    BY DEF WriteBlocks, torrentVars
  <2> QED  BY <1>4, <2>1, <2>2, <2>3, <2>4, SameSets DEF IInv, Typed
<1>7. Sole(writes', batch.writes, Past(verifies, batch.verifies, results, available))
  BY <1>2, <1>3, <1>4, <1>5, SoleRequested DEF IInv
<1> QED  BY <1>4, <1>6, <1>7 DEF IInv

LEMMA ReadBlockStep ==
  ASSUME IInv, NEW b \in TorrentBlocks, ReadBlock(b)
  PROVE  IInv'
<1>1. /\ reads' = Append(reads, b) /\ events' = events + 1 /\ events < MaxEvents
      /\ writes' = writes /\ files' = files /\ disk' = disk /\ batch' = batch
      /\ verifies' = verifies /\ results' = results /\ available' = available
      /\ stateFile' = stateFile /\ saves' = saves /\ answer' = answer
      /\ wanted' = wanted /\ housed' = housed /\ fetchable' = fetchable /\ cache' = cache
      /\ written' = written /\ stop' = stop
  BY DEF ReadBlock, torrentVars, diskVars, bundleVars
<1>2. reads' \in Seq(TorrentBlocks)  BY <1>1, AppendFacts DEF IInv, Typed
<1>3. events' \in 0..MaxEvents  BY <1>1, BoundsAssumption DEF IInv, Typed
<1>4. loop' \in {"looping", "serving", "tested", "waiting", "ended", "crashed"}
  BY SignalFacts DEF IInv, ReadBlock
<1>5. Typed'
  BY <1>1, <1>2, <1>3, <1>4, SameSets DEF IInv, Typed
<1> QED  BY <1>1, <1>5 DEF IInv

LEMMA ProcessIoResultsStep ==
  ASSUME IInv, ProcessIoResults
  PROVE  IInv'
<1>1. PICK good : good = {results[n].piece :
                            n \in {k \in DOMAIN results : results[k].result = "good"}}
  OBVIOUS
<1>2. /\ writes' = writes /\ reads' = reads /\ files' = files /\ disk' = disk /\ batch' = batch
      /\ verifies' = verifies /\ stateFile' = stateFile /\ answer' = answer
      /\ wanted' = wanted /\ housed' = housed /\ fetchable' = fetchable /\ cache' = cache
      /\ written' = written /\ events' = events /\ stop' = stop
  BY DEF ProcessIoResults, torrentVars, diskVars, countVars
<1>3. \/ /\ loop' = "crashed" /\ available' = available /\ saves' = saves /\ results' = results
      \/ /\ available' = available \cup good /\ results' = <<>>
         /\ saves' = IF good = {} THEN saves ELSE Append(saves, available')
         /\ loop' = loop \/ Signal
  BY <1>1 DEF ProcessIoResults
<1>4. /\ results \in Seq(Result) /\ DOMAIN results = 1..Len(results)
      /\ \A n \in 1..Len(results) : results[n] \in Result
  BY DEF IInv, Typed
<1>5. good \subseteq Pieces  BY <1>1, <1>4 DEF Result
<1>6. \A i \in good : OnDiskIn(files, disk, i)  BY <1>1, <1>4 DEF IInv, Kept
<1>7. good \subseteq {results[n].piece : n \in 1..Len(results)}  BY <1>1, <1>4
<1>8. CASE /\ loop' = "crashed" /\ available' = available /\ saves' = saves
           /\ results' = results
  <2>1. Typed'
    BY <1>2, <1>8, SameSets DEF IInv, Typed
  <2> QED  BY <1>2, <1>8, <2>1 DEF IInv
<1>9. CASE /\ available' = available \cup good /\ results' = <<>>
           /\ saves' = IF good = {} THEN saves ELSE Append(saves, available')
           /\ loop' = loop \/ Signal
  <2>1. available' \in SUBSET Pieces  BY <1>5, <1>9 DEF IInv, Typed
  <2>2. saves \in Seq(SUBSET Pieces)  BY DEF IInv, Typed
  <2>3. saves' \in Seq(SUBSET Pieces)  BY <1>9, <2>1, <2>2, AppendFacts
  <2>4. loop' \in {"looping", "serving", "tested", "waiting", "ended", "crashed"}
    BY <1>9, SignalFacts DEF IInv, Typed
  <2>5. results' \in Seq(Result)  BY <1>9
  <2>6. Typed'
    BY <1>2, <2>1, <2>3, <2>4, <2>5, SameSets DEF IInv, Typed
  <2>7. Past(verifies, batch.verifies, <<>>, available \cup good)
        \subseteq Past(verifies, batch.verifies, results, available)
    BY <1>7 DEF Past
  <2>8. Sole(writes, batch.writes, Past(verifies, batch.verifies, <<>>, available \cup good))
    BY <2>7, SoleLess DEF IInv
  <2>9. Kept(files, disk, <<>>, available \cup good)  BY <1>6 DEF IInv, Kept
  <2>10. Grown(stateFile, batch.saves, saves', available')
    <3>1. CASE good = {}  BY <1>9, <3>1 DEF IInv
    <3>2. CASE good # {}
      <4>1. Grown(stateFile, batch.saves, saves, available)  BY DEF IInv
      <4>2. available \subseteq available' /\ saves' = Append(saves, available')
        BY <1>9, <3>2
      <4> QED  BY <2>1, <2>2, <4>1, <4>2, GrownSaved
    <3> QED  BY <3>1, <3>2
  <2> QED  BY <1>2, <1>9, <2>6, <2>8, <2>9, <2>10 DEF IInv
<1> QED  BY <1>3, <1>8, <1>9

LEMMA ChangeMaskStep ==
  ASSUME IInv, NEW unmasked \in SUBSET DOMAIN files, ChangeMask(unmasked)
  PROVE  IInv'
<1>1. /\ wanted' = unmasked /\ housed' = housed \cup unmasked
      /\ fetchable' = fetchable \cup Wanted(unmasked)
      /\ events' = events + 1 /\ events < MaxEvents
      /\ writes' = writes /\ reads' = reads /\ files' = files /\ disk' = disk /\ batch' = batch
      /\ verifies' = verifies /\ results' = results /\ available' = available
      /\ stateFile' = stateFile /\ saves' = saves /\ answer' = answer /\ cache' = cache
      /\ written' = written /\ loop' = loop /\ stop' = stop
  BY DEF ChangeMask, queueVars, diskVars, bundleVars
<1>2. events' \in 0..MaxEvents  BY <1>1, BoundsAssumption DEF IInv, Typed
<1>3. fetchable' \subseteq Pieces
  <2>1. Wanted(unmasked) \subseteq Pieces  BY DEF Wanted
  <2> QED  BY <1>1, <2>1 DEF IInv, Typed
<1>4. wanted' \subseteq housed' /\ housed' \subseteq DOMAIN files  BY <1>1 DEF IInv, Typed
<1>5. Typed'
  BY <1>1, <1>2, <1>3, <1>4, SameSets DEF IInv, Typed
<1> QED  BY <1>1, <1>5 DEF IInv

LEMMA DestroyStep ==
  ASSUME IInv, Destroy
  PROVE  IInv'
<1>1. /\ writes' = writes /\ reads' = reads /\ files' = files /\ disk' = disk /\ batch' = batch
      /\ verifies' = verifies /\ results' = results /\ available' = available
      /\ stateFile' = stateFile /\ saves' = saves /\ answer' = answer
      /\ wanted' = wanted /\ housed' = housed /\ fetchable' = fetchable /\ cache' = cache
      /\ written' = written /\ events' = events /\ stop' = TRUE
  BY DEF Destroy, torrentVars, queueVars, diskVars, bundleVars, countVars
<1>2. loop' \in {"looping", "serving", "tested", "waiting", "ended", "crashed"}
  BY SignalFacts DEF IInv, Destroy
<1>3. Typed'
  BY <1>1, <1>2, SameSets DEF IInv, Typed
<1> QED  BY <1>1, <1>3 DEF IInv

\* The thread steals the queues.
LEMMA StealStep ==
  ASSUME IInv, Steal
  PROVE  IInv'
<1>1. /\ batch' = [writes |-> writes, reads |-> reads, verifies |-> verifies, saves |-> saves]
      /\ writes' = <<>> /\ reads' = <<>> /\ verifies' = <<>> /\ saves' = <<>>
      /\ loop' = "serving" /\ answer' = [kind |-> "none"]
      /\ files' = files /\ disk' = disk /\ results' = results /\ available' = available
      /\ stateFile' = stateFile /\ wanted' = wanted /\ housed' = housed
      /\ fetchable' = fetchable /\ cache' = cache
      /\ written' = written /\ events' = events /\ stop' = stop
  BY DEF Steal, torrentVars, diskVars, bundleVars, countVars
<1>2. batch' \in Batch  BY <1>1 DEF IInv, Typed, Batch
<1>3. /\ writes' \in Seq(Request) /\ reads' \in Seq(TorrentBlocks)
      /\ verifies' \in Seq(Pieces) /\ saves' \in Seq(SUBSET Pieces)
  BY <1>1
<1>4. Typed'
  BY <1>1, <1>2, <1>3, SameSets DEF IInv, Typed
<1>5. Past(<<>>, verifies, results, available)
      \subseteq Past(verifies, batch.verifies, results, available)
  BY DEF Past
<1>6. Sole(<<>>, writes, Past(<<>>, verifies, results, available))
  BY <1>5, SoleStolen DEF IInv
<1>7. Grown(stateFile, saves, <<>>, available)  BY GrownStolen DEF IInv
<1>8. /\ Told(files, disk, [kind |-> "none"])
      /\ Explained(files, disk, cache, [kind |-> "none"])
  BY DEF Told, Explained
<1>9. /\ (batch.writes)' = writes /\ (batch.verifies)' = verifies
      /\ (batch.saves)' = saves
  BY <1>1
<1> QED  BY <1>1, <1>4, <1>6, <1>7, <1>8, <1>9 DEF IInv

\* The rest of a turn of the thread.
LEMMA TurnStep ==
  ASSUME IInv, TestQueues \/ Wait \/ TimeOut \/ End \/ UNCHANGED vars
  PROVE  IInv'
<1>1. /\ writes' = writes /\ reads' = reads /\ files' = files /\ disk' = disk /\ batch' = batch
      /\ verifies' = verifies /\ results' = results /\ available' = available
      /\ stateFile' = stateFile /\ saves' = saves /\ answer' = answer
      /\ wanted' = wanted /\ housed' = housed /\ fetchable' = fetchable /\ cache' = cache
      /\ written' = written /\ events' = events /\ stop' = stop
  BY DEF TestQueues, Wait, TimeOut, End, vars, torrentVars, queueVars, diskVars, bundleVars,
         countVars
<1>2. loop' \in {"looping", "serving", "tested", "waiting", "ended", "crashed"}
  BY DEF IInv, Typed, TestQueues, Wait, TimeOut, End, vars
<1>3. Typed'
  BY <1>1, <1>2, SameSets DEF IInv, Typed
<1> QED  BY <1>1, <1>3 DEF IInv

----------------------------------------------------------------------------
\* The requests of a batch.

LEMMA ServeWriteStep ==
  ASSUME IInv, NEW done \in Nat, ServeWrite(done)
  PROVE  IInv'
<1>1. PICK w : w = Head(batch.writes)  OBVIOUS
<1>2. PICK cells : cells = CellsOfBlocks(Blocks(files, w.piece))  OBVIOUS
<1>3. PICK r : r = [piece |-> w.piece, result |-> "unwritten"]  OBVIOUS
<1>4. /\ batch.writes \in Seq(Request) /\ batch.writes # <<>> /\ w \in Request
      /\ w.piece \in Pieces /\ w.good \in BOOLEAN
      /\ Tail(batch.writes) \in Seq(Request)
  <2>1. batch.writes \in Seq(Request) /\ batch.writes # <<>>
    BY DEF IInv, Typed, Batch, ServeWrite
  <2>2. w \in Request  BY <1>1, <2>1, QueueFacts
  <2> QED  BY <2>1, <2>2, QueueFacts DEF Request
<1>5. /\ batch' = [batch EXCEPT !.writes = Tail(batch.writes)]
      /\ writes' = writes /\ reads' = reads /\ files' = files /\ saves' = saves
      /\ available' = available /\ stateFile' = stateFile /\ stop' = stop
      /\ wanted' = wanted /\ housed' = housed /\ fetchable' = fetchable /\ written' = written
  <2>1. Take  BY DEF ServeWrite
  <2> QED  BY <1>4, <2>1 DEF Take, ServeWrite, torrentVars
<1>6. /\ Deals(cells, FALSE, done)
      /\ disk' = Written(cells, done, w.good)
      /\ loop' \in {loop, "crashed"}
      /\ \/ /\ done = Len(cells)
            /\ verifies' = Append(verifies, w.piece) /\ results' = results
         \/ /\ results' = Append(results, r) /\ verifies' = verifies
      /\ answer'.kind = "write" /\ answer'.piece = w.piece /\ answer'.good = w.good
      /\ answer'.success = (done = Len(cells))
      /\ answer'.broken = (done < Passable(cells, FALSE))
  BY <1>1, <1>2, <1>3 DEF ServeWrite
<1>7. /\ done <= Passable(cells, FALSE)
      /\ cache' \in [DOMAIN files -> {"closed", "open", "failed"}]
      /\ events' \in 0..MaxEvents
  BY <1>6, DealsFacts DEF IInv, Typed
<1>8. files \in Layouts /\ DiskTrue(files, disk)  BY DEF IInv, Typed
<1>9. r \in Result /\ r.piece = w.piece /\ r.result # "good"  BY <1>3, <1>4 DEF Result
<1>10. batch' \in Batch  BY <1>4, <1>5 DEF IInv, Typed, Batch
<1>11. /\ (batch.writes)' = Tail(batch.writes) /\ (batch.verifies)' = batch.verifies
       /\ (batch.saves)' = batch.saves
  BY <1>5 DEF IInv, Typed, Batch
<1>12. verifies \in Seq(Pieces) /\ results \in Seq(Result)  BY DEF IInv, Typed
<1>13. verifies' \in Seq(Pieces) /\ results' \in Seq(Result)
  <2>1. Append(verifies, w.piece) \in Seq(Pieces)  BY <1>4, <1>12, AppendFacts
  <2>2. Append(results, r) \in Seq(Result)  BY <1>9, <1>12, AppendFacts
  <2> QED  BY <1>6, <1>12, <2>1, <2>2
<1>14. Typed'
  <2>1. loop' \in {"looping", "serving", "tested", "waiting", "ended", "crashed"}
    BY <1>6 DEF IInv, Typed
  <2> QED
    BY <1>5, <1>7, <1>10, <1>13, <2>1, SameSets DEF IInv, Typed
<1>15. DiskTrue(files, Written(cells, done, w.good))
  <2>1. cells \in Seq(Cell) /\ \A n \in 1..Len(cells) : CellTrue(cells[n])
    BY <1>2, <1>4, <1>8, PieceCells
  <2>2. files \in Seq(Nat)  BY <1>8, LayoutFacts
  <2> QED  BY <1>4, <1>7, <1>8, <2>1, <2>2, WrittenFacts
<1>16. /\ w.piece \notin Past(verifies, batch.verifies, results, available)
       /\ Sole(writes, Tail(batch.writes), Past(verifies', batch.verifies, results', available))
  <2>1. Sole(writes, batch.writes, Past(verifies, batch.verifies, results, available))
    BY DEF IInv
  <2>2. 1 \in 1..Len(batch.writes) /\ batch.writes[1] = w  BY <1>1, <1>4, QueueFacts
  <2>3. Past(verifies', batch.verifies, results', available)
        \subseteq Past(verifies, batch.verifies, results, available) \cup {w.piece}
    <3>1. PICK p : p = w.piece  OBVIOUS
    <3>2. p \in Pieces /\ r.piece = p  BY <1>4, <1>9, <3>1
    <3>3. /\ Past(Append(verifies, p), batch.verifies, results, available)
             \subseteq Past(verifies, batch.verifies, results, available) \cup {p}
          /\ Past(verifies, batch.verifies, Append(results, r), available)
             \subseteq Past(verifies, batch.verifies, results, available) \cup {p}
      BY <1>9, <1>12, <3>2, PastWritten
    <3>4. CASE verifies' = Append(verifies, w.piece) /\ results' = results
      BY <3>1, <3>3, <3>4
    <3>5. CASE results' = Append(results, r) /\ verifies' = verifies
      BY <3>1, <3>3, <3>5
    <3> QED  BY <1>6, <3>4, <3>5
  <2>4. Sole(writes, Tail(batch.writes), Past(verifies', batch.verifies, results', available))
    BY <1>1, <1>4, <2>1, <2>3, SoleWritten
  <2> QED  BY <2>1, <2>2, <2>4 DEF Sole
<1>17. Kept(files, Written(cells, done, w.good), results', available)
  <2>1. ASSUME NEW i \in Pieces, i # w.piece, OnDiskIn(files, disk, i)
        PROVE  OnDiskIn(files, Written(cells, done, w.good), i)
    BY <1>2, <1>4, <1>7, <1>8, <2>1, WriteKeeps
  <2>2. ASSUME NEW i \in available PROVE OnDiskIn(files, Written(cells, done, w.good), i)
    <3>1. i # w.piece /\ i \in Pieces  BY <1>16 DEF Past, IInv, Typed
    <3>2. OnDiskIn(files, disk, i)  BY DEF IInv, Kept
    <3> QED  BY <2>1, <3>1, <3>2
  <2>3. ASSUME NEW n \in 1..Len(results), results[n].result = "good"
        PROVE  OnDiskIn(files, Written(cells, done, w.good), results[n].piece)
    <3>1. results[n].piece # w.piece  BY <1>16 DEF Past
    <3>2. results[n].piece \in Pieces
      <4>1. results[n] \in Result  BY <1>12, QueueFacts
      <4> QED  BY <4>1 DEF Result
    <3>3. OnDiskIn(files, disk, results[n].piece)  BY <2>3 DEF IInv, Kept
    <3> QED  BY <2>1, <3>1, <3>2, <3>3
  <2>4. \A n \in 1..Len(results') : \/ n \in 1..Len(results) /\ results'[n] = results[n]
                                    \/ results'[n].result # "good"
    <3>1. CASE results' = results  BY <3>1
    <3>2. CASE results' = Append(results, r)
      <4>1. /\ Len(results') = Len(results) + 1 /\ Len(results) \in Nat
            /\ results'[Len(results) + 1] = r
            /\ \A n \in 1..Len(results) : results'[n] = results[n]
        BY <1>9, <1>12, <3>2, AppendFacts, QueueFacts
      <4>2. \A n \in 1..Len(results') : n \in 1..Len(results) \/ n = Len(results) + 1
        BY <4>1
      <4> QED  BY <1>9, <4>1, <4>2
    <3> QED  BY <1>6, <3>1, <3>2
  <2> QED  BY <2>2, <2>3, <2>4 DEF Kept
<1>18. Told(files, Written(cells, done, w.good), answer')
  <2>1. ASSUME done = Len(cells), NEW address \in PieceAddresses(files, w.piece)
        PROVE  StoredIn(files, Written(cells, done, w.good), address)
               = IF w.good THEN address ELSE Bad
    BY <1>2, <1>4, <1>7, <1>8, <2>1, WriteStores
  <2> QED  BY <1>6, <2>1 DEF Told
<1>19. Explained(files, Written(cells, done, w.good), cache', answer')
  <2>1. PICK p : p = w.piece  OBVIOUS
  <2>2. ASSUME done # Len(cells), ~ (done < Passable(cells, FALSE))
        PROVE  \/ RefusedIn(files, cache', p * PieceSize, SizeOfPiece(files, p))
               \/ SpoiltIn(files, p)
    <3>1. files \in Seq(Nat) /\ cells \in Seq(Cell) /\ p \in Pieces
      BY <1>2, <1>4, <1>8, <2>1, LayoutFacts, PieceCells
    <3>2. cache \in [DOMAIN files -> {"closed", "open", "failed"}]  BY DEF IInv, Typed
    <3>3. /\ done = Passable(cells, FALSE)
          /\ cache' = Opened(cells, Passable(cells, FALSE), 0)
      BY <1>6, <2>2, <3>1, <3>2, DealsAll
    <3>4. cells = CellsOfBlocks(Blocks(files, p)) /\ Passable(cells, FALSE) # Len(cells)
      BY <1>2, <2>1, <2>2, <3>3
    <3> QED  BY <1>8, <3>1, <3>2, <3>3, <3>4, WriteFails
  <2>3. answer'.kind = "write" /\ answer'.piece = p  BY <1>6, <2>1
  <2>4. ~answer'.success /\ ~answer'.broken =>
          done # Len(cells) /\ ~ (done < Passable(cells, FALSE))
    BY <1>6
  <2> QED  BY <2>2, <2>3, <2>4 DEF Explained
<1> QED  BY <1>5, <1>6, <1>11, <1>14, <1>15, <1>16, <1>17, <1>18, <1>19 DEF IInv

LEMMA ServeReadStep ==
  ASSUME IInv, NEW done \in Nat, ServeRead(done)
  PROVE  IInv'
<1>1. PICK b : b = Head(batch.reads)  OBVIOUS
<1>2. PICK cells : cells = CellsOfBlocks(<<b>>)  OBVIOUS
<1>3. /\ batch.reads \in Seq(TorrentBlocks) /\ batch.reads # <<>> /\ b \in TorrentBlocks
      /\ Tail(batch.reads) \in Seq(TorrentBlocks)
  <2>1. batch.reads \in Seq(TorrentBlocks) /\ batch.reads # <<>>
    BY DEF IInv, Typed, Batch, ServeRead
  <2> QED  BY <1>1, <2>1, QueueFacts
<1>4. /\ batch' = [batch EXCEPT !.reads = Tail(batch.reads)]
      /\ writes' = writes /\ reads' = reads /\ files' = files /\ saves' = saves
      /\ verifies' = verifies /\ results' = results /\ disk' = disk /\ loop' = loop
      /\ available' = available /\ stateFile' = stateFile /\ stop' = stop
      /\ wanted' = wanted /\ housed' = housed /\ fetchable' = fetchable /\ written' = written
  <2>1. Take  BY DEF ServeRead
  <2> QED  BY <1>3, <2>1 DEF Take, ServeRead, torrentVars, queueVars, bundleVars
<1>5. /\ Deals(cells, TRUE, done)
      /\ answer'.kind = "read" /\ answer'.block = b
      /\ answer'.success = (done = Len(cells))
      /\ answer'.success => answer'.data = Content(cells)
      /\ answer'.broken = (done < Passable(cells, TRUE))
  BY <1>1, <1>2 DEF ServeRead
<1>6. /\ done <= Passable(cells, TRUE)
      /\ cache' \in [DOMAIN files -> {"closed", "open", "failed"}]
      /\ events' \in 0..MaxEvents
  BY <1>5, DealsFacts DEF IInv, Typed
<1>7. files \in Layouts /\ DiskTrue(files, disk)  BY DEF IInv, Typed
<1>8. batch' \in Batch  BY <1>3, <1>4 DEF IInv, Typed, Batch
<1>9. /\ (batch.writes)' = batch.writes /\ (batch.verifies)' = batch.verifies
      /\ (batch.saves)' = batch.saves
  BY <1>4 DEF IInv, Typed, Batch
<1>10. Typed'
  BY <1>4, <1>6, <1>8, SameSets DEF IInv, Typed
<1>11. BlockIn(files, b)
  <2>1. files \in Seq(Nat) /\ TorrentSize(files) > 0  BY <1>7, LayoutFacts
  <2>2. PICK i \in Pieces : b \in ToSet(Blocks(files, i))
    BY <1>3 DEF TorrentBlocks, AllBlocks
  <2>3. /\ Blocks(files, i) \in Seq([where : Nat, size : Nat])
        /\ \A n \in 1..Len(Blocks(files, i)) : BlockIn(files, Blocks(files, i)[n])
    BY <2>1, BlocksFacts DEF Pieces
  <2>4. PICK q : q = Blocks(files, i)  OBVIOUS
  <2>5. \E n \in 1..Len(q) : b = q[n]  BY <2>2, <2>3, <2>4 DEF ToSet
  <2> QED  BY <2>3, <2>4, <2>5
<1>12. Told(files, disk, answer')
  <2>1. ASSUME done = Len(cells)
        PROVE  Content(cells) = [n \in 1..b.size |-> StoredIn(files, disk, b.where + n - 1)]
    BY <1>2, <1>6, <1>7, <1>11, <2>1, ReadTells
  <2> QED  BY <1>5, <2>1 DEF Told
<1>13. Explained(files, disk, cache', answer')
  <2>1. ASSUME done # Len(cells), ~ (done < Passable(cells, TRUE))
        PROVE  \/ RefusedIn(files, cache', b.where, b.size)
               \/ HalfIn(files, disk, b.where, b.size)
    <3>1. files \in Seq(Nat) /\ cells \in Seq(Cell)
      <4>1. files \in Seq(Nat)  BY <1>7, LayoutFacts
      <4>2. PICK blocks : blocks = <<b>>  OBVIOUS
      <4>3. blocks \in Seq({b}) /\ \A n \in 1..Len(blocks) : BlockIn(files, blocks[n])
        BY <1>11, <4>2
      <4> QED  BY <1>2, <4>1, <4>2, <4>3, CellsOfBlocksFacts
    <3>2. cache \in [DOMAIN files -> {"closed", "open", "failed"}]  BY DEF IInv, Typed
    <3>3. done = Passable(cells, TRUE) /\ cache' = Opened(cells, Passable(cells, TRUE), 0)
      BY <1>5, <2>1, <3>1, <3>2, DealsAll
    <3>4. Passable(cells, TRUE) # Len(cells)  BY <2>1, <3>3
    <3> QED  BY <1>2, <1>7, <1>11, <3>2, <3>3, <3>4, ReadFails
  <2>2. ~answer'.success /\ ~answer'.broken =>
          done # Len(cells) /\ ~ (done < Passable(cells, TRUE))
    BY <1>5
  <2> QED  BY <1>5, <2>1, <2>2 DEF Explained
<1> QED  BY <1>4, <1>9, <1>10, <1>12, <1>13 DEF IInv

LEMMA ServeVerifyStep ==
  ASSUME IInv, NEW done \in Nat, ServeVerify(done)
  PROVE  IInv'
<1>1. PICK i : i = Head(batch.verifies)  OBVIOUS
<1>2. PICK cells : cells = VerifyCells(i)  OBVIOUS
<1>3. PICK good : good = (/\ done = Len(cells)
                          /\ Content(cells) = [n \in DOMAIN cells |-> i * PieceSize + n - 1])
  OBVIOUS
<1>4. PICK r : r = [piece |-> i, result |-> IF good THEN "good" ELSE "bad"]  OBVIOUS
<1>5. /\ batch.verifies \in Seq(Pieces) /\ batch.verifies # <<>> /\ i \in Pieces
      /\ Tail(batch.verifies) \in Seq(Pieces)
      /\ batch.writes = <<>> /\ batch.reads = <<>>
  <2>1. /\ batch.verifies \in Seq(Pieces) /\ batch.verifies # <<>>
        /\ batch.writes = <<>> /\ batch.reads = <<>>
    BY DEF IInv, Typed, Batch, ServeVerify
  <2> QED  BY <1>1, <2>1, QueueFacts
<1>6. /\ batch' = [batch EXCEPT !.verifies = Tail(batch.verifies)]
      /\ writes' = writes /\ reads' = reads /\ files' = files /\ saves' = saves
      /\ verifies' = verifies /\ disk' = disk /\ loop' = loop
      /\ available' = available /\ stateFile' = stateFile /\ stop' = stop
      /\ wanted' = wanted /\ housed' = housed /\ fetchable' = fetchable /\ written' = written
  <2>1. Take  BY DEF ServeVerify
  <2> QED  BY <1>5, <2>1 DEF Take, ServeVerify, torrentVars, queueVars
<1>7. /\ Deals(cells, TRUE, done)
      /\ results' = Append(results, r)
      /\ answer'.kind = "verify" /\ answer'.piece = i /\ answer'.success = good
      /\ answer'.broken = (done < Passable(cells, TRUE))
  BY <1>1, <1>2, <1>3, <1>4 DEF ServeVerify
<1>8. /\ done <= Passable(cells, TRUE)
      /\ cache' \in [DOMAIN files -> {"closed", "open", "failed"}]
      /\ events' \in 0..MaxEvents
  BY <1>7, DealsFacts DEF IInv, Typed
<1>9. files \in Layouts /\ DiskTrue(files, disk)  BY DEF IInv, Typed
<1>10. r \in Result /\ r.piece = i /\ (r.result = "good" => good)  BY <1>4, <1>5 DEF Result
<1>11. batch' \in Batch  BY <1>5, <1>6 DEF IInv, Typed, Batch
<1>12. /\ (batch.writes)' = batch.writes /\ (batch.verifies)' = Tail(batch.verifies)
       /\ (batch.saves)' = batch.saves
  BY <1>6 DEF IInv, Typed, Batch
<1>13. results \in Seq(Result)  BY DEF IInv, Typed
<1>14. results' \in Seq(Result)  BY <1>7, <1>10, <1>13, AppendFacts
<1>15. Typed'
  BY <1>6, <1>8, <1>11, <1>14, SameSets DEF IInv, Typed
<1>16. ASSUME good PROVE OnDiskIn(files, disk, i)
  BY <1>2, <1>3, <1>5, <1>8, <1>9, <1>16, VerifyTells
<1>17. Sole(writes, batch.writes, Past(verifies, Tail(batch.verifies), results', available))
  <2>1. Sole(writes, batch.writes, Past(verifies, batch.verifies, results, available))
    BY DEF IInv
  <2>2. Past(verifies, Tail(batch.verifies), results', available)
        \subseteq Past(verifies, batch.verifies, results, available)
    BY <1>1, <1>5, <1>7, <1>10, <1>13, PastVerified
  <2> QED  BY <2>1, <2>2, SoleLess
<1>18. Kept(files, disk, results', available)
  <2>1. /\ Len(results') = Len(results) + 1 /\ Len(results) \in Nat
        /\ results'[Len(results) + 1] = r
        /\ \A n \in 1..Len(results) : results'[n] = results[n]
    BY <1>7, <1>10, <1>13, AppendFacts, QueueFacts
  <2>2. \A n \in 1..Len(results') : n \in 1..Len(results) \/ n = Len(results) + 1  BY <2>1
  <2> QED  BY <1>10, <1>16, <2>1, <2>2 DEF IInv, Kept
<1>19. Told(files, disk, answer')  BY <1>7, <1>16 DEF Told
<1>20. Explained(files, disk, cache', answer')
  <2>1. ASSUME ~ good, ~ (done < Passable(cells, TRUE)), OnDiskIn(files, disk, i),
               i * PieceSize < OffsetMod
        PROVE  RefusedIn(files, cache', i * PieceSize, SizeOfPiece(files, i))
    <3>1. files \in Seq(Nat) /\ cells \in Seq(Cell)
      BY <1>2, <1>5, <1>9, LayoutFacts, VerifyCellsFacts
    <3>2. cache \in [DOMAIN files -> {"closed", "open", "failed"}]  BY DEF IInv, Typed
    <3>3. done = Passable(cells, TRUE) /\ cache' = Opened(cells, Passable(cells, TRUE), 0)
      BY <1>7, <2>1, <3>1, <3>2, DealsAll
    <3>4. /\ Content(cells) = [n \in DOMAIN cells |-> i * PieceSize + n - 1]
          /\ Passable(cells, TRUE) # Len(cells) =>
               RefusedIn(files, Opened(cells, Passable(cells, TRUE), 0),
                         i * PieceSize, SizeOfPiece(files, i))
      BY <1>2, <1>5, <1>9, <2>1, <3>2, VerifyFails
    <3>5. done # Len(cells)  BY <1>3, <2>1, <3>4
    <3> QED  BY <3>3, <3>4, <3>5
  <2>2. i * PieceSize \in Nat /\ OffsetMod \in Nat
    <3>1. files \in Seq(Nat) /\ TorrentSize(files) > 0 /\ i \in 0..PieceCount(files)-1
      BY <1>5, <1>9, LayoutFacts DEF Pieces
    <3> QED  BY <3>1, PieceFacts, ModAssumption
  <2>3. i * PieceSize < OffsetMod \/ i * PieceSize >= OffsetMod  BY <2>2
  <2>4. ~answer'.success /\ ~answer'.broken => ~ good /\ ~ (done < Passable(cells, TRUE))
    BY <1>7
  <2> QED  BY <1>7, <2>1, <2>3, <2>4 DEF Explained
<1> QED  BY <1>6, <1>12, <1>15, <1>17, <1>18, <1>19, <1>20 DEF IInv

\* What is in the state file then: all of the saved state, or its first part and
\* the rest of the old one.
LEMMA ServeDataStep ==
  ASSUME IInv, NEW success \in BOOLEAN, ServeData(success)
  PROVE  IInv' /\ stateFile \subseteq stateFile'
<1>1. PICK s : s = Head(batch.saves)  OBVIOUS
<1>2. /\ batch.saves \in Seq(SUBSET Pieces) /\ batch.saves # <<>> /\ s \in SUBSET Pieces
      /\ Tail(batch.saves) \in Seq(SUBSET Pieces)
      /\ batch.writes = <<>> /\ batch.reads = <<>> /\ batch.verifies = <<>>
  <2>1. /\ batch.saves \in Seq(SUBSET Pieces) /\ batch.saves # <<>>
        /\ batch.writes = <<>> /\ batch.reads = <<>> /\ batch.verifies = <<>>
    BY DEF IInv, Typed, Batch, ServeData
  <2> QED  BY <1>1, <2>1, QueueFacts
<1>3. /\ batch' = [batch EXCEPT !.saves = Tail(batch.saves)]
      /\ writes' = writes /\ reads' = reads /\ files' = files /\ saves' = saves
      /\ verifies' = verifies /\ disk' = disk /\ loop' = loop /\ cache' = cache
      /\ available' = available /\ results' = results /\ stop' = stop
      /\ wanted' = wanted /\ housed' = housed /\ fetchable' = fetchable /\ written' = written
  <2>1. Take  BY DEF ServeData
  <2> QED  BY <1>2, <2>1 DEF Take, ServeData, torrentVars, queueVars
<1>4. /\ success \/ events < MaxEvents
      /\ events' = IF success THEN events ELSE events + 1
      /\ answer' = [kind |-> "save"]
  BY DEF ServeData
<1>5. stateFile \subseteq s /\ s \subseteq available
  <2>1. Grown(stateFile, batch.saves, saves, available)  BY DEF IInv
  <2>2. 1 \in 1..Len(batch.saves) /\ batch.saves[1] = s  BY <1>1, <1>2, QueueFacts
  <2> QED  BY <2>1, <2>2 DEF Grown
<1>6. stateFile \subseteq stateFile' /\ stateFile' \subseteq s
  <2>1. CASE success  BY <1>1, <1>5, <2>1 DEF ServeData
  <2>2. CASE ~success
    <3>1. PICK n \in 0..PieceCount(files) :
             stateFile' = {i \in s : i < n} \cup {i \in stateFile : i >= n}
      BY <1>1, <2>2 DEF ServeData
    <3>2. \A i \in stateFile : i \in Nat
      <4>1. PieceCount(files) \in Nat  BY LayoutFacts DEF IInv, Typed
      <4> QED  BY <4>1 DEF IInv, Typed, Pieces
    <3>3. n \in Nat  BY LayoutFacts DEF IInv, Typed
    <3> QED  BY <1>5, <3>1, <3>2, <3>3
  <2> QED  BY <2>1, <2>2
<1>7. events' \in 0..MaxEvents  BY <1>4, BoundsAssumption DEF IInv, Typed
<1>8. batch' \in Batch  BY <1>2, <1>3 DEF IInv, Typed, Batch
<1>9. /\ (batch.writes)' = batch.writes /\ (batch.verifies)' = batch.verifies
      /\ (batch.saves)' = Tail(batch.saves)
  BY <1>3 DEF IInv, Typed, Batch
<1>10. stateFile' \subseteq Pieces  BY <1>2, <1>6
<1>11. Typed'
  BY <1>3, <1>7, <1>8, <1>10, SameSets DEF IInv, Typed
<1>12. Grown(stateFile', Tail(batch.saves), saves, available)
  BY <1>1, <1>2, <1>6, GrownKept DEF IInv
<1>13. Told(files, disk, answer') /\ Explained(files, disk, cache, answer')
  BY <1>4 DEF Told, Explained
<1> QED  BY <1>3, <1>6, <1>9, <1>11, <1>12, <1>13 DEF IInv

----------------------------------------------------------------------------
LEMMA NextKeeps ==
  ASSUME IInv, [Next]_vars
  PROVE  IInv' /\ stateFile \subseteq stateFile'
<1>1. CASE \E i \in Pieces, good \in BOOLEAN : WriteBlocks(i, good)
  BY <1>1, WriteBlocksStep DEF WriteBlocks, bundleVars
<1>2. CASE \E b \in TorrentBlocks : ReadBlock(b)
  BY <1>2, ReadBlockStep DEF ReadBlock, bundleVars
<1>3. CASE ProcessIoResults
  BY <1>3, ProcessIoResultsStep DEF ProcessIoResults
<1>4. CASE \E unmasked \in SUBSET DOMAIN files : ChangeMask(unmasked)
  BY <1>4, ChangeMaskStep DEF ChangeMask, bundleVars
<1>5. CASE Destroy
  BY <1>5, DestroyStep DEF Destroy, bundleVars
<1>6. CASE \E done \in 0..PieceSize : ServeWrite(done)
  <2>1. PICK done \in 0..PieceSize : ServeWrite(done)  BY <1>6
  <2>2. done \in Nat  BY SizeAssumption
  <2>3. IInv'  BY <2>1, <2>2, ServeWriteStep
  <2>4. stateFile' = stateFile  BY <2>1 DEF ServeWrite
  <2> QED  BY <2>3, <2>4
<1>7. CASE \E done \in 0..PieceSize : ServeRead(done)
  <2>1. PICK done \in 0..PieceSize : ServeRead(done)  BY <1>7
  <2>2. done \in Nat  BY SizeAssumption
  <2>3. IInv'  BY <2>1, <2>2, ServeReadStep
  <2>4. stateFile' = stateFile  BY <2>1 DEF ServeRead, bundleVars
  <2> QED  BY <2>3, <2>4
<1>8. CASE \E done \in 0..PieceSize : ServeVerify(done)
  <2>1. PICK done \in 0..PieceSize : ServeVerify(done)  BY <1>8
  <2>2. done \in Nat  BY SizeAssumption
  <2>3. IInv'  BY <2>1, <2>2, ServeVerifyStep
  <2>4. stateFile' = stateFile  BY <2>1 DEF ServeVerify
  <2> QED  BY <2>3, <2>4
<1>9. CASE \E success \in BOOLEAN : ServeData(success)
  BY <1>9, ServeDataStep
<1>10. CASE Steal
  BY <1>10, StealStep DEF Steal, bundleVars
<1>11. CASE TestQueues \/ Wait \/ TimeOut \/ End \/ UNCHANGED vars
  BY <1>11, TurnStep DEF TestQueues, Wait, TimeOut, End, vars, bundleVars
<1> QED
  BY <1>1, <1>2, <1>3, <1>4, <1>5, <1>6, <1>7, <1>8, <1>9, <1>10, <1>11 DEF Next, Serve, Turn

\* The disk, the queues of the thread and what CommandTask knows agree in every
\* state: no piece is written after its result, and what is available is there
\* (DiskIo::Private::ioLoop, CommandTask::Private::processIoResults).
THEOREM DiskAndQueuesAgree == Spec => []IInv
<1>1. Init => IInv  BY InitHolds
<1>2. IInv /\ [Next]_vars => IInv'  BY NextKeeps
<1> QED  BY <1>1, <1>2, PTL DEF Spec

\* The types, and that nothing but the system's zeros, wrong data and the addresses of
\* the torrent are ever in its files (DiskIo::Private::write).
THEOREM TypesHold == Spec => []TypeOK
<1>1. IInv => TypeOK
  <2> SUFFICES ASSUME IInv PROVE TypeOK
    OBVIOUS
  <2>1. Typed /\ DiskTrue(files, disk) /\ files \in Seq(Nat) /\ DOMAIN files = 1..Len(files)
    BY LayoutFacts DEF IInv, Typed
  <2>2. ASSUME NEW f \in DOMAIN files
        PROVE  ToSet(disk[f]) \subseteq {Zero, Bad} \cup 0..TorrentSize(files) - 1
    <3>1. PICK q : q = disk[f]  OBVIOUS
    <3>2. PICK a : a = Starts(files)[f]  OBVIOUS
    <3>3. f \in 1..Len(files) /\ files[f] \in Nat  BY <2>1
    <3>4. /\ q \in Seq(Int) /\ Len(q) \in Nat /\ Len(q) <= files[f]
          /\ \A k \in 1..Len(q) : q[k] \in {Zero, Bad, a + k - 1}
      BY <2>1, <3>1, <3>2, <3>3 DEF DiskTrue
    <3>5. a \in Nat
      <4>1. f \in 1..Len(files)+1  BY <2>1, <3>3
      <4> QED  BY <2>1, <3>2, <4>1, StartsFacts
    <3>6. TorrentSize(files) \in Nat /\ a + files[f] <= TorrentSize(files)
      <4>1. Len(files) \in Nat  BY <2>1, LayoutFacts DEF IInv, Typed
      <4>2. PICK g : g = Len(files) + 1  OBVIOUS
      <4>3. f \in 1..Len(files)+1 /\ g \in 1..Len(files)+1 /\ f < g  BY <3>3, <4>1, <4>2
      <4>4. Starts(files)[f] + files[f] <= Starts(files)[g]  BY <2>1, <4>3, EndsGrow
      <4>5. Starts(files)[g] \in Nat  BY <2>1, <4>3, StartsFacts
      <4> QED  BY <3>2, <4>2, <4>4, <4>5 DEF TorrentSize
    <3>7. \A k \in 1..Len(q) : a + k - 1 \in 0..TorrentSize(files) - 1
      BY <3>3, <3>4, <3>5, <3>6
    <3>8. DOMAIN q = 1..Len(q)  BY <3>4
    <3> QED  BY <3>1, <3>4, <3>7, <3>8 DEF ToSet
  <2>3. /\ ToSet(reads) \subseteq TorrentBlocks /\ ToSet(batch.reads) \subseteq TorrentBlocks
        /\ ToSet(saves) \subseteq SUBSET Pieces /\ ToSet(batch.saves) \subseteq SUBSET Pieces
    BY <2>1 DEF Typed, Batch, ToSet
  <2>4. /\ \A q \in {writes, batch.writes} : q \in Seq(Request)
        /\ \A q \in {reads, batch.reads} : ToSet(q) \subseteq TorrentBlocks
        /\ \A q \in {verifies, batch.verifies} : q \in Seq(Pieces)
        /\ \A q \in {saves, batch.saves} : ToSet(q) \subseteq SUBSET Pieces
    BY <2>1, <2>3 DEF Typed, Batch
  <2>5. \A n \in DOMAIN results :
           results[n].piece \in Pieces /\ results[n].result \in {"unwritten", "bad", "good"}
    <3>1. \A n \in DOMAIN results : results[n] \in Result  BY <2>1 DEF Typed
    <3> QED  BY <3>1 DEF Result
  <2>6. DOMAIN disk = DOMAIN files  BY <2>1 DEF DiskTrue
  <2> QED  BY <2>1, <2>2, <2>4, <2>5, <2>6 DEF Typed, TypeOK
<1> QED  BY <1>1, DiskAndQueuesAgree, PTL

LEMMA AnswersHold == IInv => AnswersTrue
<1> SUFFICES ASSUME IInv PROVE AnswersTrue
  OBVIOUS
<1>1. /\ DiskTrue(files, disk) /\ Told(files, disk, answer)
      /\ files \in Seq(Nat) /\ DOMAIN files = 1..Len(files)
  BY LayoutFacts DEF IInv, Typed
<1>2. \A f \in DOMAIN files : \A k \in DOMAIN disk[f] :
         disk[f][k] \in {Zero, Bad, Starts(files)[f] + k - 1} /\ k <= files[f]
  <2> SUFFICES ASSUME NEW f \in DOMAIN files, NEW k \in DOMAIN disk[f]
               PROVE  /\ disk[f][k] \in {Zero, Bad, Starts(files)[f] + k - 1}
                      /\ k <= files[f]
    OBVIOUS
  <2>1. PICK q : q = disk[f]  OBVIOUS
  <2>2. /\ q \in Seq(Int) /\ Len(q) <= files[f] /\ files[f] \in Nat
        /\ \A m \in 1..Len(q) : q[m] \in {Zero, Bad, Starts(files)[f] + m - 1}
    BY <1>1, <2>1 DEF DiskTrue
  <2>3. k \in 1..Len(q) /\ Len(q) \in Nat  BY <2>1, <2>2
  <2>4. k <= files[f]  BY <2>2, <2>3
  <2> QED  BY <2>1, <2>2, <2>3, <2>4
<1>3. answer.kind = "write" /\ answer.success =>
        \A address \in PieceAddresses(files, answer.piece) :
           Stored(address) = IF answer.good THEN address ELSE Bad
  BY <1>1, SameStored DEF Told
<1>4. answer.kind = "read" /\ answer.success =>
        answer.data = [n \in 1..answer.block.size |-> Stored(answer.block.where + n - 1)]
  BY <1>1, SameStored DEF Told
<1>5. answer.kind = "verify" /\ answer.success => OnDisk(answer.piece)
  BY <1>1, SameStored DEF Told
<1> QED  BY <1>2, <1>3, <1>4, <1>5 DEF AnswersTrue

LEMMA FailuresHold == IInv => FailuresExplained
<1> SUFFICES ASSUME IInv, answer.kind \in {"write", "read", "verify"}, ~answer.success, ~answer.broken
             PROVE  LET where == IF answer.kind = "read" THEN answer.block.where
                                 ELSE answer.piece * PieceSize
                        size  == IF answer.kind = "read" THEN answer.block.size
                                 ELSE SizeOfPiece(files, answer.piece)
                    IN  \/ Refused(where, size)
                        \/ answer.kind = "write" /\ \E b \in AllBlocks(answer.piece) :
                                Overshoots(files, b) /\ b.where + b.size < where + size
                        \/ answer.kind = "read" /\ HalfWritten(where, size)
                        \/ answer.kind = "verify" /\ (~OnDisk(answer.piece) \/ where >= OffsetMod)
  BY DEF FailuresExplained
<1>1. Explained(files, disk, cache, answer)  BY DEF IInv
<1>2. /\ \A where, size : RefusedIn(files, cache, where, size) => Refused(where, size)
      /\ \A where, size : HalfIn(files, disk, where, size) => HalfWritten(where, size)
  BY DEF RefusedIn, Refused, HalfIn, HalfWritten
<1>3. CASE answer.kind = "write"
  <2>1. \/ Refused(answer.piece * PieceSize, SizeOfPiece(files, answer.piece))
        \/ SpoiltIn(files, answer.piece)
    BY <1>1, <1>2, <1>3 DEF Explained
  <2> QED  BY <1>3, <2>1 DEF SpoiltIn, AllBlocks
<1>4. CASE answer.kind = "read"
  <2>1. \/ Refused(answer.block.where, answer.block.size)
        \/ HalfWritten(answer.block.where, answer.block.size)
    BY <1>1, <1>2, <1>4 DEF Explained
  <2> QED  BY <1>4, <2>1
<1>5. CASE answer.kind = "verify"
  <2>1. \/ Refused(answer.piece * PieceSize, SizeOfPiece(files, answer.piece))
        \/ ~ OnDisk(answer.piece) \/ answer.piece * PieceSize >= OffsetMod
    BY <1>1, <1>2, <1>5, SameStored DEF Explained
  <2> QED  BY <1>5, <2>1
<1> QED  BY <1>3, <1>4, <1>5

\* Whatever the files and their sizes are, the thread tells the truth: what it wrote,
\* read or found good is in the files where it belongs; and where no call failed it
\* only gives up for one of the reasons that FailuresExplained lists: describeLocation
\* goes wrong in no other case (satisfyRequest, describeLocation).
THEOREM AnswersAreExplained == Spec => []AnswersExplained
<1>1. IInv => AnswersExplained  BY AnswersHold, FailuresHold DEF AnswersExplained
<1> QED  BY <1>1, DiskAndQueuesAgree, PTL

\* The pieces that the state file has, and those that peers are told of, are on the
\* disk (processIoResults, TorrentState).
THEOREM StateFileIsTrue == Spec => []StateFileTrue
<1>1. IInv => StateFileTrue
  <2> SUFFICES ASSUME IInv, NEW i \in available \cup stateFile PROVE OnDisk(i)
    BY DEF StateFileTrue
  <2>1. i \in available  BY DEF IInv, Grown
  <2>2. OnDiskIn(files, disk, i)  BY <2>1 DEF IInv, Kept
  <2> QED  BY <2>2, SameStored
<1> QED  BY <1>1, DiskAndQueuesAgree, PTL

\* No state file forgets a piece, even one that was only written in part
\* (satisfyRequest for a WriteDataRequest).
THEOREM StateFileOnlyGrows == Spec => StateFileGrows
<1>1. IInv /\ [Next]_vars => [stateFile \subseteq stateFile']_vars  BY NextKeeps
<1> QED  BY <1>1, DiskAndQueuesAgree, PTL DEF Spec, StateFileGrows
=============================================================================

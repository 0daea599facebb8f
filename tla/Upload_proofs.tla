--------------------------- MODULE Upload_proofs ---------------------------
(***************************************************************************)
(* The sending side of a connection, for any number of blocks, packets and *)
(* requests and any limits: the messages that were sent and the packets of *)
(* the socket agree, and the requests and the tokens are counted right.    *)
(***************************************************************************)
EXTENDS Upload, SequenceTheorems, WellFoundedInduction, TLAPS

----------------------------------------------------------------------------
\* Sequences: what is in them, and once.

LEMMA SeqFacts ==
  ASSUME NEW S, NEW s \in Seq(S)
  PROVE  /\ Len(s) \in Nat /\ DOMAIN s = 1..Len(s)
         /\ \A i \in 1..Len(s) : s[i] \in S
         /\ ToSet(s) \subseteq S /\ ToSet(s) = {s[i] : i \in 1..Len(s)}
BY DEF ToSet

LEMMA TailFacts ==
  ASSUME NEW S, NEW s \in Seq(S), s # <<>>
  PROVE  /\ Head(s) = s[1] /\ Head(s) \in ToSet(s) /\ 1 \in DOMAIN s
         /\ Tail(s) \in Seq(S) /\ DOMAIN Tail(s) = 1..Len(s)-1
         /\ \A i \in 1..Len(s)-1 : Tail(s)[i] = s[i+1]
         /\ ToSet(Tail(s)) \subseteq ToSet(s)
         /\ IsInjective(s) => /\ ToSet(Tail(s)) = ToSet(s) \ {Head(s)}
                              /\ IsInjective(Tail(s))
<1>1. Len(s) \in Nat \ {0} /\ DOMAIN s = 1..Len(s)  OBVIOUS
<1>2. /\ Tail(s) \in Seq(S) /\ DOMAIN Tail(s) = 1..Len(s)-1
      /\ \A i \in 1..Len(s)-1 : Tail(s)[i] = s[i+1]
  OBVIOUS
<1>3. Head(s) = s[1] /\ Head(s) \in ToSet(s) /\ 1 \in DOMAIN s  BY <1>1 DEF ToSet
<1>4. ToSet(Tail(s)) = {s[i+1] : i \in 1..Len(s)-1}  BY <1>2 DEF ToSet
<1>5. ToSet(Tail(s)) \subseteq ToSet(s)  BY <1>1, <1>4 DEF ToSet
<1>6. ASSUME IsInjective(s) PROVE ToSet(Tail(s)) = ToSet(s) \ {Head(s)} /\ IsInjective(Tail(s))
  <2>1. s[1] \notin ToSet(Tail(s))  BY <1>1, <1>4, <1>6 DEF IsInjective
  <2>2. \A i \in 1..Len(s) : i # 1 => s[i] \in ToSet(Tail(s))
    <3> SUFFICES ASSUME NEW i \in 1..Len(s), i # 1 PROVE s[i] \in ToSet(Tail(s))
      OBVIOUS
    <3>1. i - 1 \in 1..Len(s)-1 /\ s[i] = s[(i - 1) + 1]  BY <1>1
    <3> QED  BY <1>4, <3>1
  <2>3. ToSet(Tail(s)) = ToSet(s) \ {Head(s)}  BY <1>1, <1>3, <1>5, <2>1, <2>2 DEF ToSet
  <2>4. IsInjective(Tail(s))  BY <1>1, <1>2, <1>6 DEF IsInjective
  <2> QED  BY <2>3, <2>4
<1> QED  BY <1>2, <1>3, <1>5, <1>6

LEMMA RemoveFacts ==
  ASSUME NEW S, NEW s \in Seq(S), NEW n \in DOMAIN s
  PROVE  LET r == RemoveAt(s, n)
         IN  /\ r \in Seq(S) /\ Len(r) = Len(s) - 1 /\ DOMAIN r = 1..Len(s)-1
             /\ \A i \in 1..Len(s)-1 : r[i] = IF i < n THEN s[i] ELSE s[i+1]
             /\ ToSet(r) \subseteq ToSet(s)
             /\ IsInjective(s) => ToSet(r) = ToSet(s) \ {s[n]} /\ IsInjective(r)
<1> DEFINE r == RemoveAt(s, n)
<1>1. Len(s) \in Nat /\ n \in 1..Len(s) /\ n \in Int /\ DOMAIN s = 1..Len(s)  OBVIOUS
<1>2. PICK front : front = SubSeq(s, 1, n - 1)  OBVIOUS
<1>3. PICK back : back = SubSeq(s, n + 1, Len(s))  OBVIOUS
<1>4. /\ front \in Seq(S) /\ Len(front) = n - 1 /\ \A i \in 1..n-1 : front[i] = s[i]
      /\ back \in Seq(S) /\ Len(back) = Len(s) - n /\ \A i \in 1..Len(s)-n : back[i] = s[n+i]
  <2>1. \A i \in 1..n-1 : s[i] \in S  BY <1>1
  <2>2. \A i \in (n + 1)..Len(s) : s[i] \in S  BY <1>1
  <2>3. /\ front \in Seq(S) /\ Len(front) = IF 1 <= n - 1 THEN n - 1 - 1 + 1 ELSE 0
        /\ \A i \in 1..n-1-1+1 : front[i] = s[1+i-1]
    BY <1>1, <1>2, <2>1, SubSeqProperties
  <2>4. /\ back \in Seq(S)
        /\ Len(back) = IF n + 1 <= Len(s) THEN Len(s) - (n + 1) + 1 ELSE 0
        /\ \A i \in 1..Len(s)-(n+1)+1 : back[i] = s[(n+1)+i-1]
    BY <1>1, <1>3, <2>2, SubSeqProperties
  <2>5. Len(front) = n - 1 /\ Len(back) = Len(s) - n  BY <1>1, <2>3, <2>4
  <2>6. n - 1 - 1 + 1 = n - 1 /\ Len(s) - (n + 1) + 1 = Len(s) - n  BY <1>1
  <2>7. ASSUME NEW i \in 1..n-1 PROVE front[i] = s[i]
    <3>1. 1 + i - 1 = i  BY <1>1
    <3> QED  BY <2>3, <2>6, <3>1
  <2>8. ASSUME NEW i \in 1..Len(s)-n PROVE back[i] = s[n+i]
    <3>1. (n + 1) + i - 1 = n + i  BY <1>1
    <3> QED  BY <2>4, <2>6, <3>1
  <2> QED  BY <2>3, <2>4, <2>5, <2>7, <2>8
<1>5. r = front \o back  BY <1>2, <1>3 DEF RemoveAt
<1> HIDE DEF r
<1>6. r \in Seq(S) /\ Len(r) = Len(s) - 1 /\ DOMAIN r = 1..Len(s)-1
  <2>1. r \in Seq(S) /\ Len(r) = Len(front) + Len(back)  BY <1>4, <1>5, ConcatProperties
  <2>2. Len(r) = Len(s) - 1  BY <1>1, <1>4, <2>1
  <2> QED  BY <2>1, <2>2, SeqFacts
<1>7. \A i \in 1..Len(s)-1 : r[i] = IF i < n THEN s[i] ELSE s[i+1]
  <2> SUFFICES ASSUME NEW i \in 1..Len(s)-1 PROVE r[i] = IF i < n THEN s[i] ELSE s[i+1]
    OBVIOUS
  <2> Len(front) + Len(back) = Len(s) - 1  BY <1>1, <1>4
  <2>1. CASE i < n  BY <1>1, <1>4, <1>5, <2>1, ConcatProperties
  <2>2. CASE ~ (i < n)
    <3>1. i - (n - 1) \in 1..Len(s)-n /\ ~ (i <= n - 1)  BY <1>1, <2>2
    <3>2. \A k \in 1..Len(front)+Len(back) :
            (front \o back)[k] = IF k <= Len(front) THEN front[k] ELSE back[k - Len(front)]
      BY <1>4, ConcatProperties
    <3>3. r[i] = back[i - (n - 1)]  BY <1>4, <1>5, <3>1, <3>2
    <3>4. n + (i - (n - 1)) = i + 1  BY <1>1
    <3> QED  BY <1>4, <2>2, <3>1, <3>3, <3>4
  <2> QED  BY <2>1, <2>2
<1>8. ToSet(r) \subseteq ToSet(s)  BY <1>1, <1>6, <1>7 DEF ToSet
<1>9. ASSUME IsInjective(s) PROVE ToSet(r) = ToSet(s) \ {s[n]} /\ IsInjective(r)
  <2>1. \A i \in 1..Len(s)-1 : r[i] # s[n]  BY <1>1, <1>7, <1>9 DEF IsInjective
  <2>2. ASSUME NEW i \in 1..Len(s), i # n PROVE s[i] \in ToSet(r)
    <3>1. CASE i < n
      <4>1. i \in 1..Len(s)-1 /\ r[i] = s[i]  BY <1>1, <1>7, <3>1
      <4> QED  BY <1>6, <4>1 DEF ToSet
    <3>2. CASE i > n
      <4>1. i - 1 \in 1..Len(s)-1 /\ ~ (i - 1 < n) /\ (i - 1) + 1 = i  BY <1>1, <3>2
      <4>2. r[i - 1] = s[i]  BY <1>7, <4>1
      <4> QED  BY <1>6, <4>1, <4>2 DEF ToSet
    <3> QED  BY <1>1, <2>2, <3>1, <3>2
  <2>3. ToSet(r) = ToSet(s) \ {s[n]}  BY <1>1, <1>6, <1>8, <2>1, <2>2 DEF ToSet
  <2>4. IsInjective(r)
    <3> SUFFICES ASSUME NEW i \in 1..Len(s)-1, NEW j \in 1..Len(s)-1, r[i] = r[j], i < j
                 PROVE  FALSE
      BY <1>1, <1>6 DEF IsInjective
    <3>1. CASE j < n  BY <1>1, <1>7, <1>9, <3>1 DEF IsInjective
    <3>2. CASE i < n /\ ~ (j < n)
      <4>1. s[i] = s[j + 1] /\ i \in DOMAIN s /\ j + 1 \in DOMAIN s  BY <1>1, <1>7, <3>2
      <4>2. i = j + 1  BY <1>9, <4>1 DEF IsInjective
      <4> QED  BY <4>2, <1>1
    <3>3. CASE ~ (i < n)
      <4>1. s[i + 1] = s[j + 1] /\ i + 1 \in DOMAIN s /\ j + 1 \in DOMAIN s  BY <1>1, <1>7, <3>3
      <4>2. i + 1 = j + 1  BY <1>9, <4>1 DEF IsInjective
      <4> QED  BY <4>2, <1>1
    <3> QED  BY <1>1, <3>1, <3>2, <3>3
  <2> QED  BY <2>3, <2>4
<1> QED  BY <1>6, <1>7, <1>8, <1>9 DEF r

LEMMA ConcatFacts ==
  ASSUME NEW S, NEW s \in Seq(S), NEW t \in Seq(S)
  PROVE  /\ s \o t \in Seq(S) /\ DOMAIN (s \o t) = 1..Len(s)+Len(t)
         /\ \A i \in DOMAIN s : (s \o t)[i] = s[i]
         /\ \A j \in DOMAIN t : (s \o t)[Len(s) + j] = t[j] /\ Len(s) + j \in DOMAIN (s \o t)
         /\ ToSet(s \o t) = ToSet(s) \cup ToSet(t)
         /\ IsInjective(s \o t) <=>
              IsInjective(s) /\ IsInjective(t) /\ ToSet(s) \cap ToSet(t) = {}
<1>1. PICK u : u = s \o t  OBVIOUS
<1>2. /\ u \in Seq(S) /\ Len(u) = Len(s) + Len(t) /\ DOMAIN u = 1..Len(u)
      /\ Len(s) \in Nat /\ DOMAIN s = 1..Len(s) /\ Len(t) \in Nat /\ DOMAIN t = 1..Len(t)
  BY <1>1
<1>3. \A i \in DOMAIN s : u[i] = s[i] /\ i \in DOMAIN u  BY <1>1, <1>2
<1>4. \A j \in DOMAIN t : u[Len(s) + j] = t[j] /\ Len(s) + j \in DOMAIN u
  <2> SUFFICES ASSUME NEW j \in DOMAIN t PROVE u[Len(s) + j] = t[j] /\ Len(s) + j \in DOMAIN u
    OBVIOUS
  <2>1. Len(s) + j \in 1..Len(s)+Len(t) /\ ~ (Len(s) + j <= Len(s)) /\ (Len(s) + j) - Len(s) = j
    BY <1>2
  <2> QED  BY <1>1, <1>2, <2>1
<1>5. \A k \in DOMAIN u : k \in DOMAIN s \/ \E j \in DOMAIN t : k = Len(s) + j
  <2> SUFFICES ASSUME NEW k \in DOMAIN u, k \notin DOMAIN s PROVE \E j \in DOMAIN t : k = Len(s) + j
    OBVIOUS
  <2>1. k - Len(s) \in DOMAIN t /\ k = Len(s) + (k - Len(s))  BY <1>2
  <2> QED  BY <2>1
<1>6. ToSet(u) = ToSet(s) \cup ToSet(t)
  <2>1. ToSet(u) \subseteq ToSet(s) \cup ToSet(t)  BY <1>3, <1>4, <1>5 DEF ToSet
  <2>2. ToSet(s) \subseteq ToSet(u)  BY <1>3 DEF ToSet
  <2>3. ToSet(t) \subseteq ToSet(u)  BY <1>4 DEF ToSet
  <2> QED  BY <2>1, <2>2, <2>3
<1>7. ASSUME IsInjective(u) PROVE IsInjective(s) /\ IsInjective(t) /\ ToSet(s) \cap ToSet(t) = {}
  <2>1. IsInjective(s)  BY <1>3, <1>7 DEF IsInjective
  <2>2. IsInjective(t)
    <3> SUFFICES ASSUME NEW i \in DOMAIN t, NEW j \in DOMAIN t, t[i] = t[j] PROVE i = j
      BY DEF IsInjective
    <3>1. Len(s) + i = Len(s) + j  BY <1>4, <1>7 DEF IsInjective
    <3> QED  BY <1>2, <3>1
  <2>3. ASSUME NEW i \in DOMAIN s, NEW j \in DOMAIN t, s[i] = t[j] PROVE FALSE
    <3>1. i = Len(s) + j  BY <1>3, <1>4, <1>7, <2>3 DEF IsInjective
    <3> QED  BY <1>2, <3>1
  <2> QED  BY <2>1, <2>2, <2>3 DEF ToSet
<1>8. ASSUME IsInjective(s), IsInjective(t), ToSet(s) \cap ToSet(t) = {} PROVE IsInjective(u)
  <2>1. \A i \in DOMAIN s, j \in DOMAIN t : s[i] # t[j]  BY <1>8 DEF ToSet
  <2> SUFFICES ASSUME NEW k \in DOMAIN u, NEW l \in DOMAIN u, u[k] = u[l] PROVE k = l
    BY DEF IsInjective
  <2>2. CASE k \in DOMAIN s /\ l \in DOMAIN s  BY <1>3, <1>8, <2>2 DEF IsInjective
  <2>3. CASE k \in DOMAIN s /\ l \notin DOMAIN s  BY <1>3, <1>4, <1>5, <2>1, <2>3
  <2>4. CASE k \notin DOMAIN s /\ l \in DOMAIN s  BY <1>3, <1>4, <1>5, <2>1, <2>4
  <2>5. CASE k \notin DOMAIN s /\ l \notin DOMAIN s
    <3>1. PICK i \in DOMAIN t, j \in DOMAIN t : k = Len(s) + i /\ l = Len(s) + j  BY <1>5, <2>5
    <3>2. i = j  BY <1>4, <1>8, <3>1 DEF IsInjective
    <3> QED  BY <3>1, <3>2
  <2> QED  BY <2>2, <2>3, <2>4, <2>5
<1> QED  BY <1>1, <1>2, <1>3, <1>4, <1>6, <1>7, <1>8

----------------------------------------------------------------------------
\* Sequences in the order of another.

\* What is in the order of a sequence without repetition has none.
LEMMA OrderedOnce ==
  ASSUME NEW S, NEW s \in Seq(S), NEW q \in Seq(S), InOrderOf(s, q), IsInjective(q)
  PROVE  IsInjective(s)
<1> SUFFICES ASSUME NEW i \in DOMAIN s, NEW j \in DOMAIN s, s[i] = s[j], i < j PROVE FALSE
  BY SeqFacts DEF IsInjective
<1> QED  BY SeqFacts DEF InOrderOf, IsInjective

\* The first of q is the first of s, if it is in s at all.
LEMMA FirstInOrder ==
  ASSUME NEW S, NEW s \in Seq(S), NEW q \in Seq(S), InOrderOf(s, q), IsInjective(q),
         q # <<>>, Head(q) \in ToSet(s)
  PROVE  s # <<>> /\ Head(s) = Head(q)
<1>1. PICK i \in DOMAIN s : s[i] = Head(q)  BY DEF ToSet
<1>2. s # <<>> /\ Head(s) = s[1] /\ 1 \in DOMAIN s  BY <1>1, SeqFacts, TailFacts
<1>3. Head(q) = q[1] /\ 1 \in DOMAIN q  BY TailFacts
<1>4. CASE i = 1  BY <1>1, <1>2, <1>4
<1>5. CASE i # 1
  <2>1. 1 < i  BY <1>5, SeqFacts
  <2>2. PICK m \in DOMAIN q, n \in DOMAIN q : m < n /\ q[m] = s[1] /\ q[n] = s[i]
    BY <1>2, <2>1 DEF InOrderOf
  <2>3. n = 1  BY <1>1, <1>3, <2>2 DEF IsInjective
  <2> QED  BY <2>2, <2>3, SeqFacts
<1> QED  BY <1>2, <1>4, <1>5

\* The first of q goes, which is not in s.
LEMMA OrderInTail ==
  ASSUME NEW S, NEW s \in Seq(S), NEW q \in Seq(S), InOrderOf(s, q), q # <<>>,
         Head(q) \notin ToSet(s)
  PROVE  InOrderOf(s, Tail(q))
<1> SUFFICES ASSUME NEW i \in DOMAIN s, NEW j \in DOMAIN s, i < j
             PROVE  \E m, n \in DOMAIN Tail(q) : m < n /\ Tail(q)[m] = s[i] /\ Tail(q)[n] = s[j]
  BY DEF InOrderOf
<1>1. PICK m \in DOMAIN q, n \in DOMAIN q : m < n /\ q[m] = s[i] /\ q[n] = s[j]  BY DEF InOrderOf
<1>2. m \in 1..Len(q) /\ n \in 1..Len(q) /\ Len(q) \in Nat  BY SeqFacts
<1>3. m # 1  BY <1>1, TailFacts DEF ToSet
<1>4. m - 1 \in 1..Len(q)-1 /\ n - 1 \in 1..Len(q)-1 /\ m - 1 < n - 1
      /\ (m - 1) + 1 = m /\ (n - 1) + 1 = n
  BY <1>1, <1>2, <1>3
<1>5. Tail(q)[m - 1] = q[m] /\ Tail(q)[n - 1] = q[n] /\ DOMAIN Tail(q) = 1..Len(q)-1
  BY <1>4, TailFacts
<1> QED  BY <1>1, <1>4, <1>5

\* The first of both goes.
LEMMA TailInOrder ==
  ASSUME NEW S, NEW s \in Seq(S), NEW q \in Seq(S), InOrderOf(s, q), IsInjective(q),
         s # <<>>, q # <<>>, Head(s) = Head(q)
  PROVE  InOrderOf(Tail(s), Tail(q))
<1>1. InOrderOf(Tail(s), q)
  <2> SUFFICES ASSUME NEW i \in DOMAIN Tail(s), NEW j \in DOMAIN Tail(s), i < j
               PROVE  \E m, n \in DOMAIN q : m < n /\ q[m] = Tail(s)[i] /\ q[n] = Tail(s)[j]
    BY DEF InOrderOf
  <2>1. i \in 1..Len(s)-1 /\ j \in 1..Len(s)-1 /\ Len(s) \in Nat /\ DOMAIN s = 1..Len(s)
    BY TailFacts, SeqFacts
  <2>2. i + 1 \in DOMAIN s /\ j + 1 \in DOMAIN s /\ i + 1 < j + 1  BY <2>1
  <2>3. Tail(s)[i] = s[i + 1] /\ Tail(s)[j] = s[j + 1]  BY <2>1, TailFacts
  <2> QED  BY <2>2, <2>3 DEF InOrderOf
<1>2. Head(q) \notin ToSet(Tail(s))  BY OrderedOnce, TailFacts
<1>3. Tail(s) \in Seq(S)  BY TailFacts
<1> QED  BY <1>1, <1>2, <1>3, OrderInTail

LEMMA RemoveInOrder ==
  ASSUME NEW S, NEW s \in Seq(S), NEW q, InOrderOf(s, q), NEW n \in DOMAIN s
  PROVE  InOrderOf(RemoveAt(s, n), q)
<1>1. PICK r : r = RemoveAt(s, n)  OBVIOUS
<1>2. /\ DOMAIN r = 1..Len(s)-1 /\ Len(s) \in Nat /\ DOMAIN s = 1..Len(s)
      /\ \A i \in 1..Len(s)-1 : r[i] = IF i < n THEN s[i] ELSE s[i+1]
  BY <1>1, RemoveFacts, SeqFacts
<1> DEFINE From(i) == IF i < n THEN i ELSE i + 1
<1>3. \A i \in DOMAIN r : From(i) \in DOMAIN s /\ r[i] = s[From(i)]  BY <1>2
<1>4. \A i, j \in DOMAIN r : i < j => From(i) < From(j)  BY <1>2
<1> HIDE DEF From
<1> QED  BY <1>1, <1>3, <1>4 DEF InOrderOf

\* More comes behind both, or behind q.
LEMMA ConcatInOrder ==
  ASSUME NEW S, NEW s \in Seq(S), NEW q \in Seq(S), NEW t \in Seq(S), InOrderOf(s, q),
         ToSet(s) \subseteq ToSet(q)
  PROVE  InOrderOf(s, q \o t) /\ InOrderOf(s \o t, q \o t)
<1>1. PICK r : r = q \o t  OBVIOUS
<1>2. PICK u : u = s \o t  OBVIOUS
<1>3. /\ Len(q) \in Nat /\ DOMAIN q = 1..Len(q) /\ Len(s) \in Nat /\ DOMAIN s = 1..Len(s)
      /\ DOMAIN t = 1..Len(t) /\ Len(t) \in Nat
  BY SeqFacts
<1>4. /\ DOMAIN r = 1..Len(q)+Len(t) /\ \A i \in DOMAIN q : r[i] = q[i] /\ i \in DOMAIN r
      /\ \A j \in DOMAIN t : r[Len(q) + j] = t[j] /\ Len(q) + j \in DOMAIN r
  BY <1>1, <1>3, ConcatFacts
<1>5. /\ DOMAIN u = 1..Len(s)+Len(t) /\ \A i \in DOMAIN s : u[i] = s[i]
      /\ \A j \in DOMAIN t : u[Len(s) + j] = t[j]
  BY <1>2, ConcatFacts
<1>6. InOrderOf(s, r)  BY <1>4 DEF InOrderOf
<1>7. ASSUME NEW i \in DOMAIN u, NEW j \in DOMAIN u, i < j
      PROVE  \E m, n \in DOMAIN r : m < n /\ r[m] = u[i] /\ r[n] = u[j]
  <2>1. CASE j \in DOMAIN s
    <3>1. i \in DOMAIN s  BY <1>3, <1>5, <1>7, <2>1
    <3> QED  BY <1>5, <1>6, <1>7, <2>1, <3>1 DEF InOrderOf
  <2>2. CASE j \notin DOMAIN s
    <3>1. PICK l \in DOMAIN t : j = Len(s) + l
      <4>1. j - Len(s) \in DOMAIN t /\ j = Len(s) + (j - Len(s))  BY <1>3, <1>5, <2>2
      <4> QED  BY <4>1
    <3>2. r[Len(q) + l] = u[j] /\ Len(q) + l \in DOMAIN r  BY <1>4, <1>5, <3>1
    <3>3. CASE i \in DOMAIN s
      <4>1. PICK m \in DOMAIN q : q[m] = s[i]  BY <3>3 DEF ToSet
      <4>2. m < Len(q) + l  BY <1>3, <4>1
      <4>3. m \in DOMAIN r /\ r[m] = u[i]  BY <1>4, <1>5, <3>3, <4>1
      <4> QED  BY <3>2, <4>2, <4>3
    <3>4. CASE i \notin DOMAIN s
      <4>1. PICK k \in DOMAIN t : i = Len(s) + k
        <5>1. i - Len(s) \in DOMAIN t /\ i = Len(s) + (i - Len(s))  BY <1>3, <1>5, <3>4
        <5> QED  BY <5>1
      <4>2. r[Len(q) + k] = u[i] /\ Len(q) + k \in DOMAIN r  BY <1>4, <1>5, <4>1
      <4>3. Len(q) + k < Len(q) + l  BY <1>3, <1>7, <3>1, <4>1
      <4> QED  BY <3>2, <4>2, <4>3
    <3> QED  BY <3>3, <3>4
  <2> QED  BY <2>1, <2>2
<1>8. InOrderOf(u, r)  BY <1>7 DEF InOrderOf
<1> QED  BY <1>1, <1>2, <1>6, <1>8

----------------------------------------------------------------------------
\* The inductive invariant.

\* Where the reactor and the partly written packet are.
Control ==
    /\ phase = "asking" <=> asked # "none"
    /\ phase = "gone" => closed
    /\ phase = "writing" => ~closed
    /\ offset < IF pending = 0 THEN 1 ELSE Parts(pending)

\* QueuesAgree, and what a packet that was assembled and not yet sent is.
Queues ==
    ~closed =>
        /\ ToSet(sent) = {k \in ToSet(queue) : k \notin discarded /\ made[k] # "choke"}
        /\ InOrderOf(sent, queue)
        /\ IsInjective(assembled) /\ IsInjective(queue)
        /\ ToSet(assembled) \cap ToSet(queue) = {}
        /\ ToSet(assembled) \cap deleted = {} /\ ToSet(queue) \cap deleted = {}
        /\ ToSet(assembled) \cap discarded = {}
        /\ \A k \in ToSet(assembled) : made[k] # "choke"

\* As long as no two updates of ioRequests overlapped, what a thread has read of it
\* is still what it is, and the request that is being counted has its place.
Counted ==
    raced \/
        /\ ioRequests = Len(reads) + (IF callback = "none" THEN 0 ELSE 1)
        /\ ioRequests <= MaxRequests
        /\ phase = "asking" => seen = ioRequests /\ seen < MaxRequests
        /\ callback # "none" => seenByDisk = ioRequests
        /\ ~closed => Len(reads) + (IF phase = "asking" THEN 1 ELSE 0)
                        + Len(assembled) + Len(sent) <= MaxRequests
        /\ ~aborted

Charged == maxTokens >= 0 => spent + tokens = maxTokens

IInv == TypeOK /\ Control /\ Queues /\ Counted /\ Charged


----------------------------------------------------------------------------
\* What the steps have in common.

\* A packet that is made is a new number; what the others are stays.
LEMMA MadeGrows ==
  ASSUME TypeOK, NEW x \in Blocks \cup {"choke"}, made' = Append(made, x)
  PROVE  /\ made' \in Seq(Blocks \cup {"choke"})
         /\ Len(made') = Len(made) + 1 /\ Len(made) \in Nat
         /\ Packets' = Packets \cup {Len(made')} /\ Len(made') \notin Packets
         /\ \A k \in Packets : made'[k] = made[k]
         /\ made'[Len(made')] = x
BY DEF TypeOK, Packets

\* A sequence of packets stays one.
LEMMA StillPackets ==
  ASSUME NEW S, NEW T, S \subseteq T, NEW s \in Seq(S)
  PROVE  s \in Seq(T)
<1>1. s \in [1..Len(s) -> S] /\ Len(s) \in Nat  OBVIOUS
<1>2. s \in [1..Len(s) -> T]  BY <1>1
<1> QED  BY <1>1, <1>2, SeqDef

\* a is s with x behind.
Longer(a, s, x) ==
    Len(a) = Len(s) + 1 /\ a[Len(s) + 1] = x /\ \A i \in 1..Len(s) : a[i] = s[i]

LEMMA AppendIsLonger ==
  ASSUME NEW S, NEW s \in Seq(S), NEW x \in S
  PROVE  Append(s, x) \in Seq(S) /\ Longer(Append(s, x), s, x)
BY DEF Longer

LEMMA LongerFacts ==
  ASSUME NEW S, NEW s \in Seq(S), NEW x \in S, NEW a \in Seq(S), Longer(a, s, x)
  PROVE  /\ ToSet(a) = ToSet(s) \cup {x}
         /\ x \notin ToSet(s) /\ IsInjective(s) => IsInjective(a)
         /\ \A t : InOrderOf(t, s) => InOrderOf(t, a)
<1>1. /\ Len(s) \in Nat /\ DOMAIN s = 1..Len(s) /\ DOMAIN a = 1..Len(s)+1
      /\ a[Len(s) + 1] = x /\ \A i \in 1..Len(s) : a[i] = s[i]
  BY DEF Longer
<1>2. ToSet(a) = ToSet(s) \cup {x}  BY <1>1 DEF ToSet
<1>3. ASSUME x \notin ToSet(s), IsInjective(s) PROVE IsInjective(a)
  BY <1>1, <1>3 DEF ToSet, IsInjective
<1>4. ASSUME NEW t, InOrderOf(t, s) PROVE InOrderOf(t, a)  BY <1>1, <1>4 DEF InOrderOf
<1> QED  BY <1>2, <1>3, <1>4

LEMMA QueuesSame ==
  ASSUME Queues, UNCHANGED <<closed, sent, queue, assembled, discarded, deleted, made>>
  PROVE  Queues'
BY DEF Queues

\* The first of the packets in s that hold b.
LEMMA FirstMatchFacts ==
  ASSUME NEW S, NEW s \in Seq(S), NEW b, Matches(s, b) # {}
  PROVE  FirstMatch(s, b) \in DOMAIN s /\ s[FirstMatch(s, b)] \in ToSet(s)
<1>1. Matches(s, b) \subseteq Nat  BY SeqFacts DEF Matches
<1>2. PICK n \in Matches(s, b) : \A m \in Matches(s, b) : ~ (<<m, n>> \in OpToRel(<, Nat))
  BY <1>1, NatLessThanWellFounded, WFMin
<1>3. ASSUME NEW m \in Matches(s, b) PROVE n <= m
  <2>1. m \in Nat /\ n \in Nat  BY <1>1
  <2>2. m < n => <<m, n>> \in OpToRel(<, Nat)  BY <2>1 DEF OpToRel
  <2>3. ~ (m < n)  BY <1>2, <2>2
  <2> QED  BY <2>1, <2>3
<1>4. FirstMatch(s, b) \in Matches(s, b)  BY <1>3 DEF FirstMatch
<1> QED  BY <1>4 DEF Matches, ToSet

----------------------------------------------------------------------------
\* The requests and their callbacks.

LEMMA ModFacts ==
  ASSUME NEW m \in Nat \ {0}, NEW x \in Int
  PROVE  x % m \in 0..m-1 /\ (x \in 0..m-1 => x % m = x /\ (x + m) % m = x)
OBVIOUS

LEMMA CounterFacts == MaxRequests \in Nat /\ CounterMod \in Nat \ {0} /\ MaxRequests < CounterMod
BY RequestAssumption

LEMMA RequestHolds ==
  ASSUME IInv, NEW b \in Blocks, Request(b)
  PROVE  IInv'
<1> USE DEF Request, Reading, taskVars, socketVars, packetVars, rateVars
<1>1. TypeOK'  BY DEF IInv, TypeOK, Packets
<1>2. Control'  BY BlockAssumption DEF IInv, Control, Parts
<1>3. Queues'  BY QueuesSame DEF IInv
<1>4. Counted'
  <2>1. Len(reads) \in Nat /\ Len(assembled) \in Nat /\ Len(sent) \in Nat /\ ioRequests \in Nat
    BY DEF IInv, TypeOK
  <2> QED  BY <2>1, CounterFacts DEF IInv, Counted
<1>5. Charged'  BY DEF IInv, Charged
<1> QED  BY <1>1, <1>2, <1>3, <1>4, <1>5 DEF IInv

LEMMA CountRequestHolds ==
  ASSUME IInv, CountRequest
  PROVE  IInv'
<1> USE DEF CountRequest, socketVars, packetVars, rateVars
<1>1. asked \in Blocks /\ reads \in Seq(Blocks)  BY DEF IInv, TypeOK, Control
<1>2. reads' \in Seq(Blocks) /\ Len(reads') = Len(reads) + 1 /\ Len(reads) \in Nat  BY <1>1
<1>3. seen \in 0..CounterMod-1 /\ ioRequests' \in 0..CounterMod-1
  BY CounterFacts, ModFacts DEF IInv, TypeOK
<1>4. TypeOK'
  <2>1. raced' \in BOOLEAN  BY DEF IInv, TypeOK
  <2> QED  BY <1>2, <1>3, <2>1, CounterFacts DEF IInv, TypeOK, Packets
<1>5. Control'  BY DEF IInv, Control, Parts
<1>6. Queues'  BY QueuesSame DEF IInv
<1>7. Counted'
  <2> SUFFICES ASSUME ~raced' PROVE Counted'
    BY DEF Counted
  <2>1. ~raced /\ seen = ioRequests /\ callback = "none"  BY <1>4 DEF IInv, TypeOK
  <2>2. seen + 1 \in 0..CounterMod-1  BY <1>3, <2>1, CounterFacts DEF IInv, Counted
  <2>3. ioRequests' = seen + 1  BY <2>2, CounterFacts
  <2>4. Len(assembled) \in Nat /\ Len(sent) \in Nat  BY DEF IInv, TypeOK
  <2> QED  BY <1>2, <1>3, <2>1, <2>3, <2>4, CounterFacts DEF IInv, Counted
<1>8. Charged'  BY DEF IInv, Charged
<1> QED  BY <1>4, <1>5, <1>6, <1>7, <1>8 DEF IInv

LEMMA ReadFailureHolds ==
  ASSUME IInv, ReadFailure
  PROVE  IInv'
<1> USE DEF ReadFailure, socketVars, packetVars, rateVars
<1>1. reads \in Seq(Blocks) /\ Len(reads) \in Nat \ {0}  BY DEF IInv, TypeOK
<1>2. reads' \in Seq(Blocks) /\ Len(reads') = Len(reads) - 1  BY <1>1
<1>3. TypeOK'
  <2>1. callback' \in {"none", "success", "failure"} /\ seenByDisk' \in 0..CounterMod-1
        /\ aborted' \in BOOLEAN
    BY DEF IInv, TypeOK
  <2> QED  BY <1>2, <2>1 DEF IInv, TypeOK, Packets
<1>4. Control'  BY DEF IInv, Control, Parts
<1>5. Queues'  BY QueuesSame DEF IInv
<1>6. Counted'
  <2> SUFFICES ASSUME ~raced PROVE Counted'
    BY DEF Counted
  <2>1. ioRequests = Len(reads) /\ ioRequests > 0  BY <1>1 DEF IInv, Counted
  <2>2. Len(assembled) \in Nat /\ Len(sent) \in Nat  BY DEF IInv, TypeOK
  <2> QED  BY <1>1, <1>2, <2>1, <2>2, CounterFacts DEF IInv, Counted
<1>7. Charged'  BY DEF IInv, Charged
<1> QED  BY <1>3, <1>4, <1>5, <1>6, <1>7 DEF IInv

LEMMA CountReadHolds ==
  ASSUME IInv, CountRead
  PROVE  IInv'
<1> USE DEF CountRead, socketVars, packetVars, rateVars
<1>1. seenByDisk \in 0..CounterMod-1 /\ ioRequests' \in 0..CounterMod-1
  BY CounterFacts, ModFacts DEF IInv, TypeOK
<1>2. TypeOK'
  <2>1. raced' \in BOOLEAN  BY DEF IInv, TypeOK
  <2> QED  BY <1>1, <2>1, CounterFacts DEF IInv, TypeOK, Packets
<1>3. Control'  BY DEF IInv, Control, Parts
<1>4. Queues'  BY QueuesSame DEF IInv
<1>5. Counted'
  <2> SUFFICES ASSUME ~raced' PROVE Counted'
    BY DEF Counted
  <2>1. ~raced /\ seenByDisk = ioRequests /\ phase # "asking"  BY <1>2 DEF IInv, TypeOK
  <2>2. Len(reads) \in Nat /\ Len(assembled) \in Nat /\ Len(sent) \in Nat  BY DEF IInv, TypeOK
  <2>3. ioRequests = Len(reads) + 1 /\ seenByDisk - 1 \in 0..CounterMod-1
    BY <1>1, <2>1, <2>2, CounterFacts DEF IInv, Counted
  <2>4. seenByDisk + CounterMod - 1 = (seenByDisk - 1) + CounterMod  BY <1>1, CounterFacts
  <2>5. ((seenByDisk - 1) + CounterMod) % CounterMod = seenByDisk - 1
    <3>1. PICK x \in 0..CounterMod-1 : x = seenByDisk - 1  BY <2>3
    <3>2. x \in Int /\ CounterMod \in Nat \ {0}  BY <3>1, CounterFacts
    <3>3. (x + CounterMod) % CounterMod = x  BY <3>2, ModFacts
    <3> QED  BY <3>1, <3>3
  <2>6. ioRequests' = seenByDisk - 1  BY <2>4, <2>5
  <2> QED  BY <1>1, <2>1, <2>2, <2>3, <2>6, CounterFacts DEF IInv, Counted
<1>6. Charged'  BY DEF IInv, Charged
<1> QED  BY <1>2, <1>3, <1>4, <1>5, <1>6 DEF IInv

\* The block that was read becomes a new packet behind the assembled ones.
LEMMA ReadSuccessHolds ==
  ASSUME IInv, ReadSuccess
  PROVE  IInv'
<1> USE DEF ReadSuccess, socketVars, rateVars
<1> DEFINE k == Len(made')
<1>1. reads \in Seq(Blocks) /\ Len(reads) \in Nat \ {0} /\ Head(reads) \in Blocks
  BY DEF IInv, TypeOK
<1>2. reads' \in Seq(Blocks) /\ Len(reads') = Len(reads) - 1  BY <1>1
<1>3. /\ made' \in Seq(Blocks \cup {"choke"})
      /\ Packets' = Packets \cup {k} /\ k \notin Packets
      /\ \A j \in Packets : made'[j] = made[j]
      /\ made'[k] = Head(reads)
  BY <1>1, MadeGrows DEF IInv
<1>4. /\ assembled \in Seq(Packets') /\ sent \in Seq(Packets') /\ queue \in Seq(Packets')
      /\ ToSet(assembled) \subseteq Packets /\ ToSet(queue) \subseteq Packets
      /\ discarded \subseteq Packets /\ deleted \subseteq Packets
  BY <1>3, StillPackets, SeqFacts DEF IInv, TypeOK
<1> HIDE DEF k
<1>5. /\ assembled' \in Seq(Packets') /\ ToSet(assembled') = ToSet(assembled) \cup {k}
      /\ Len(assembled') = Len(assembled) + 1
      /\ IsInjective(assembled) => IsInjective(assembled')
  <2>1. assembled' = Append(assembled, k) /\ k \in Packets' /\ k \notin ToSet(assembled)
    BY <1>3, <1>4 DEF k
  <2>2. PICK S : S = Packets'  OBVIOUS
  <2>3. assembled \in Seq(S) /\ k \in S  BY <1>4, <2>1, <2>2
  <2>4. assembled' \in Seq(S) /\ Longer(assembled', assembled, k)  BY <2>1, <2>3 DEF Longer
  <2> HIDE DEF ReadSuccess
  <2>5. /\ ToSet(assembled') = ToSet(assembled) \cup {k}
        /\ k \notin ToSet(assembled) /\ IsInjective(assembled) => IsInjective(assembled')
    BY <2>3, <2>4, LongerFacts
  <2> QED  BY <2>1, <2>2, <2>4, <2>5 DEF Longer
<1>6. TypeOK'
  <2>1. wire \in Seq(Packets' \X (1..PieceParts))
    BY <1>3, StillPackets DEF IInv, TypeOK
  <2>2. pending \in Packets' \cup {0} /\ discarded \subseteq Packets' /\ deleted \subseteq Packets'
    BY <1>3 DEF IInv, TypeOK
  <2> QED  BY <1>2, <1>3, <1>4, <1>5, <2>1, <2>2 DEF IInv, TypeOK
<1>7. Control'  BY <1>3 DEF IInv, TypeOK, Control, Parts
<1>8. Queues'
  <2> SUFFICES ASSUME ~closed PROVE Queues'
    BY DEF Queues
  <2>1. made'[k] # "choke"  BY <1>1, <1>3, BlockAssumption
  <2>2. ToSet(sent)' = {j \in ToSet(queue)' : j \notin discarded' /\ made'[j] # "choke"}
    BY <1>3, <1>4 DEF IInv, Queues
  <2>3. InOrderOf(sent, queue)' /\ IsInjective(assembled)' /\ IsInjective(queue)'
    BY <1>5 DEF IInv, Queues
  <2>4. /\ (ToSet(assembled) \cap ToSet(queue) = {})'
        /\ (ToSet(assembled) \cap deleted = {})' /\ (ToSet(queue) \cap deleted = {})'
        /\ (ToSet(assembled) \cap discarded = {})'
    BY <1>3, <1>4, <1>5 DEF IInv, Queues
  <2>5. \A j \in ToSet(assembled') : made'[j] # "choke"
    BY <1>3, <1>4, <1>5, <2>1 DEF IInv, Queues
  <2> QED  BY <2>2, <2>3, <2>4, <2>5 DEF Queues
<1>9. Counted'
  <2> SUFFICES ASSUME ~raced PROVE Counted'
    BY DEF Counted
  <2>1. Len(assembled) \in Nat /\ Len(sent) \in Nat /\ ioRequests \in Nat  BY DEF IInv, TypeOK
  <2>2. /\ callback = "none" /\ callback' = "success" /\ seenByDisk' = ioRequests
        /\ UNCHANGED <<ioRequests, sent, closed, phase, seen, raced, aborted>>
    OBVIOUS
  <2> HIDE DEF ReadSuccess
  <2>3. ~closed => Len(reads') + (IF phase = "asking" THEN 1 ELSE 0)
                     + Len(assembled') + Len(sent) <= MaxRequests
    <3>1. ~closed => Len(reads) + (IF phase = "asking" THEN 1 ELSE 0)
                     + Len(assembled) + Len(sent) <= MaxRequests
      BY DEF IInv, Counted
    <3>2. PICK n \in {0, 1} : n = IF phase = "asking" THEN 1 ELSE 0  OBVIOUS
    <3>3. Len(reads') + n + Len(assembled') + Len(sent) = Len(reads) + n + Len(assembled) + Len(sent)
      <4>1. Len(reads) \in Nat /\ Len(assembled) \in Nat /\ Len(sent) \in Nat /\ n \in Nat
        BY <1>1, <2>1
      <4>2. Len(reads') = Len(reads) - 1  BY <1>2
      <4>3. Len(assembled') = Len(assembled) + 1  BY <1>5
      <4> QED  BY <4>1, <4>2, <4>3
    <3> QED  BY <3>1, <3>2, <3>3
  <2>4. ioRequests = Len(reads') + 1  BY <1>1, <1>2, <2>1, <2>2 DEF IInv, Counted
  <2> QED  BY <2>2, <2>3, <2>4 DEF IInv, Counted
<1>10. Charged'  BY DEF IInv, Charged
<1> QED  BY <1>6, <1>7, <1>8, <1>9, <1>10 DEF IInv

----------------------------------------------------------------------------
\* The lists of the task.

\* The parts of TypeOK that the lists and packets have.
LEMMA PacketTypes ==
  ASSUME TypeOK
  PROVE  /\ assembled \in Seq(Packets) /\ sent \in Seq(Packets) /\ queue \in Seq(Packets)
         /\ ToSet(assembled) \subseteq Packets /\ ToSet(sent) \subseteq Packets
         /\ ToSet(queue) \subseteq Packets
         /\ Len(assembled) \in Nat /\ Len(sent) \in Nat /\ Len(queue) \in Nat
         /\ Len(reads) \in Nat
<1>1. assembled \in Seq(Packets) /\ sent \in Seq(Packets) /\ queue \in Seq(Packets)
      /\ reads \in Seq(Blocks)
  BY DEF TypeOK
<1> QED  BY <1>1, SeqFacts

\* Fewer messages in the lists keep the count of requests right.
LEMMA CountedShrinks ==
  ASSUME TypeOK, Counted, TypeOK',
         UNCHANGED <<ioRequests, reads, callback, seenByDisk, phase, asked, seen, raced, aborted>>,
         ~closed' => ~closed /\ Len(assembled') + Len(sent') <= Len(assembled) + Len(sent)
  PROVE  Counted'
<1> SUFFICES ASSUME ~raced PROVE Counted'
  BY DEF Counted
<1>1. /\ Len(assembled) \in Nat /\ Len(sent) \in Nat /\ Len(reads) \in Nat
      /\ Len(assembled') \in Nat /\ Len(sent') \in Nat
  <2>1. assembled' \in Seq(Packets') /\ sent' \in Seq(Packets')  BY DEF TypeOK
  <2>2. Len(assembled') \in Nat /\ Len(sent') \in Nat  BY <2>1
  <2> QED  BY <2>2, PacketTypes
<1>2. ~closed' => Len(reads) + (IF phase = "asking" THEN 1 ELSE 0)
                    + Len(assembled') + Len(sent') <= MaxRequests
  <2>1. ~closed => Len(reads) + (IF phase = "asking" THEN 1 ELSE 0)
                     + Len(assembled) + Len(sent) <= MaxRequests
    BY DEF Counted
  <2>2. PICK n \in {0, 1} : n = IF phase = "asking" THEN 1 ELSE 0  OBVIOUS
  <2> QED  BY <1>1, <2>1, <2>2, CounterFacts
<1> QED  BY <1>2 DEF Counted

LEMMA CancelAssembledHolds ==
  ASSUME IInv, NEW b \in Blocks, CancelAssembled(b)
  PROVE  IInv'
<1> DEFINE n == FirstMatch(assembled, b)
           x == assembled[n]
<1>1. /\ assembled' = RemoveAt(assembled, n) /\ deleted' = deleted \cup {x}
      /\ UNCHANGED <<ioRequests, reads, sent, callback, seenByDisk, queue, pending, offset, closed,
                     made, discarded, tokens, maxTokens, spent, phase, asked, seen, choked, wire,
                     raced, aborted>>
  BY DEF CancelAssembled, socketVars, rateVars
<1>2. n \in DOMAIN assembled /\ x \in ToSet(assembled) /\ x \in Packets
  BY FirstMatchFacts, PacketTypes DEF IInv, CancelAssembled
<1> HIDE DEF n, x
<1>3. /\ assembled' \in Seq(Packets) /\ Len(assembled') = Len(assembled) - 1
      /\ ToSet(assembled') \subseteq ToSet(assembled)
      /\ IsInjective(assembled) => ToSet(assembled') = ToSet(assembled) \ {x}
                                   /\ IsInjective(assembled')
  BY <1>1, <1>2, RemoveFacts, PacketTypes DEF IInv, x
<1>4. TypeOK'  BY <1>1, <1>2, <1>3 DEF IInv, TypeOK, Packets
<1>5. Control'  BY <1>1 DEF IInv, Control, Parts
<1>6. Queues'
  <2> SUFFICES ASSUME ~closed PROVE Queues'
    BY <1>1 DEF Queues
  <2>1. ToSet(assembled') = ToSet(assembled) \ {x} /\ IsInjective(assembled')
    BY <1>3 DEF IInv, Queues
  <2>2. /\ ToSet(assembled') \cap ToSet(queue) = {} /\ ToSet(assembled') \cap deleted' = {}
        /\ ToSet(queue) \cap deleted' = {} /\ ToSet(assembled') \cap discarded = {}
    BY <1>1, <1>2, <2>1 DEF IInv, Queues
  <2> QED  BY <1>1, <1>3, <2>1, <2>2 DEF IInv, Queues
<1>7. Counted'
  <2>1. Len(assembled') + Len(sent') <= Len(assembled) + Len(sent)
    BY <1>1, <1>3, PacketTypes DEF IInv
  <2> QED  BY <1>1, <1>4, <2>1, CountedShrinks DEF IInv
<1>8. Charged'  BY <1>1 DEF IInv, Charged
<1> QED  BY <1>4, <1>5, <1>6, <1>7, <1>8 DEF IInv

\* The message stays in the queue of the socket, as a discarded one.
LEMMA CancelSentHolds ==
  ASSUME IInv, NEW b \in Blocks, CancelSent(b)
  PROVE  IInv'
<1> DEFINE n == FirstMatch(sent, b)
           x == sent[n]
<1>1. /\ sent' = RemoveAt(sent, n) /\ discarded' = discarded \cup {x} /\ ~closed
      /\ UNCHANGED <<ioRequests, reads, assembled, callback, seenByDisk, queue, pending, offset,
                     closed, made, deleted, tokens, maxTokens, spent, phase, asked, seen, choked,
                     wire, raced, aborted>>
  BY DEF CancelSent, socketVars, rateVars
<1>2. n \in DOMAIN sent /\ x \in ToSet(sent) /\ x \in Packets
  BY FirstMatchFacts, PacketTypes DEF IInv, CancelSent
<1> HIDE DEF n, x
<1>3. IsInjective(sent) /\ InOrderOf(sent, queue) /\ x \in ToSet(queue)
  BY <1>1, <1>2, OrderedOnce, PacketTypes DEF IInv, Queues
<1>4. /\ sent' \in Seq(Packets) /\ Len(sent') = Len(sent) - 1
      /\ ToSet(sent') = ToSet(sent) \ {x}
  BY <1>1, <1>2, <1>3, RemoveFacts, PacketTypes DEF IInv, x
<1>5. InOrderOf(sent', queue)  BY <1>1, <1>2, <1>3, RemoveInOrder, PacketTypes DEF IInv
<1>6. TypeOK'  BY <1>1, <1>2, <1>4 DEF IInv, TypeOK, Packets
<1>7. Control'  BY <1>1 DEF IInv, Control, Parts
<1>8. Queues'
  <2>1. ToSet(sent') = {k \in ToSet(queue) : k \notin discarded' /\ made[k] # "choke"}
    BY <1>1, <1>4 DEF IInv, Queues
  <2>2. ToSet(assembled) \cap discarded' = {}  BY <1>1, <1>3 DEF IInv, Queues
  <2> QED  BY <1>1, <1>5, <2>1, <2>2 DEF IInv, Queues
<1>9. Counted'
  <2>1. Len(assembled') + Len(sent') <= Len(assembled) + Len(sent)
    BY <1>1, <1>4, PacketTypes DEF IInv
  <2> QED  BY <1>1, <1>6, <2>1, CountedShrinks DEF IInv
<1>10. Charged'  BY <1>1 DEF IInv, Charged
<1> QED  BY <1>6, <1>7, <1>8, <1>9, <1>10 DEF IInv

LEMMA CancelDeletedHolds ==
  ASSUME IInv, CancelDeleted
  PROVE  IInv'
<1>1. PICK n \in DOMAIN sent : sent' = RemoveAt(sent, n)  BY DEF CancelDeleted
<1>2. /\ closed
      /\ UNCHANGED <<ioRequests, reads, assembled, callback, seenByDisk, queue, pending, offset,
                     closed, made, discarded, deleted, tokens, maxTokens, spent, phase, asked,
                     seen, choked, wire, raced, aborted>>
  BY DEF CancelDeleted, socketVars, packetVars, rateVars
<1>3. sent' \in Seq(Packets)  BY <1>1, RemoveFacts, PacketTypes DEF IInv
<1>4. TypeOK'  BY <1>2, <1>3 DEF IInv, TypeOK, Packets
<1>5. Control'  BY <1>2 DEF IInv, Control, Parts
<1>6. Queues'  BY <1>2 DEF Queues
<1>7. Counted'  BY <1>2, <1>4, CountedShrinks DEF IInv
<1>8. Charged'  BY <1>2 DEF IInv, Charged
<1> QED  BY <1>4, <1>5, <1>6, <1>7, <1>8 DEF IInv

LEMMA UploadBlocksHolds ==
  ASSUME IInv, UploadBlocks
  PROVE  IInv'
<1>1. /\ sent' = sent \o assembled /\ queue' = queue \o assembled /\ assembled' = <<>> /\ ~closed
      /\ UNCHANGED <<ioRequests, reads, callback, seenByDisk, pending, offset, closed,
                     made, discarded, deleted, tokens, maxTokens, spent, phase, asked,
                     seen, choked, wire, raced, aborted>>
  BY DEF UploadBlocks, packetVars, rateVars
<1>2. PICK P : P = Packets  OBVIOUS
<1>3. assembled \in Seq(P) /\ sent \in Seq(P) /\ queue \in Seq(P)  BY <1>2, PacketTypes DEF IInv
<1>4. /\ sent \o assembled \in Seq(P) /\ Len(sent \o assembled) = Len(sent) + Len(assembled)
      /\ ToSet(sent \o assembled) = ToSet(sent) \cup ToSet(assembled)
  BY <1>3, ConcatFacts, ConcatProperties
<1>5. /\ queue \o assembled \in Seq(P)
      /\ ToSet(queue \o assembled) = ToSet(queue) \cup ToSet(assembled)
      /\ IsInjective(queue) /\ IsInjective(assembled) /\ ToSet(queue) \cap ToSet(assembled) = {}
           => IsInjective(queue \o assembled)
  BY <1>3, ConcatFacts
<1>6. <<>> \in Seq(P) /\ Len(<<>>) = 0 /\ ToSet(<<>>) = {} /\ IsInjective(<<>>)
  BY DEF ToSet, IsInjective
<1>7. InOrderOf(sent, queue) /\ ToSet(sent) \subseteq ToSet(queue)
  BY <1>1 DEF IInv, Queues
<1>8. InOrderOf(sent \o assembled, queue \o assembled)  BY <1>3, <1>7, ConcatInOrder
<1>9. TypeOK'  BY <1>1, <1>2, <1>4, <1>5, <1>6 DEF IInv, TypeOK, Packets
<1>10. Control'  BY <1>1 DEF IInv, Control, Parts
<1>11. Queues'
  <2>1. ToSet(sent') = {k \in ToSet(queue') : k \notin discarded' /\ made'[k] # "choke"}
    <3>1. ToSet(sent') = ToSet(sent) \cup ToSet(assembled)
          /\ ToSet(queue') = ToSet(queue) \cup ToSet(assembled)
      BY <1>1, <1>4, <1>5
    <3>2. \A k \in ToSet(assembled) : k \notin discarded /\ made[k] # "choke"
      BY <1>1 DEF IInv, Queues
    <3> QED  BY <1>1, <3>1, <3>2 DEF IInv, Queues
  <2>2. IsInjective(queue') /\ IsInjective(assembled') /\ ToSet(assembled') = {}
    BY <1>1, <1>5, <1>6 DEF IInv, Queues
  <2>3. ToSet(queue') \cap deleted' = {}  BY <1>1, <1>5 DEF IInv, Queues
  <2>4. InOrderOf(sent', queue')  BY <1>1, <1>8
  <2> QED  BY <2>1, <2>2, <2>3, <2>4 DEF Queues
<1>12. Counted'
  <2>1. Len(assembled') + Len(sent') <= Len(assembled) + Len(sent)
    <3>1. Len(sent') = Len(sent) + Len(assembled)  BY <1>1, <1>4
    <3>2. Len(assembled') = 0  BY <1>1, <1>6
    <3>3. Len(sent) \in Nat /\ Len(assembled) \in Nat  BY PacketTypes DEF IInv
    <3> QED  BY <3>1, <3>2, <3>3
  <2> QED  BY <1>1, <1>9, <2>1, CountedShrinks DEF IInv
<1>13. Charged'  BY <1>1 DEF IInv, Charged
<1> QED  BY <1>9, <1>10, <1>11, <1>12, <1>13 DEF IInv

LEMMA CancelUploadHolds ==
  ASSUME IInv, CancelUpload
  PROVE  IInv'
<1>1. /\ deleted' = deleted \cup ToSet(assembled) /\ discarded' = discarded \cup ToSet(sent)
      /\ assembled' = <<>> /\ sent' = <<>> /\ ~closed
      /\ UNCHANGED <<ioRequests, reads, callback, seenByDisk, queue, pending, offset, closed,
                     made, tokens, maxTokens, spent, phase, asked, seen, choked, wire, raced,
                     aborted>>
  BY DEF CancelUpload, socketVars, rateVars
<1>2. \A S : <<>> \in Seq(S) /\ Len(<<>>) = 0 /\ ToSet(<<>>) = {} /\ IsInjective(<<>>)
  BY DEF ToSet, IsInjective
<1>3. TypeOK'
  <2>1. discarded' \subseteq Packets /\ deleted' \subseteq Packets
    BY <1>1, PacketTypes DEF IInv, TypeOK
  <2> QED  BY <1>1, <1>2, <2>1 DEF IInv, TypeOK, Packets
<1>4. Control'  BY <1>1 DEF IInv, Control, Parts
<1>5. Queues'
  <2>1. ToSet(assembled') = {} /\ ToSet(sent') = {} /\ IsInjective(assembled')  BY <1>1, <1>2
  <2>2. ToSet(sent') = {k \in ToSet(queue) : k \notin discarded' /\ made[k] # "choke"}
    BY <1>1, <2>1 DEF IInv, Queues
  <2>3. ToSet(queue) \cap deleted' = {}  BY <1>1 DEF IInv, Queues
  <2>4. InOrderOf(sent', queue)
    <3>1. DOMAIN sent' = {}  BY <1>1
    <3> QED  BY <3>1 DEF InOrderOf
  <2> QED  BY <1>1, <2>1, <2>2, <2>3, <2>4 DEF IInv, Queues
<1>6. Counted'
  <2>1. Len(assembled') = 0 /\ Len(sent') = 0  BY <1>1, <1>2
  <2>2. Len(assembled') + Len(sent') <= Len(assembled) + Len(sent)
    BY <2>1, PacketTypes DEF IInv
  <2> QED  BY <1>1, <1>3, <2>2, CountedShrinks DEF IInv
<1>7. Charged'  BY <1>1 DEF IInv, Charged
<1> QED  BY <1>3, <1>4, <1>5, <1>6, <1>7 DEF IInv

\* The choke message goes behind all that is in the queue.
LEMMA ToggleChokeHolds ==
  ASSUME IInv, ToggleChoke
  PROVE  IInv'
<1> DEFINE k == Len(made')
<1>1. /\ made' = Append(made, "choke") /\ queue' = Append(queue, k) /\ choked' = ~choked
      /\ UNCHANGED <<ioRequests, reads, assembled, sent, callback, seenByDisk, pending, offset,
                     closed, discarded, deleted, tokens, maxTokens, spent, phase, asked, seen,
                     wire, raced, aborted>>
  BY DEF ToggleChoke, taskVars, rateVars
<1>2. /\ made' \in Seq(Blocks \cup {"choke"})
      /\ Packets' = Packets \cup {k} /\ k \notin Packets
      /\ \A j \in Packets : made'[j] = made[j]
      /\ made'[k] = "choke"
  BY <1>1, MadeGrows DEF IInv
<1> HIDE DEF k
<1>3. PICK P : P = Packets'  OBVIOUS
<1>4. /\ assembled \in Seq(P) /\ sent \in Seq(P) /\ queue \in Seq(P)
      /\ wire \in Seq(P \X (1..PieceParts))
  BY <1>2, <1>3, StillPackets DEF IInv, TypeOK
<1>5. k \notin ToSet(queue) /\ k \in P  BY <1>2, <1>3, PacketTypes DEF IInv
<1>6. queue' \in Seq(P) /\ Longer(queue', queue, k)  BY <1>1, <1>4, <1>5, AppendIsLonger
<1>7. /\ ToSet(queue') = ToSet(queue) \cup {k}
      /\ IsInjective(queue) => IsInjective(queue')
      /\ InOrderOf(sent, queue) => InOrderOf(sent, queue')
  BY <1>4, <1>5, <1>6, LongerFacts
<1>8. TypeOK'
  <2>1. pending \in Packets' \cup {0} /\ discarded \subseteq Packets' /\ deleted \subseteq Packets'
        /\ choked' \in BOOLEAN
    BY <1>1, <1>2 DEF IInv, TypeOK
  <2> QED  BY <1>1, <1>2, <1>3, <1>4, <1>6, <2>1 DEF IInv, TypeOK
<1>9. Control'  BY <1>1, <1>2 DEF IInv, TypeOK, Control, Parts
<1>10. Queues'
  <2> SUFFICES ASSUME ~closed PROVE Queues'
    BY <1>1 DEF Queues
  <2>1. ToSet(sent) = {j \in ToSet(queue') : j \notin discarded /\ made'[j] # "choke"}
    BY <1>2, <1>7, PacketTypes DEF IInv, Queues
  <2>2. ToSet(assembled) \cap ToSet(queue') = {}
    BY <1>2, <1>7, PacketTypes DEF IInv, Queues
  <2>3. ToSet(queue') \cap deleted = {}  BY <1>2, <1>7 DEF IInv, TypeOK, Queues
  <2>4. \A j \in ToSet(assembled) : made'[j] # "choke"
    BY <1>2, PacketTypes DEF IInv, Queues
  <2> QED  BY <1>1, <1>7, <2>1, <2>2, <2>3, <2>4 DEF IInv, Queues
<1>11. Counted'  BY <1>1 DEF IInv, Counted
<1>12. Charged'  BY <1>1 DEF IInv, Charged
<1> QED  BY <1>8, <1>9, <1>10, <1>11, <1>12 DEF IInv

----------------------------------------------------------------------------
\* Writing.

LEMMA DataFacts ==
  ASSUME IInv, queue # <<>>
  PROVE  /\ Head(queue) \in Packets /\ Head(queue) \in ToSet(queue) /\ Data \in Packets
         /\ Parts(Data) \in 1..PieceParts /\ offset \in Nat
         /\ offset < Parts(Data) /\ Remain \in 1..PieceParts
<1>1. Head(queue) \in Packets /\ Head(queue) \in ToSet(queue)
  BY PacketTypes, TailFacts DEF IInv
<1>2. /\ Data \in Packets /\ 0 \notin Packets
      /\ pending # 0 => Data = pending
      /\ pending = 0 => offset < 1
      /\ pending # 0 => offset < Parts(pending)
      /\ offset \in Nat
  BY <1>1 DEF IInv, TypeOK, Control, Data, Packets
<1>3. \A k \in Packets : Parts(k) \in 1..PieceParts
  BY PartsAssumption DEF Parts
<1>4. Parts(Data) \in 1..PieceParts /\ offset < Parts(Data)
  BY <1>2, <1>3
<1>5. Remain \in 1..PieceParts
  BY <1>2, <1>4, PartsAssumption DEF Remain
<1> QED  BY <1>1, <1>2, <1>4, <1>5

\* The parts that leave are parts of the packet.
LEMMA TransmitFacts ==
  ASSUME TypeOK, Data \in Packets, Parts(Data) \in 1..PieceParts,
         NEW n \in Nat, offset + n <= Parts(Data), Transmit(n)
  PROVE  wire' \in Seq(Packets \X (1..PieceParts))
<1>1. PICK S : S = Packets \X (1..PieceParts)  OBVIOUS
<1>2. PICK new : new = [j \in 1..n |-> <<Data, offset + j>>]  OBVIOUS
<1>3. \A j \in 1..n : offset + j \in 1..PieceParts  BY PartsAssumption DEF TypeOK
<1>4. new \in [1..n -> S]  BY <1>1, <1>2, <1>3
<1>5. new \in Seq(S)  BY <1>4, SeqDef
<1>6. wire \in Seq(S) /\ wire' = wire \o new  BY <1>1, <1>2 DEF TypeOK, Transmit
<1> QED  BY <1>1, <1>5, <1>6, ConcatProperties

\* What was allocated and not sent comes back.
LEMMA SpendFacts ==
  ASSUME TypeOK, Charged, Remain \in Nat, NEW n \in Nat, n <= AllocateBandwidth(Remain),
         Spend(AllocateBandwidth(Remain), n), UNCHANGED maxTokens
  PROVE  tokens' \in Int /\ spent' \in Nat /\ Charged'
<1> DEFINE Kept == /\ tokens' \in Int /\ spent' \in Nat
                   /\ maxTokens >= 0 => spent' + tokens' = maxTokens
<1>1. tokens \in Int /\ maxTokens \in Int /\ spent \in Nat  BY DEF TypeOK
<1>2. ASSUME maxTokens > 0 PROVE Kept
  <2>1. PICK a : a = AllocateBandwidth(Remain)  OBVIOUS
  <2>2. a = Smaller(tokens, Remain) /\ a \in Int
    BY <1>1, <1>2, <2>1 DEF AllocateBandwidth, Allocate, Smaller
  <2>3. /\ tokens' = (IF a - n > 0 THEN Smaller((tokens - a) + (a - n), maxTokens) ELSE tokens - a)
        /\ spent' = spent + n
    BY <1>2, <2>1 DEF Spend, ReleaseBandwidth, Release
  <2>4. spent + tokens = maxTokens /\ n <= a  BY <1>2, <1>1, <2>1 DEF Charged
  <2>5. tokens' = tokens - n  BY <1>1, <2>2, <2>3, <2>4 DEF Smaller
  <2> QED  BY <1>1, <1>2, <2>3, <2>4, <2>5
<1>3. ASSUME maxTokens = 0 PROVE Kept
  <2>1. AllocateBandwidth(Remain) = 0 /\ n = 0  BY <1>3 DEF AllocateBandwidth, Allocate
  <2>2. tokens' = tokens /\ spent' = spent
    BY <1>3, <2>1 DEF Spend, ReleaseBandwidth
  <2> QED  BY <1>1, <1>3, <2>2 DEF Charged
<1>4. ASSUME maxTokens < 0 PROVE Kept
  <2>1. AllocateBandwidth(Remain) = Remain
    BY <1>1, <1>4 DEF AllocateBandwidth, Allocate
  <2>2. tokens' \in Int /\ spent' = spent
    BY <1>1, <1>4, <2>1 DEF Spend, ReleaseBandwidth, Release, Smaller
  <2>3. ~ (maxTokens >= 0)  BY <1>1, <1>4
  <2>4. spent' \in Nat  BY <1>1, <2>2
  <2> QED  BY <2>2, <2>3, <2>4
<1>5. Kept  BY <1>1, <1>2, <1>3, <1>4
<1> QED  BY <1>5 DEF Charged

\* A discarded packet is not among the sent messages.
LEMMA WriteDiscardedHolds ==
  ASSUME IInv, WriteDiscarded
  PROVE  IInv'
<1>1. /\ queue # <<>> /\ Head(queue) \in discarded /\ offset = 0
      /\ pending' = Data /\ queue' = Tail(queue) /\ deleted' = deleted \cup {Head(queue)}
      /\ UNCHANGED <<ioRequests, reads, assembled, sent, callback, seenByDisk, offset, closed,
                     made, discarded, tokens, maxTokens, spent, phase, asked, seen, choked, wire,
                     raced, aborted>>
  BY DEF WriteDiscarded, Skips, taskVars, rateVars
<1>2. /\ Head(queue) \in Packets /\ Head(queue) \in ToSet(queue) /\ Data \in Packets
      /\ Parts(Data) \in 1..PieceParts
  BY <1>1, DataFacts
<1>3. /\ queue' \in Seq(Packets) /\ ToSet(queue') \subseteq ToSet(queue)
      /\ IsInjective(queue) => ToSet(queue') = ToSet(queue) \ {Head(queue)} /\ IsInjective(queue')
  BY <1>1, TailFacts, PacketTypes DEF IInv
<1>4. TypeOK'  BY <1>1, <1>2, <1>3 DEF IInv, TypeOK, Packets
<1>5. Control'
  <2>1. offset' < IF pending' = 0 THEN 1 ELSE Parts(pending')
    BY <1>1, <1>2, PartsAssumption
  <2> QED  BY <1>1, <2>1 DEF IInv, Control, Parts
<1>6. Queues'
  <2> SUFFICES ASSUME ~closed PROVE Queues'
    BY <1>1 DEF Queues
  <2>1. ToSet(queue') = ToSet(queue) \ {Head(queue)} /\ IsInjective(queue')
    BY <1>3 DEF IInv, Queues
  <2>2. Head(queue) \notin ToSet(sent) /\ InOrderOf(sent, queue)  BY <1>1 DEF IInv, Queues
  <2>3. InOrderOf(sent, queue')  BY <1>1, <2>2, OrderInTail, PacketTypes DEF IInv
  <2>4. ToSet(sent) = {k \in ToSet(queue') : k \notin discarded /\ made[k] # "choke"}
    BY <1>1, <2>1 DEF IInv, Queues
  <2>5. /\ ToSet(assembled) \cap ToSet(queue') = {} /\ ToSet(assembled) \cap deleted' = {}
        /\ ToSet(queue') \cap deleted' = {}
    BY <1>1, <1>2, <2>1 DEF IInv, Queues
  <2> QED  BY <1>1, <2>1, <2>3, <2>4, <2>5 DEF IInv, Queues
<1>7. Counted'  BY <1>1, <1>4, CountedShrinks, PacketTypes DEF IInv
<1>8. Charged'  BY <1>1 DEF IInv, Charged
<1> QED  BY <1>4, <1>5, <1>6, <1>7, <1>8 DEF IInv

\* If the packet that left is reported, it is the first of the sent messages.
LEMMA WriteWholeHolds ==
  ASSUME IInv, WriteWhole
  PROVE  IInv'
<1> DEFINE x == Head(queue)
<1>1. /\ queue # <<>> /\ AllocateBandwidth(Remain) = Remain
      /\ Transmit(Remain) /\ Spend(Remain, Remain)
      /\ sent' = IF x \notin discarded /\ made[x] # "choke" THEN Tail(sent) ELSE sent
      /\ queue' = Tail(queue) /\ deleted' = deleted \cup {x}
      /\ pending' = 0 /\ offset' = 0
      /\ UNCHANGED <<ioRequests, reads, assembled, callback, seenByDisk, closed, made, discarded,
                     maxTokens, phase, asked, seen, choked, raced, aborted>>
  BY DEF WriteWhole, Notifies
<1>2. closed \/ (x \notin discarded /\ made[x] # "choke" => x \in ToSet(sent))
  BY <1>1, DataFacts DEF IInv, Queues
<1>3. /\ x \in Packets /\ x \in ToSet(queue) /\ Data \in Packets
      /\ Parts(Data) \in 1..PieceParts /\ offset \in Nat /\ offset < Parts(Data)
      /\ Remain \in Nat /\ offset + Remain <= Parts(Data)
  BY <1>1, DataFacts, PartsAssumption DEF Remain
<1>4. wire' \in Seq(Packets \X (1..PieceParts))  BY <1>1, <1>3, TransmitFacts DEF IInv
<1>5. tokens' \in Int /\ spent' \in Nat /\ Charged'  BY <1>1, <1>3, SpendFacts DEF IInv
<1>6. /\ queue' \in Seq(Packets) /\ ToSet(queue') \subseteq ToSet(queue)
      /\ IsInjective(queue) => ToSet(queue') = ToSet(queue) \ {x} /\ IsInjective(queue')
  BY <1>1, TailFacts, PacketTypes DEF IInv
<1>7. ~closed  BY DEF IInv, Control, WriteWhole, Writing
<1>8. /\ sent' \in Seq(Packets) /\ Len(sent') <= Len(sent)
      /\ ToSet(sent') = ToSet(sent) \ {x} /\ InOrderOf(sent', queue')
  <2>1. /\ IsInjective(queue) /\ InOrderOf(sent, queue)
        /\ sent \in Seq(Packets) /\ queue \in Seq(Packets)
    BY <1>7, PacketTypes DEF IInv, Queues
  <2>2. CASE x \notin discarded /\ made[x] # "choke"
    <3>1. x \in ToSet(sent)  BY <1>2, <1>7, <2>2
    <3>2. sent # <<>> /\ Head(sent) = x  BY <1>1, <2>1, <3>1, FirstInOrder
    <3>3. sent' = Tail(sent) /\ IsInjective(sent)  BY <1>1, <2>1, <2>2, OrderedOnce
    <3>4. InOrderOf(sent', queue')  BY <1>1, <2>1, <3>2, <3>3, TailInOrder
    <3>5. sent' \in Seq(Packets) /\ ToSet(sent') = ToSet(sent) \ {x}
      BY <2>1, <3>2, <3>3, TailFacts
    <3>6. Len(sent') <= Len(sent)  BY <2>1, <3>2, <3>3
    <3> QED  BY <3>4, <3>5, <3>6
  <2>3. CASE ~ (x \notin discarded /\ made[x] # "choke")
    <3>1. sent' = sent /\ x \notin ToSet(sent)  BY <1>1, <1>7, <2>3 DEF IInv, Queues
    <3>2. InOrderOf(sent', queue')  BY <1>1, <2>1, <3>1, OrderInTail
    <3> QED  BY <2>1, <3>1, <3>2, PacketTypes DEF IInv
  <2> QED  BY <2>2, <2>3
<1> HIDE DEF x
<1>9. TypeOK'  BY <1>1, <1>3, <1>4, <1>5, <1>6, <1>8 DEF IInv, TypeOK, Packets
<1>10. Control'  BY <1>1 DEF IInv, Control
<1>11. Queues'
  <2>1. ToSet(queue') = ToSet(queue) \ {x} /\ IsInjective(queue')
    BY <1>6, <1>7 DEF IInv, Queues
  <2>2. ToSet(sent') = {k \in ToSet(queue') : k \notin discarded /\ made[k] # "choke"}
    BY <1>7, <1>8, <2>1 DEF IInv, Queues
  <2>3. /\ ToSet(assembled) \cap ToSet(queue') = {} /\ ToSet(assembled) \cap deleted' = {}
        /\ ToSet(queue') \cap deleted' = {}
    BY <1>1, <1>3, <1>7, <2>1 DEF IInv, Queues
  <2> QED  BY <1>1, <1>8, <2>1, <2>2, <2>3 DEF IInv, Queues
<1>12. Counted'
  <2>1. Len(assembled') + Len(sent') <= Len(assembled) + Len(sent)
    <3>1. sent' \in Seq(Packets) /\ Len(sent') <= Len(sent) /\ assembled' = assembled  BY <1>1, <1>8
    <3>2. Len(sent') \in Nat /\ Len(sent) \in Nat /\ Len(assembled) \in Nat
      BY <3>1, SeqFacts, PacketTypes DEF IInv
    <3> QED  BY <3>1, <3>2
  <2> QED  BY <1>1, <1>9, <2>1, CountedShrinks DEF IInv
<1> QED  BY <1>5, <1>9, <1>10, <1>11, <1>12 DEF IInv

\* The packet stays in front, with what was sent of it.
LEMMA WritePartHolds ==
  ASSUME IInv, NEW n \in 0..PieceParts, WritePart(n)
  PROVE  IInv'
<1>1. /\ queue # <<>> /\ n < Remain /\ n <= AllocateBandwidth(Remain)
      /\ Transmit(n) /\ Spend(AllocateBandwidth(Remain), n)
      /\ pending' = Data /\ offset' = offset + n /\ phase = "writing" /\ phase' = "reading"
      /\ UNCHANGED <<ioRequests, reads, assembled, sent, callback, seenByDisk, queue, closed,
                     made, discarded, deleted, maxTokens, asked, seen, choked, raced, aborted>>
  BY DEF WritePart, Writing, taskVars, packetVars
<1>2. /\ Data \in Packets /\ Parts(Data) \in 1..PieceParts /\ offset \in Nat /\ n \in Nat
      /\ Remain \in Nat /\ Remain = Parts(Data) - offset
  BY <1>1, DataFacts, PartsAssumption DEF Remain
<1>3. offset + n < Parts(Data) /\ offset + n \in Nat  BY <1>1, <1>2
<1>4. wire' \in Seq(Packets \X (1..PieceParts))  BY <1>1, <1>2, <1>3, TransmitFacts DEF IInv
<1>5. tokens' \in Int /\ spent' \in Nat /\ Charged'  BY <1>1, <1>2, SpendFacts DEF IInv
<1>6. TypeOK'  BY <1>1, <1>2, <1>3, <1>4, <1>5 DEF IInv, TypeOK, Packets
<1>7. Control'
  <2>1. Data # 0 /\ offset' < Parts(Data)  BY <1>1, <1>2, <1>3 DEF Packets
  <2> QED  BY <1>1, <2>1 DEF IInv, Control, Parts
<1>8. Queues'  BY <1>1, QueuesSame DEF IInv
<1>9. Counted'  BY <1>1 DEF IInv, Counted
<1> QED  BY <1>5, <1>6, <1>7, <1>8, <1>9 DEF IInv

LEMMA WriteFailsHolds ==
  ASSUME IInv, NEW n \in 0..PieceParts, WriteFails(n)
  PROVE  IInv'
<1>1. /\ queue # <<>> /\ n < AllocateBandwidth(Remain)
      /\ Transmit(n) /\ Spend(AllocateBandwidth(Remain), 0)
      /\ closed' /\ deleted' = deleted \cup ToSet(queue) /\ queue' = <<>>
      /\ pending' = Data /\ phase = "writing" /\ phase' = "reading"
      /\ UNCHANGED <<ioRequests, reads, assembled, sent, callback, seenByDisk, offset,
                     made, discarded, maxTokens, asked, seen, choked, raced, aborted>>
  BY DEF WriteFails, CloseSocket, Writing, taskVars
<1>2. /\ Data \in Packets /\ Parts(Data) \in 1..PieceParts /\ offset \in Nat /\ n \in Nat
      /\ Remain \in Nat /\ Remain = Parts(Data) - offset /\ offset < Parts(Data)
  BY <1>1, DataFacts, PartsAssumption DEF Remain
<1>3. AllocateBandwidth(Remain) <= Remain /\ 0 <= AllocateBandwidth(Remain)
  <2>1. tokens \in Int /\ maxTokens \in Int  BY DEF IInv, TypeOK
  <2>2. AllocateBandwidth(Remain) \in {Smaller(tokens, Remain), 0, Remain}
    BY DEF AllocateBandwidth, Allocate
  <2>3. AllocateBandwidth(Remain) <= Remain /\ AllocateBandwidth(Remain) \in Int
    BY <1>2, <2>1, <2>2 DEF Smaller
  <2> QED  BY <1>1, <1>2, <2>3
<1>4. wire' \in Seq(Packets \X (1..PieceParts))
  <2>1. offset + n <= Parts(Data)
    <3>1. AllocateBandwidth(Remain) \in Int
      BY <1>2 DEF IInv, TypeOK, AllocateBandwidth, Allocate, Smaller
    <3> QED  BY <1>1, <1>2, <1>3, <3>1
  <2> QED  BY <1>1, <1>2, <2>1, TransmitFacts DEF IInv
<1>5. tokens' \in Int /\ spent' \in Nat /\ Charged'  BY <1>1, <1>2, <1>3, SpendFacts DEF IInv
<1>6. TypeOK'
  <2>1. queue' \in Seq(Packets) /\ deleted' \subseteq Packets /\ closed' \in BOOLEAN
    BY <1>1, PacketTypes DEF IInv, TypeOK
  <2> QED  BY <1>1, <1>2, <1>4, <1>5, <2>1 DEF IInv, TypeOK, Packets
<1>7. Control'
  <2>1. Data # 0  BY <1>2 DEF Packets
  <2> QED  BY <1>1, <1>2, <2>1 DEF IInv, Control, Parts
<1>8. Queues'  BY <1>1 DEF Queues
<1>9. Counted'  BY <1>1 DEF IInv, Counted
<1> QED  BY <1>5, <1>6, <1>7, <1>8, <1>9 DEF IInv

----------------------------------------------------------------------------
\* The pulse, the connection and the timers; all steps.

LEMMA OtherStepHolds ==
  ASSUME IInv,
         BeginPulse \/ WriteEnds \/ EndPulse \/ ReadCloses \/ Disconnect \/ Renew
           \/ \E n \in Limits : LimitRate(n)
  PROVE  IInv'
<1> USE DEF taskVars, socketVars, packetVars, rateVars
<1>1. CASE BeginPulse \/ WriteEnds \/ EndPulse
  <2>1. /\ UNCHANGED <<ioRequests, reads, assembled, sent, callback, seenByDisk, queue, pending,
                       offset, closed, made, discarded, deleted, tokens, maxTokens, spent, asked,
                       seen, choked, wire, raced, aborted>>
        /\ phase \in {"idle", "writing", "reading"} /\ phase' \in {"idle", "writing", "reading"}
        /\ phase' = "writing" => ~closed
    BY <1>1 DEF BeginPulse, WriteEnds, EndPulse, Idle, Writing, Reading
  <2>2. TypeOK'  BY <2>1 DEF IInv, TypeOK, Packets
  <2>3. Control'  BY <2>1 DEF IInv, Control, Parts
  <2>4. Queues'  BY <2>1, QueuesSame DEF IInv
  <2>5. Counted'  BY <2>1 DEF IInv, Counted
  <2>6. Charged'  BY <2>1 DEF IInv, Charged
  <2> QED  BY <2>2, <2>3, <2>4, <2>5, <2>6 DEF IInv
<1>2. CASE ReadCloses \/ Disconnect
  <2>1. /\ UNCHANGED <<ioRequests, reads, assembled, sent, callback, seenByDisk, pending,
                       offset, made, discarded, tokens, maxTokens, spent, asked,
                       seen, choked, wire, raced, aborted>>
        /\ phase = "reading" /\ phase' \in {"reading", "gone"}
        /\ closed' = TRUE /\ queue' = <<>>
        /\ deleted' \subseteq deleted \cup ToSet(queue) \cup ToSet(assembled)
    BY <1>2 DEF ReadCloses, Disconnect, CloseSocket, Reading
  <2>2. TypeOK'
    <3>1. queue' \in Seq(Packets) /\ deleted' \subseteq Packets
      BY <2>1, PacketTypes DEF IInv, TypeOK
    <3> QED  BY <2>1, <3>1 DEF IInv, TypeOK, Packets
  <2>3. Control'  BY <2>1 DEF IInv, Control, Parts
  <2>4. Queues'  BY <2>1 DEF Queues
  <2>5. Counted'  BY <2>1 DEF IInv, Counted
  <2>6. Charged'  BY <2>1 DEF IInv, Charged
  <2> QED  BY <2>2, <2>3, <2>4, <2>5, <2>6 DEF IInv
<1>3. CASE Renew \/ \E n \in Limits : LimitRate(n)
  <2>1. /\ UNCHANGED <<ioRequests, reads, assembled, sent, callback, seenByDisk, queue, pending,
                       offset, closed, made, discarded, deleted, phase, asked, seen, choked,
                       wire, raced, aborted>>
        /\ maxTokens' \in Limits \cup {maxTokens} /\ tokens' = maxTokens' /\ spent' = 0
    BY <1>3 DEF Renew, LimitRate
  <2>2. maxTokens' \in Int  BY <2>1, LimitAssumption DEF IInv, TypeOK
  <2>3. TypeOK'  BY <2>1, <2>2 DEF IInv, TypeOK, Packets
  <2>4. Control'  BY <2>1 DEF IInv, Control, Parts
  <2>5. Queues'  BY <2>1, QueuesSame DEF IInv
  <2>6. Counted'  BY <2>1 DEF IInv, Counted
  <2>7. Charged'
    <3>1. \A n \in Int : 0 + n = n  OBVIOUS
    <3>2. spent' + tokens' = maxTokens'  BY <2>1, <2>2, <3>1
    <3> QED  BY <3>2 DEF Charged
  <2> QED  BY <2>3, <2>4, <2>5, <2>6, <2>7 DEF IInv
<1> QED  BY <1>1, <1>2, <1>3

LEMMA DrainHolds ==
  ASSUME IInv, NEW n \in 1..Room, Drain(n)
  PROVE  IInv'
<1>1. /\ UNCHANGED <<ioRequests, reads, assembled, sent, callback, seenByDisk, queue, pending,
                     offset, closed, made, discarded, deleted, tokens, maxTokens, spent, phase,
                     asked, seen, choked, raced, aborted>>
      /\ wire' = SubSeq(wire, n + 1, Len(wire))
  BY DEF Drain, taskVars, socketVars, packetVars, rateVars
<1>2. wire' \in Seq(Packets \X (1..PieceParts))
  <2>1. PICK S : S = Packets \X (1..PieceParts)  OBVIOUS
  <2>2. wire \in Seq(S) /\ Len(wire) \in Int /\ n + 1 \in Int /\ n + 1 >= 1
    BY <2>1, PartsAssumption DEF IInv, TypeOK
  <2>3. \A i \in (n + 1)..Len(wire) : wire[i] \in S  BY <2>2, PartsAssumption
  <2>4. wire' \in Seq(S)  BY <1>1, <2>2, <2>3, SubSeqProperties
  <2> QED  BY <2>1, <2>4
<1>3. TypeOK'  BY <1>1, <1>2 DEF IInv, TypeOK, Packets
<1>4. Control'  BY <1>1 DEF IInv, Control, Parts
<1>5. Queues'  BY <1>1, QueuesSame DEF IInv
<1>6. Counted'  BY <1>1 DEF IInv, Counted
<1>7. Charged'  BY <1>1 DEF IInv, Charged
<1> QED  BY <1>3, <1>4, <1>5, <1>6, <1>7 DEF IInv

LEMMA InitHolds ==
  ASSUME Init
  PROVE  IInv
<1> USE DEF Init
<1>1. \A S : <<>> \in Seq(S) /\ Len(<<>>) = 0 /\ ToSet(<<>>) = {} /\ IsInjective(<<>>)
  BY DEF ToSet, IsInjective
<1>2. TypeOK
  <2>1. /\ made \in Seq(Blocks \cup {"choke"}) /\ reads \in Seq(Blocks)
        /\ assembled \in Seq(Packets) /\ sent \in Seq(Packets) /\ queue \in Seq(Packets)
        /\ wire \in Seq(Packets \X (1..PieceParts))
    BY <1>1
  <2>2. /\ ioRequests \in 0..CounterMod-1 /\ seen \in 0..CounterMod-1
        /\ seenByDisk \in 0..CounterMod-1
    BY RequestAssumption
  <2>3. tokens \in Int /\ maxTokens \in Int /\ spent \in Nat  BY LimitAssumption
  <2> QED  BY <2>1, <2>2, <2>3 DEF TypeOK
<1>3. Control  BY DEF Control
<1>4. Queues  BY <1>1 DEF Queues, InOrderOf
<1>5. Counted  BY <1>1, RequestAssumption DEF Counted
<1>6. Charged  BY LimitAssumption DEF Charged
<1> QED  BY <1>2, <1>3, <1>4, <1>5, <1>6 DEF IInv

LEMMA NextHolds ==
  ASSUME IInv, [Next]_vars
  PROVE  IInv'
<1>1. ASSUME NEW b \in Blocks, Request(b) \/ CancelAssembled(b) \/ CancelSent(b) PROVE IInv'
  BY <1>1, RequestHolds, CancelAssembledHolds, CancelSentHolds
<1>2. CASE CountRequest \/ CancelDeleted \/ ReadSuccess \/ ReadFailure \/ CountRead
  BY <1>2, CountRequestHolds, CancelDeletedHolds, ReadSuccessHolds, ReadFailureHolds,
     CountReadHolds
<1>3. CASE UploadBlocks \/ CancelUpload \/ ToggleChoke
  BY <1>3, UploadBlocksHolds, CancelUploadHolds, ToggleChokeHolds
<1>4. CASE WriteDiscarded \/ WriteWhole
  BY <1>4, WriteDiscardedHolds, WriteWholeHolds
<1>5. ASSUME NEW n \in 0..PieceParts, WritePart(n) \/ WriteFails(n) PROVE IInv'
  BY <1>5, WritePartHolds, WriteFailsHolds
<1>6. CASE BeginPulse \/ WriteEnds \/ EndPulse \/ ReadCloses \/ Disconnect \/ Renew
           \/ \E n \in Limits : LimitRate(n)
  BY <1>6, OtherStepHolds
<1>7. ASSUME NEW n \in 1..Room, Drain(n) PROVE IInv'
  BY <1>7, DrainHolds
<1>8. CASE UNCHANGED vars
  <2> USE <1>8 DEF vars, taskVars, socketVars, packetVars, rateVars
  <2>1. TypeOK'  BY DEF IInv, TypeOK, Packets
  <2>2. Control'  BY DEF IInv, Control, Parts
  <2>3. Queues'  BY QueuesSame DEF IInv
  <2>4. Counted'  BY DEF IInv, Counted
  <2>5. Charged'  BY DEF IInv, Charged
  <2> QED  BY <2>1, <2>2, <2>3, <2>4, <2>5 DEF IInv
<1> QED  BY <1>1, <1>2, <1>3, <1>4, <1>5, <1>6, <1>7, <1>8 DEF Next, UploadNext

----------------------------------------------------------------------------
\* Theorems.

\* In every state the two lists agree as QueuesAgree says, and as long as no updates
\* of ioRequests overlapped every thread's copy of it is exact (uploadtask.cc).
THEOREM ListsAndCountsAgree == Spec => []IInv
BY InitHolds, NextHolds, PTL DEF Spec

\* Every variable has its type: a counter of 64 bits, lists of packets that were made,
\* a wire that carries parts of them.
THEOREM TypesHold == Spec => []TypeOK
<1>1. IInv => TypeOK  BY DEF IInv
<1> QED  BY <1>1, ListsAndCountsAgree, PTL

\* The comment of uploadtask.cc:206-207 is right: the message that is reported as sent
\* is the first of sentMessages, whatever was cancelled, choked or partly written
\* before; and no packet is sent or deleted after it was deleted.
THEOREM QueuesStayAgreed == Spec => []QueuesAgree
<1>1. ASSUME IInv PROVE QueuesAgree
  <2> SUFFICES ASSUME Open PROVE QueuesAgree
    BY DEF QueuesAgree
  <2>1. Queues /\ ~closed  BY <1>1 DEF IInv, Open
  <2>2. assembled \in Seq(Packets) /\ queue \in Seq(Packets)  BY <1>1, PacketTypes DEF IInv
  <2>3. /\ ToSet(assembled \o queue) = ToSet(assembled) \cup ToSet(queue)
        /\ IsInjective(assembled) /\ IsInjective(queue) /\ ToSet(assembled) \cap ToSet(queue) = {}
             => IsInjective(assembled \o queue)
    BY <2>2, ConcatFacts
  <2> QED  BY <2>1, <2>3 DEF Queues, QueuesAgree
<1> QED  BY <1>1, ListsAndCountsAgree, PTL

\* The limits of a connection hold for any number of requests and any rates: the
\* unlocked counter is exact without overlaps, the peer never has more than MaxRequests
\* blocks under way, no assert fails, and no token is lost or spent twice.
THEOREM LimitsAreKept == Spec => []LimitsKept
<1>1. ASSUME IInv PROVE LimitsKept
  <2>1. Len(reads) \in Nat /\ Len(assembled) \in Nat /\ Len(sent) \in Nat
    BY <1>1, PacketTypes DEF IInv
  <2>2. raced \/ (Open => Len(reads) + Len(assembled) + Len(sent) <= MaxRequests)
    <3> SUFFICES ASSUME ~raced, Open PROVE Len(reads) + Len(assembled) + Len(sent) <= MaxRequests
      OBVIOUS
    <3>1. PICK n \in {0, 1} : n = IF phase = "asking" THEN 1 ELSE 0  OBVIOUS
    <3>2. Len(reads) + n + Len(assembled) + Len(sent) <= MaxRequests
      BY <1>1, <3>1 DEF IInv, Counted, Open
    <3> QED  BY <2>1, <3>1, <3>2, CounterFacts
  <2> QED  BY <1>1, <2>2 DEF IInv, Counted, Charged, LimitsKept
<1> QED  BY <1>1, ListsAndCountsAgree, PTL
============================================================================

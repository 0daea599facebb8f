------------------------ MODULE UploadStream_proofs ------------------------
(***************************************************************************)
(* A connection from end to end implements MessageStream, for any number   *)
(* of messages and blocks, messages of any length, any limits and any      *)
(* chunks in which the data is written and read.                           *)
(***************************************************************************)
EXTENDS UploadStream, Upload_proofs

----------------------------------------------------------------------------
\* Induction, and functions that are defined by recursion.

LEMMA NatSetInduction ==
  ASSUME NEW T \in SUBSET Nat, 0 \in T, \A n \in T : n + 1 \in T
  PROVE  T = Nat
<1> SUFFICES ASSUME Nat \ T # {} PROVE FALSE
  OBVIOUS
<1>1. PICK n \in Nat \ T : \A m \in Nat \ T : ~ (<<m, n>> \in OpToRel(<, Nat))
  BY NatLessThanWellFounded, WFMin
<1>2. n # 0 /\ n - 1 \in Nat  OBVIOUS
<1>3. <<n - 1, n>> \in OpToRel(<, Nat)  BY <1>2 DEF OpToRel
<1>4. n - 1 \in T  BY <1>1, <1>2, <1>3
<1> QED  BY <1>2, <1>4

\* A sequence is the empty one with so many elements behind it.
LEMMA SeqInduction ==
  ASSUME NEW S, NEW T \in SUBSET Seq(S), <<>> \in T, \A s \in T, x \in S : Append(s, x) \in T
  PROVE  T = Seq(S)
<1> DEFINE K == {n \in Nat : \A s \in Seq(S) : Len(s) = n => s \in T}
<1>1. 0 \in K
  <2>1. \A s \in Seq(S) : Len(s) = 0 => s = <<>>  OBVIOUS
  <2> QED  BY <2>1
<1>2. ASSUME NEW n \in K PROVE n + 1 \in K
  <2> SUFFICES ASSUME NEW s \in Seq(S), Len(s) = n + 1 PROVE s \in T
    OBVIOUS
  <2>1. PICK f : f = [i \in 1..n |-> s[i]]  OBVIOUS
  <2>2. s[n + 1] \in S /\ f \in Seq(S) /\ Len(f) = n  BY <2>1
  <2>3. f \in T  BY <2>2
  <2>4. Append(f, s[n + 1]) = s  BY <2>1, <2>2
  <2> QED  BY <2>2, <2>3, <2>4
<1> HIDE DEF K
<1>3. K = Nat  BY <1>1, <1>2, NatSetInduction DEF K
<1>4. ASSUME NEW s \in Seq(S) PROVE s \in T
  <2>1. Len(s) \in K  BY <1>3
  <2> QED  BY <2>1 DEF K
<1> QED  BY <1>4

\* A function on 0..N that is defined from its value one before exists and is the only one.
Follows(f, N, base, step) ==
    f[0] = base /\ \A n \in 1..N : f[n] = step[n][f[n-1]]

LEMMA RecursionExists ==
  ASSUME NEW N \in Nat, NEW S, NEW base \in S, NEW step \in [1..N -> [S -> S]]
  PROVE  \E f \in [0..N -> S] : Follows(f, N, base, step)
<1> USE DEF Follows
<1> DEFINE T == {k \in Nat : k <= N => \E f \in [0..k -> S] : Follows(f, k, base, step)}
<1>1. 0 \in T
  <2>1. Follows([n \in 0..0 |-> base], 0, base, step)  OBVIOUS
  <2> QED  BY <2>1
<1>2. ASSUME NEW k \in T PROVE k + 1 \in T
  <2> SUFFICES ASSUME k + 1 <= N PROVE \E f \in [0..k+1 -> S] : Follows(f, k + 1, base, step)
    OBVIOUS
  <2>1. PICK f \in [0..k -> S] : Follows(f, k, base, step)  OBVIOUS
  <2> DEFINE g == [n \in 0..k+1 |-> IF n = k + 1 THEN step[k+1][f[k]] ELSE f[n]]
  <2>2. k \in 0..k /\ k + 1 \in 1..N /\ f[k] \in S  BY <2>1
  <2>3. g \in [0..k+1 -> S]  BY <2>1, <2>2
  <2>4. g[0] = base  BY <2>1, <2>2
  <2>5. ASSUME NEW n \in 1..k+1 PROVE g[n] = step[n][g[n-1]]
    <3>1. CASE n = k + 1
      <4>1. g[n] = step[n][f[k]] /\ n - 1 = k  BY <2>2, <3>1
      <4>2. g[k] = f[k]  BY <2>2
      <4> QED  BY <4>1, <4>2
    <3>2. CASE n # k + 1
      <4>1. n \in 1..k /\ n - 1 \in 0..k  BY <2>2, <3>2
      <4>2. g[n] = f[n] /\ g[n-1] = f[n-1]  BY <2>2, <4>1
      <4> QED  BY <2>1, <4>1, <4>2
    <3> QED  BY <3>1, <3>2
  <2> HIDE DEF g
  <2> QED  BY <2>3, <2>4, <2>5
<1> HIDE DEF T
<1>3. T = Nat  BY <1>1, <1>2, NatSetInduction DEF T
<1> QED  BY <1>3 DEF T

LEMMA RecursionUnique ==
  ASSUME NEW N \in Nat, NEW base, NEW step, NEW f, NEW g,
         Follows(f, N, base, step), Follows(g, N, base, step)
  PROVE  \A n \in 0..N : f[n] = g[n]
<1> DEFINE T == {k \in Nat : k <= N => f[k] = g[k]}
<1>1. 0 \in T  BY DEF Follows
<1>2. ASSUME NEW k \in T PROVE k + 1 \in T
  <2> SUFFICES ASSUME k + 1 <= N PROVE f[k + 1] = g[k + 1]
    OBVIOUS
  <2>1. k + 1 \in 1..N /\ (k + 1) - 1 = k /\ f[k] = g[k]  OBVIOUS
  <2> QED  BY <2>1 DEF Follows
<1> HIDE DEF T
<1>3. T = Nat  BY <1>1, <1>2, NatSetInduction DEF T
<1> QED  BY <1>3 DEF T

----------------------------------------------------------------------------
\* MessageAssembler: what it makes of the data.

\* What is found in the data: whole messages, and the parts of an unfinished one.
Found(S) == [messages : Seq(Seq(S)), rest : Seq(S)]
Nothing == [messages |-> <<>>, rest |-> <<>>]

LEMMA TakePartFacts ==
  ASSUME NEW S, NEW size, NEW read \in Found(S), NEW part \in S
  PROVE  TakePart(size, read, part) \in Found(S)
<1>1. read.rest \in Seq(S) /\ read.messages \in Seq(Seq(S))  BY DEF Found
<1>2. PICK rest : rest = Append(read.rest, part)  OBVIOUS
<1>3. rest \in Seq(S) /\ Append(read.messages, rest) \in Seq(Seq(S)) /\ <<>> \in Seq(S)
  BY <1>1, <1>2
<1> QED  BY <1>1, <1>2, <1>3 DEF TakePart, Found

\* An element behind a concatenation.
LEMMA AppendConcat ==
  ASSUME NEW S, NEW x \in Seq(S), NEW y \in Seq(S), NEW e \in S
  PROVE  x \o y \in Seq(S) /\ x \o Append(y, e) = Append(x \o y, e) /\ x \o <<>> = x
OBVIOUS

\* The steps in which the data is taken.
Steps(S, size, data) ==
    [n \in 1..Len(data) |-> [read \in Found(S) |-> TakePart(size, read, data[n])]]

LEMMA AssembleFacts ==
  ASSUME NEW S, NEW size, NEW data \in Seq(S)
  PROVE  /\ Assemble(size, data) \in Found(S)
         /\ Steps(S, size, data) \in [1..Len(data) -> [Found(S) -> Found(S)]]
         /\ \E f \in [0..Len(data) -> Found(S)] :
              /\ Follows(f, Len(data), Nothing, Steps(S, size, data))
              /\ Assemble(size, data) = f[Len(data)]
<1> DEFINE N == Len(data)
           Def(read) == read = [n \in 0..N |-> IF n = 0 THEN [messages |-> <<>>, rest |-> <<>>]
                                               ELSE TakePart(size, read[n - 1], data[n])]
<1>1. N \in Nat /\ \A n \in 1..N : data[n] \in S  OBVIOUS
<1>2. Nothing \in Found(S)  BY DEF Nothing, Found
<1>3. Steps(S, size, data) \in [1..N -> [Found(S) -> Found(S)]]
  BY <1>1, TakePartFacts DEF Steps
<1>4. PICK f \in [0..N -> Found(S)] : Follows(f, N, Nothing, Steps(S, size, data))
  <2> HIDE DEF N
  <2> QED  BY <1>1, <1>2, <1>3, RecursionExists
<1>5. Def(f)
  <2>1. ASSUME NEW n \in 0..N, n # 0 PROVE f[n] = TakePart(size, f[n - 1], data[n])
    <3>1. n \in 1..N /\ n - 1 \in 0..N  BY <1>1, <2>1
    <3>2. f[n] = Steps(S, size, data)[n][f[n - 1]]  BY <1>4, <3>1 DEF Follows
    <3> QED  BY <3>1, <3>2 DEF Steps
  <2>2. f[0] = [messages |-> <<>>, rest |-> <<>>]  BY <1>4 DEF Follows, Nothing
  <2> HIDE DEF N
  <2> QED  BY <2>1, <2>2
<1>6. PICK g : g = CHOOSE read : Def(read)  OBVIOUS
<1>7. Def(g)  BY <1>5, <1>6
<1>8. Assemble(size, data) = g[N]  BY <1>6 DEF Assemble
<1>9. g[N] = f[N]
  <2> DEFINE T == {k \in Nat : k <= N => g[k] = f[k]}
  <2>1. \A n \in 0..N : n # 0 => f[n] = TakePart(size, f[n - 1], data[n])
    <3> HIDE DEF N
    <3> QED  BY <1>5
  <2>2. \A n \in 0..N : n # 0 => g[n] = TakePart(size, g[n - 1], data[n])
    <3> HIDE DEF N
    <3> QED  BY <1>7
  <2>3. g[0] = f[0]
    <3> HIDE DEF N
    <3> QED  BY <1>1, <1>5, <1>7
  <2>4. 0 \in T  BY <2>3
  <2>5. ASSUME NEW k \in T PROVE k + 1 \in T
    <3> SUFFICES ASSUME k + 1 <= N PROVE g[k + 1] = f[k + 1]
      OBVIOUS
    <3>1. k + 1 \in 0..N /\ k + 1 # 0 /\ (k + 1) - 1 = k /\ g[k] = f[k]  BY <1>1
    <3> QED  BY <2>1, <2>2, <3>1
  <2> HIDE DEF T
  <2>6. T = Nat  BY <2>4, <2>5, NatSetInduction DEF T
  <2> QED  BY <1>1, <2>6 DEF T
<1>10. f[N] \in Found(S)  BY <1>1, <1>4
<1> QED  BY <1>3, <1>4, <1>8, <1>9, <1>10

LEMMA AssembleNone ==
  ASSUME NEW size
  PROVE  Assemble(size, <<>>) = Nothing
<1>1. PICK data \in Seq(Nat) : data = <<>> /\ Len(data) = 0
  <2>1. <<>> \in Seq(Nat) /\ Len(<<>>) = 0  OBVIOUS
  <2> QED  BY <2>1
<1>2. \E f \in [0..Len(data) -> Found(Nat)] :
         /\ Follows(f, Len(data), Nothing, Steps(Nat, size, data))
         /\ Assemble(size, data) = f[Len(data)]
  BY AssembleFacts
<1> QED  BY <1>1, <1>2 DEF Follows

\* More data is taken as the data before it left the assembler.
LEMMA AssembleNext ==
  ASSUME NEW S, NEW size, NEW data \in Seq(S), NEW part \in S
  PROVE  Assemble(size, Append(data, part)) = TakePart(size, Assemble(size, data), part)
<1>1. PICK N : N = Len(data)  OBVIOUS
<1>2. PICK more : more = Append(data, part)  OBVIOUS
<1>3. /\ more \in Seq(S) /\ N \in Nat /\ Len(more) = N + 1 /\ more[N + 1] = part
      /\ \A n \in 1..N : more[n] = data[n]
  BY <1>1, <1>2
<1>4. PICK f \in [0..N -> Found(S)] :
         Follows(f, N, Nothing, Steps(S, size, data)) /\ Assemble(size, data) = f[N]
  BY <1>1, AssembleFacts
<1>5. PICK g \in [0..N+1 -> Found(S)] :
         Follows(g, N + 1, Nothing, Steps(S, size, more)) /\ Assemble(size, more) = g[N + 1]
  BY <1>3, AssembleFacts
<1>6. \A n \in 1..N : Steps(S, size, more)[n] = Steps(S, size, data)[n]
  BY <1>1, <1>3 DEF Steps
<1>7. Follows(g, N, Nothing, Steps(S, size, data))
  BY <1>3, <1>5, <1>6 DEF Follows
<1>8. f[N] = g[N]  BY <1>3, <1>4, <1>7, RecursionUnique
<1>9. N + 1 \in 1..N+1 /\ (N + 1) - 1 = N /\ N \in 0..N+1  BY <1>3
<1>10. g[N + 1] = Steps(S, size, more)[N + 1][g[N]]  BY <1>5, <1>9 DEF Follows
<1>11. g[N + 1] = TakePart(size, g[N], part)  BY <1>3, <1>5, <1>9, <1>10 DEF Steps
<1> QED  BY <1>2, <1>4, <1>5, <1>8, <1>11

----------------------------------------------------------------------------
\* The data comes in pieces.

\* None of the beginnings of r is a whole message.
Unfinished(size, r) == \A n \in 1..Len(r) : n # size[r[1][1]]

LEMMA RestUnfinished ==
  ASSUME NEW S, NEW size, NEW data \in Seq(S)
  PROVE  Unfinished(size, Assemble(size, data).rest)
<1> DEFINE T == {s \in Seq(S) : Unfinished(size, Assemble(size, s).rest)}
<1>1. <<>> \in T  BY AssembleNone DEF Nothing, Unfinished
<1>2. ASSUME NEW s \in T, NEW part \in S PROVE Append(s, part) \in T
  <2>1. PICK read \in Found(S) : read = Assemble(size, s)  BY AssembleFacts
  <2>2. PICK rest : rest = Append(read.rest, part)  OBVIOUS
  <2>3. read.rest \in Seq(S) /\ Unfinished(size, read.rest)  BY <2>1 DEF Found
  <2>4. /\ Append(s, part) \in Seq(S)
        /\ Assemble(size, Append(s, part)).rest
             = IF Len(rest) = size[rest[1][1]] THEN <<>> ELSE rest
    <3>1. Assemble(size, Append(s, part)) = TakePart(size, read, part)
      BY <2>1, AssembleNext
    <3>2. TakePart(size, read, part).rest = IF Len(rest) = size[rest[1][1]] THEN <<>> ELSE rest
      <4>1. CASE Len(rest) = size[rest[1][1]]  BY <2>2, <4>1 DEF TakePart
      <4>2. CASE Len(rest) # size[rest[1][1]]  BY <2>2, <4>2 DEF TakePart
      <4> QED  BY <4>1, <4>2
    <3>3. Append(s, part) \in Seq(S)  OBVIOUS
    <3> QED  BY <3>1, <3>2, <3>3
  <2>5. CASE Len(rest) = size[rest[1][1]]  BY <2>4, <2>5 DEF Unfinished
  <2>6. CASE Len(rest) # size[rest[1][1]]
    <3> SUFFICES ASSUME NEW n \in 1..Len(rest) PROVE n # size[rest[1][1]]
      BY <2>4, <2>6 DEF Unfinished
    <3>1. CASE n = Len(rest)  BY <2>6, <3>1
    <3>2. CASE n # Len(rest)
      <4>1. n \in 1..Len(read.rest) /\ rest[1] = read.rest[1]  BY <2>2, <2>3, <3>2
      <4> QED  BY <2>3, <4>1 DEF Unfinished
    <3> QED  BY <3>1, <3>2
  <2> QED  BY <2>5, <2>6
<1> HIDE DEF T
<1>3. T = Seq(S)  BY <1>1, <1>2, SeqInduction DEF T
<1> QED  BY <1>3 DEF T

\* An unfinished message is found again as it is.
LEMMA UnfinishedStays ==
  ASSUME NEW S, NEW size, NEW r \in Seq(S), Unfinished(size, r)
  PROVE  Assemble(size, r) = [messages |-> <<>>, rest |-> r]
<1> DEFINE T == {s \in Seq(S) : Unfinished(size, s)
                                  => Assemble(size, s) = [messages |-> <<>>, rest |-> s]}
<1>1. <<>> \in T  BY AssembleNone DEF Nothing
<1>2. ASSUME NEW s \in T, NEW part \in S PROVE Append(s, part) \in T
  <2>1. PICK rest : rest = Append(s, part)  OBVIOUS
  <2>2. /\ rest \in Seq(S) /\ Len(rest) = Len(s) + 1 /\ Len(s) \in Nat
        /\ \A n \in 1..Len(s) : rest[n] = s[n]
    BY <2>1
  <2> SUFFICES ASSUME Unfinished(size, rest)
               PROVE  Assemble(size, rest) = [messages |-> <<>>, rest |-> rest]
    BY <2>1, <2>2
  <2>3. Unfinished(size, s)
    <3> SUFFICES ASSUME NEW n \in 1..Len(s) PROVE n # size[s[1][1]]
      BY DEF Unfinished
    <3>1. n \in 1..Len(rest) /\ rest[1] = s[1]  BY <2>2
    <3> QED  BY <3>1 DEF Unfinished
  <2>4. Assemble(size, s) = [messages |-> <<>>, rest |-> s]  BY <2>3
  <2>5. Len(rest) # size[rest[1][1]]  BY <2>2 DEF Unfinished
  <2>6. Assemble(size, rest) = TakePart(size, Assemble(size, s), part)
    BY <2>1, AssembleNext
  <2> QED  BY <2>1, <2>4, <2>5, <2>6 DEF TakePart
<1> HIDE DEF T
<1>3. T = Seq(S)  BY <1>1, <1>2, SeqInduction DEF T
<1> QED  BY <1>3 DEF T

\* What a and then b make is what a makes, and what b makes behind what a left.
Split(size, a, b) ==
    LET A == Assemble(size, a)
        B == Assemble(size, A.rest \o b)
    IN  Assemble(size, a \o b) = [messages |-> A.messages \o B.messages, rest |-> B.rest]

LEMMA AssembleSplit ==
  ASSUME NEW S, NEW size, NEW a \in Seq(S), NEW b \in Seq(S)
  PROVE  Split(size, a, b)
<1>1. PICK A \in Found(S) : A = Assemble(size, a)  BY AssembleFacts
<1>2. A.messages \in Seq(Seq(S)) /\ A.rest \in Seq(S)
      /\ A = [messages |-> A.messages, rest |-> A.rest]
  BY DEF Found
<1> DEFINE B(s) == Assemble(size, A.rest \o s)
           T == {s \in Seq(S) : Assemble(size, a \o s)
                                  = [messages |-> A.messages \o B(s).messages, rest |-> B(s).rest]}
<1>3. <<>> \in T
  <2>1. a \o <<>> = a /\ A.rest \o <<>> = A.rest /\ A.messages \o <<>> = A.messages  BY <1>2
  <2>2. B(<<>>) = [messages |-> <<>>, rest |-> A.rest]
    BY <1>1, <1>2, <2>1, RestUnfinished, UnfinishedStays
  <2>3. [messages |-> A.messages \o B(<<>>).messages, rest |-> B(<<>>).rest] = A
    <3> HIDE DEF B
    <3> QED  BY <1>2, <2>1, <2>2
  <2>4. Assemble(size, a \o <<>>) = A  BY <1>1, <2>1
  <2> HIDE DEF B
  <2> QED  BY <2>3, <2>4
<1>4. ASSUME NEW s \in T, NEW part \in S PROVE Append(s, part) \in T
  <2>1. PICK before, behind, more : /\ before = a \o s /\ behind = A.rest \o s
                                    /\ more = Append(s, part)
    OBVIOUS
  <2>2. /\ more \in Seq(S) /\ before \in Seq(S) /\ behind \in Seq(S)
        /\ a \o more = Append(before, part) /\ A.rest \o more = Append(behind, part)
    <3>1. s \in Seq(S) /\ part \in S /\ A.rest \in Seq(S)  BY <1>2
    <3>2. more \in Seq(S)  BY <2>1, <3>1
    <3>3. before \in Seq(S) /\ a \o more = Append(before, part)
      <4>1. a \o s \in Seq(S) /\ a \o Append(s, part) = Append(a \o s, part)
        BY <3>1, AppendConcat
      <4> QED  BY <2>1, <4>1
    <3>4. behind \in Seq(S) /\ A.rest \o more = Append(behind, part)
      <4>1. PICK left \in Seq(S) : left = A.rest  BY <3>1
      <4>2. left \o s \in Seq(S) /\ left \o Append(s, part) = Append(left \o s, part)
        BY <3>1, AppendConcat
      <4> QED  BY <2>1, <4>1, <4>2
    <3> QED  BY <3>2, <3>3, <3>4
  <2>3. PICK read \in Found(S) : read = Assemble(size, behind)  BY <2>2, AssembleFacts
  <2>4. PICK rest : rest = Append(read.rest, part)  OBVIOUS
  <2>5. read.messages \in Seq(Seq(S)) /\ rest \in Seq(S)  BY <2>3, <2>4 DEF Found
  <2>6. PICK u : u = A.messages \o read.messages  OBVIOUS
  <2>7. Assemble(size, before) = [messages |-> u, rest |-> read.rest]
    BY <2>1, <2>3, <2>6
  <2>8. B(more) = TakePart(size, read, part)  BY <2>2, <2>3, AssembleNext
  <2>9. Assemble(size, a \o more) = TakePart(size, [messages |-> u, rest |-> read.rest], part)
    BY <2>2, <2>7, AssembleNext
  <2> HIDE DEF B
  <2>10. Assemble(size, a \o more)
           = [messages |-> A.messages \o B(more).messages, rest |-> B(more).rest]
    <3>1. CASE Len(rest) = size[rest[1][1]]
      <4>1. B(more) = [messages |-> Append(read.messages, rest), rest |-> <<>>]
        BY <2>4, <2>8, <3>1 DEF TakePart
      <4>2. Assemble(size, a \o more) = [messages |-> Append(u, rest), rest |-> <<>>]
        BY <2>4, <2>9, <3>1 DEF TakePart
      <4>3. Append(u, rest) = A.messages \o Append(read.messages, rest)
        <5>1. PICK S2, m1, m2 : S2 = Seq(S) /\ m1 = A.messages /\ m2 = read.messages  OBVIOUS
        <5>2. m1 \in Seq(S2) /\ m2 \in Seq(S2) /\ rest \in S2  BY <1>2, <2>5, <5>1
        <5>3. m1 \o Append(m2, rest) = Append(m1 \o m2, rest)  BY <5>2, AppendConcat
        <5> QED  BY <2>6, <5>1, <5>3
      <4> QED  BY <4>1, <4>2, <4>3
    <3>2. CASE Len(rest) # size[rest[1][1]]
      <4>1. B(more) = [messages |-> read.messages, rest |-> rest]
        BY <2>4, <2>8, <3>2 DEF TakePart
      <4>2. Assemble(size, a \o more) = [messages |-> u, rest |-> rest]
        BY <2>4, <2>9, <3>2 DEF TakePart
      <4> QED  BY <2>6, <4>1, <4>2
    <3> QED  BY <3>1, <3>2
  <2> QED  BY <2>1, <2>2, <2>10
<1> HIDE DEF T
<1>5. T = Seq(S)  BY <1>3, <1>4, SeqInduction DEF T
<1> QED  BY <1>1, <1>5 DEF T, Split

\* What is known of the packets in the data decides.
LEMMA AssembleSame ==
  ASSUME NEW S, NEW size, NEW other, NEW data \in Seq(S), \A p \in S : size[p[1]] = other[p[1]]
  PROVE  Assemble(size, data) = Assemble(other, data)
<1> DEFINE T == {s \in Seq(S) : Assemble(size, s) = Assemble(other, s)}
<1>1. <<>> \in T  BY AssembleNone
<1>2. ASSUME NEW s \in T, NEW part \in S PROVE Append(s, part) \in T
  <2>1. PICK read \in Found(S) : read = Assemble(size, s)  BY AssembleFacts
  <2>2. PICK rest : rest = Append(read.rest, part)  OBVIOUS
  <2>3. rest[1] \in S  BY <2>2 DEF Found
  <2>4. size[rest[1][1]] = other[rest[1][1]]  BY <2>3
  <2>5. TakePart(size, read, part) = TakePart(other, read, part)
    BY <2>2, <2>4 DEF TakePart
  <2>6. Assemble(other, s) = read /\ Append(s, part) \in Seq(S)  BY <2>1
  <2> QED  BY <2>1, <2>5, <2>6, AssembleNext
<1> HIDE DEF T
<1>3. T = Seq(S)  BY <1>1, <1>2, SeqInduction DEF T
<1> QED  BY <1>3 DEF T

\* The parts of a message, n of them behind the first o.
Row(k, o, n) == [j \in 1..n |-> <<k, o + j>>]

LEMMA AppendFunction ==
  ASSUME NEW S, NEW n \in Nat, NEW f \in [1..n+1 -> S]
  PROVE  /\ [j \in 1..n |-> f[j]] \in Seq(S) /\ Len([j \in 1..n |-> f[j]]) = n
         /\ Append([j \in 1..n |-> f[j]], f[n+1]) = [j \in 1..n+1 |-> f[j]]
OBVIOUS

\* The parts of message k are in S.
Typed(S, k, N) == \A j \in 1..N : <<k, j>> \in S

LEMMA RowIsSeq ==
  ASSUME NEW S, NEW k, NEW o \in Nat, NEW n \in Nat, NEW N \in Nat, o + n <= N, Typed(S, k, N)
  PROVE  Row(k, o, n) \in Seq(S)
<1>1. ASSUME NEW j \in 1..n PROVE <<k, o + j>> \in S
  <2>1. o + j \in 1..N  OBVIOUS
  <2> QED  BY <2>1 DEF Typed
<1>2. Row(k, o, n) \in [1..n -> S]  BY <1>1 DEF Row
<1> QED  BY <1>2

LEMMA RowLength ==
  ASSUME NEW k, NEW o \in Nat, NEW n \in Nat
  PROVE  Len(Row(k, o, n)) = n
<1>1. PICK S : S = {<<k, o + j>> : j \in 1..n}  OBVIOUS
<1>2. Row(k, o, n) \in [1..n -> S]  BY <1>1 DEF Row
<1> QED  BY <1>2

LEMMA RowName ==
  ASSUME NEW k, NEW o \in Nat, NEW n \in Nat, n > 0
  PROVE  Row(k, o, n)[1][1] = k
<1>1. Row(k, o, n)[1] = <<k, o + 1>>  BY DEF Row
<1> QED  BY <1>1

LEMMA RowGrows ==
  ASSUME NEW k, NEW o \in Nat, NEW n \in Nat
  PROVE  Append(Row(k, o, n), <<k, o + (n + 1)>>) = Row(k, o, n + 1)
<1>1. PICK f : f = [j \in 1..n+1 |-> <<k, o + j>>]  OBVIOUS
<1>2. PICK S : S = {<<k, o + j>> : j \in 1..n+1}  OBVIOUS
<1>3. f \in [1..n+1 -> S]  BY <1>1, <1>2
<1>4. f[n+1] = <<k, o + (n + 1)>>  BY <1>1
<1>5. Row(k, o, n) = [j \in 1..n |-> f[j]]  BY <1>1 DEF Row
<1>6. Row(k, o, n + 1) = [j \in 1..n+1 |-> f[j]]  BY <1>1 DEF Row
<1> QED  BY <1>3, <1>4, <1>5, <1>6, AppendFunction

\* After the data, o of the N parts of message k are there.
Begun(S, size, data, k, o, N) ==
    /\ size[k] = N /\ Typed(S, k, N)
    /\ Assemble(size, data).rest = Row(k, 0, o)

\* With more of the data the message is complete, or there are n of its parts.
Completed(size, data, more, k, N) ==
    Assemble(size, more) = [messages |-> Append(Assemble(size, data).messages, Row(k, 0, N)),
                            rest |-> <<>>]
Continued(size, data, more, k, n) ==
    Assemble(size, more) = [messages |-> Assemble(size, data).messages, rest |-> Row(k, 0, n)]

\* One part of the message comes.
LEMMA AssemblePart ==
  ASSUME NEW S, NEW size, NEW data \in Seq(S), NEW k, NEW h \in Nat, NEW N \in Nat, h < N,
         Begun(S, size, data, k, h, N)
  PROVE  /\ h + 1 = N => Completed(size, data, Append(data, <<k, h + 1>>), k, N)
         /\ h + 1 < N => Continued(size, data, Append(data, <<k, h + 1>>), k, h + 1)
<1>1. PICK A \in Found(S) : A = Assemble(size, data)  BY AssembleFacts
<1>2. PICK p \in S : p = <<k, h + 1>>
  <2>1. h + 1 \in 1..N  OBVIOUS
  <2> QED  BY <2>1 DEF Begun, Typed
<1>3. Assemble(size, Append(data, p)) = TakePart(size, A, p)  BY <1>1, AssembleNext
<1>4. PICK rest : rest = Append(A.rest, p)  OBVIOUS
<1>5. A.rest = Row(k, 0, h)  BY <1>1 DEF Begun
<1>6. rest = Row(k, 0, h + 1)
  <2>1. p = <<k, 0 + (h + 1)>>  BY <1>2
  <2> QED  BY <1>4, <1>5, <2>1, RowGrows
<1>7. Len(rest) = h + 1 /\ rest[1][1] = k
  <2>1. PICK z \in Nat, g \in Nat : z = 0 /\ g = h + 1 /\ g > 0  OBVIOUS
  <2>2. Len(Row(k, z, g)) = g  BY RowLength
  <2>3. Row(k, z, g)[1][1] = k  BY <2>1, RowName
  <2> QED  BY <1>6, <2>1, <2>2, <2>3
<1>8. size[rest[1][1]] = N  BY <1>7 DEF Begun
<1>9. TakePart(size, A, p) = IF Len(rest) = size[rest[1][1]]
                             THEN [messages |-> Append(A.messages, rest), rest |-> <<>>]
                             ELSE [messages |-> A.messages, rest |-> rest]
  BY <1>4 DEF TakePart
<1>10. CASE h + 1 = N
  <2>1. TakePart(size, A, p) = [messages |-> Append(A.messages, Row(k, 0, N)), rest |-> <<>>]
    BY <1>6, <1>7, <1>8, <1>9, <1>10
  <2> QED  BY <1>1, <1>2, <1>3, <1>10, <2>1 DEF Completed
<1>11. CASE h + 1 < N
  <2>1. TakePart(size, A, p) = [messages |-> A.messages, rest |-> Row(k, 0, h + 1)]
    BY <1>6, <1>7, <1>8, <1>9, <1>11
  <2> QED  BY <1>1, <1>2, <1>3, <1>11, <2>1 DEF Continued
<1> QED  BY <1>10, <1>11

\* n parts of the message come, and not the last one.
LEMMA AssembleSome ==
  ASSUME NEW S, NEW size, NEW data \in Seq(S), NEW k, NEW o \in Nat, NEW n \in Nat,
         NEW N \in Nat, o + n < N, Begun(S, size, data, k, o, N)
  PROVE  /\ Begun(S, size, data \o Row(k, o, n), k, o + n, N)
         /\ Continued(size, data, data \o Row(k, o, n), k, o + n)
         /\ data \o Row(k, o, n) \in Seq(S)
<1> DEFINE After(m) == data \o Row(k, o, m)
           T == {m \in Nat : o + m < N =>
                   /\ Begun(S, size, After(m), k, o + m, N) /\ After(m) \in Seq(S)
                   /\ Continued(size, data, After(m), k, o + m)}
<1>1. size[k] = N /\ Typed(S, k, N)  BY DEF Begun
<1>2. 0 \in T
  <2>1. After(0) = data /\ o + 0 = o
    <3>1. Row(k, o, 0) = <<>>  BY DEF Row
    <3> QED  BY <3>1
  <2> HIDE DEF After
  <2>2. Continued(size, data, data, k, o)  BY AssembleFacts DEF Found, Begun, Continued
  <2> QED  BY <2>1, <2>2
<1>3. ASSUME NEW m \in T PROVE m + 1 \in T
  <2> SUFFICES ASSUME o + (m + 1) < N
               PROVE  /\ Begun(S, size, After(m + 1), k, o + (m + 1), N) /\ After(m + 1) \in Seq(S)
                      /\ Continued(size, data, After(m + 1), k, o + (m + 1))
    OBVIOUS
  <2>1. PICK h \in Nat : h = o + m /\ h < N /\ h + 1 < N /\ h + 1 = o + (m + 1) /\ m \in Nat
    OBVIOUS
  <2>2. PICK before \in Seq(S) : /\ before = After(m) /\ Begun(S, size, before, k, h, N)
                                 /\ Continued(size, data, before, k, h)
    BY <2>1
  <2>3. PICK p \in S : p = <<k, h + 1>>
    <3>1. h + 1 \in 1..N  BY <2>1
    <3> QED  BY <1>1, <3>1 DEF Typed
  <2>4. PICK r \in Seq(S) : r = Row(k, o, m)
    <3>1. o + m <= N /\ m \in Nat  BY <2>1
    <3>2. Row(k, o, m) \in Seq(S)  BY <1>1, <3>1, RowIsSeq
    <3> QED  BY <3>2
  <2>5. Append(r, p) = Row(k, o, m + 1)
    <3>1. Append(Row(k, o, m), <<k, o + (m + 1)>>) = Row(k, o, m + 1)  BY <2>1, RowGrows
    <3> QED  BY <2>1, <2>3, <2>4, <3>1
  <2>6. data \o Append(r, p) = Append(data \o r, p)  BY AppendConcat
  <2>7. After(m + 1) = Append(before, p)  BY <2>2, <2>4, <2>5, <2>6
  <2>8. Continued(size, before, Append(before, p), k, h + 1)
    <3>1. Continued(size, before, Append(before, <<k, h + 1>>), k, h + 1)
      BY <2>1, <2>2, AssemblePart
    <3> QED  BY <2>3, <3>1
  <2> HIDE DEF After, T
  <2>9. Append(before, p) \in Seq(S)  OBVIOUS
  <2>10. Continued(size, data, Append(before, p), k, h + 1)  BY <2>2, <2>8 DEF Continued
  <2>11. Begun(S, size, Append(before, p), k, h + 1, N)  BY <1>1, <2>10 DEF Begun, Continued
  <2> QED  BY <2>1, <2>7, <2>9, <2>10, <2>11
<1> HIDE DEF T
<1>4. T = Nat  BY <1>2, <1>3, NatSetInduction DEF T
<1> QED  BY <1>4 DEF T

\* All parts that missed come.
LEMMA AssembleLast ==
  ASSUME NEW S, NEW size, NEW data \in Seq(S), NEW k, NEW o \in Nat, NEW n \in Nat,
         NEW N \in Nat, o + n = N, o < N, Begun(S, size, data, k, o, N)
  PROVE  Completed(size, data, data \o Row(k, o, n), k, N)
<1>1. PICK m \in Nat, h \in Nat : m + 1 = n /\ h = o + m /\ h + 1 = N /\ h < N
  <2>1. n - 1 \in Nat /\ o + (n - 1) \in Nat /\ (n - 1) + 1 = n /\ (o + (n - 1)) + 1 = N
    OBVIOUS
  <2> QED  BY <2>1
<1>2. PICK before \in Seq(S) : /\ before = data \o Row(k, o, m) /\ Begun(S, size, before, k, h, N)
                               /\ Continued(size, data, before, k, h)
  <2>1. o + m < N  BY <1>1
  <2>2. /\ Begun(S, size, data \o Row(k, o, m), k, o + m, N) /\ data \o Row(k, o, m) \in Seq(S)
        /\ Continued(size, data, data \o Row(k, o, m), k, o + m)
    BY <2>1, AssembleSome
  <2> QED  BY <1>1, <2>2
<1>3. Typed(S, k, N)  BY DEF Begun
<1>4. PICK p \in S : p = <<k, h + 1>>
  <2>1. h + 1 \in 1..N  BY <1>1
  <2> QED  BY <1>3, <2>1 DEF Typed
<1>5. PICK r \in Seq(S) : r = Row(k, o, m)
  <2>1. o + m <= N  BY <1>1
  <2>2. Row(k, o, m) \in Seq(S)  BY <1>3, <2>1, RowIsSeq
  <2> QED  BY <2>2
<1>6. Append(r, p) = Row(k, o, m + 1)
  <2>1. p = <<k, o + (m + 1)>>  BY <1>1, <1>4
  <2>2. Append(Row(k, o, m), <<k, o + (m + 1)>>) = Row(k, o, m + 1)  BY RowGrows
  <2> QED  BY <1>5, <2>1, <2>2
<1>7. data \o Append(r, p) = Append(data \o r, p)  BY AppendConcat
<1>8. data \o Row(k, o, n) = Append(before, p)  BY <1>1, <1>2, <1>5, <1>6, <1>7
<1>9. Completed(size, before, Append(before, p), k, N)
  <2>1. Completed(size, before, Append(before, <<k, h + 1>>), k, N)
    BY <1>1, <1>2, AssemblePart
  <2> QED  BY <1>4, <2>1
<1> QED  BY <1>2, <1>8, <1>9 DEF Completed, Continued

----------------------------------------------------------------------------
\* The messages of a stream.

LEMMA ConcatTypes ==
  ASSUME NEW S, NEW x \in Seq(S), NEW y \in Seq(S)
  PROVE  x \o y \in Seq(S) /\ x \o <<>> = x /\ <<>> \o x = x
OBVIOUS

\* By a name, for the sequences that a step puts together.
Joins(x, y, z) == (x \o y) \o z = x \o (y \o z)

LEMMA Associative ==
  ASSUME NEW S, NEW x \in Seq(S), NEW y \in Seq(S), NEW z \in Seq(S)
  PROVE  Joins(x, y, z)
BY DEF Joins

Glued(x, e, z) == /\ Append(x, e) = x \o <<e>>
                  /\ Append(x, e) \o z = x \o (<<e>> \o z)

LEMMA AppendGlues ==
  ASSUME NEW S, NEW x \in Seq(S), NEW e \in S, NEW z \in Seq(S)
  PROVE  Glued(x, e, z)
BY DEF Glued

LEMMA HeadAndTail ==
  ASSUME NEW S, NEW s \in Seq(S), s # <<>>, NEW z \in Seq(S)
  PROVE  /\ Head(s) \in S /\ Tail(s) \in Seq(S) /\ s = <<Head(s)>> \o Tail(s)
         /\ s \o z \in Seq(S) /\ s \o z # <<>> /\ Tail(s \o z) = Tail(s) \o z
         /\ Head(s \o z) = Head(s)
OBVIOUS

\* A sequence is its first n elements and the others.
LEMMA SplitFacts ==
  ASSUME NEW S, NEW s \in Seq(S), NEW n \in Nat, n <= Len(s)
  PROVE  /\ SubSeq(s, 1, n) \in Seq(S) /\ SubSeq(s, n + 1, Len(s)) \in Seq(S)
         /\ s = SubSeq(s, 1, n) \o SubSeq(s, n + 1, Len(s))
<1>1. Len(s) \in Nat /\ \A i \in 1..Len(s) : s[i] \in S  OBVIOUS
<1>2. PICK a, b : a = SubSeq(s, 1, n) /\ b = SubSeq(s, n + 1, Len(s))  OBVIOUS
<1>3. a \in Seq(S) /\ Len(a) = n /\ \A i \in 1..n : a[i] = s[i]
  BY <1>1, <1>2, SubSeqProperties
<1>4. /\ b \in Seq(S) /\ Len(b) = Len(s) - n
      /\ \A i \in 1..Len(s)-n : b[i] = s[n + i]
  BY <1>1, <1>2, SubSeqProperties
<1>5. PICK c \in Seq(S) : c = a \o b  BY <1>3, <1>4, ConcatProperties
<1>6. Len(c) = Len(s) /\ \A i \in 1..Len(s) : c[i] = s[i]
  <2>1. Len(c) = Len(s)
    <3>1. Len(c) = Len(a) + Len(b)  BY <1>3, <1>4, <1>5, ConcatProperties
    <3> QED  BY <1>1, <1>3, <1>4, <3>1
  <2>2. \A i \in 1..Len(s) : i <= n => c[i] = s[i]  BY <1>1, <1>3, <1>4, <1>5, ConcatProperties
  <2>3. ASSUME NEW i \in 1..Len(s), i > n PROVE c[i] = s[i]
    <3>1. i - n \in 1..Len(s)-n /\ n + (i - n) = i  BY <1>1, <2>3
    <3>2. c[i] = b[i - n]  BY <1>1, <1>3, <1>4, <1>5, <2>3, ConcatProperties
    <3> QED  BY <1>4, <3>1, <3>2
  <2> QED  BY <1>1, <2>1, <2>2, <2>3
<1>7. c = s  BY <1>6
<1> QED  BY <1>2, <1>3, <1>4, <1>5, <1>7

\* Where the second of two sequences begins in the two of them.
Behind(s, x, y) == \E n \in Nat : /\ n = Len(s) - Len(y) /\ n > 0
                                    /\ y = SubSeq(s, n + 1, Len(s)) /\ x = SubSeq(s, 1, n)

LEMMA JoinFacts ==
  ASSUME NEW S, NEW x \in Seq(S), NEW y \in Seq(S), x # <<>>, x \o y \in Seq(S)
  PROVE  Behind(x \o y, x, y)
<1>10. PICK s \in Seq(S) : s = x \o y  OBVIOUS
<1>1. PICK n \in Nat, l \in Nat : n = Len(x) /\ l = Len(y)  OBVIOUS
<1>2. n > 0 /\ Len(s) = n + l /\ n = Len(s) - l  BY <1>1, <1>10
<1>3. PICK a, b : a = SubSeq(s, 1, n) /\ b = SubSeq(s, n + 1, Len(s))  OBVIOUS
<1>4. \A i \in 1..n+l : s[i] \in S  BY <1>2
<1>5. a \in Seq(S) /\ Len(a) = n /\ \A i \in 1..n : a[i] = s[i]
  BY <1>2, <1>3, <1>4, SubSeqProperties
<1>6. b \in Seq(S) /\ Len(b) = l /\ \A i \in 1..l : b[i] = s[n + i]
  BY <1>2, <1>3, <1>4, SubSeqProperties
<1>7. a = x
  <2>1. DOMAIN x = 1..n  BY <1>1
  <2>2. \A i \in DOMAIN x : (x \o y)[i] = x[i]  BY ConcatFacts
  <2>3. \A i \in 1..n : s[i] = x[i]  BY <1>10, <2>1, <2>2
  <2>4. \A i \in 1..n : a[i] = x[i]  BY <1>5, <2>3
  <2>5. Len(x) = n /\ Len(a) = n /\ a \in Seq(S)  BY <1>1, <1>5
  <2> QED  BY <2>4, <2>5
<1>8. \A j \in 1..l : s[n + j] = y[j]  BY <1>1, <1>10, ConcatFacts
<1>9. b = y  BY <1>1, <1>6, <1>8
<1>11. Behind(s, x, y)  BY <1>1, <1>2, <1>3, <1>7, <1>9 DEF Behind
<1> QED  BY <1>10, <1>11

\* A concatenation has elements of S only if both of its parts have.
LEMMA PartsOfConcat ==
  ASSUME NEW R, NEW x \in Seq(R), NEW y \in Seq(R), NEW S, x \o y \in Seq(S)
  PROVE  x \in Seq(S) /\ y \in Seq(S)
<1>1. Len(x) \in Nat /\ Len(y) \in Nat /\ DOMAIN x = 1..Len(x) /\ DOMAIN y = 1..Len(y)
  OBVIOUS
<1>2. \A i \in 1..Len(x) : (x \o y)[i] = x[i] /\ i \in 1..Len(x)+Len(y)  BY ConcatProperties
<1>3. \A j \in 1..Len(y) : (x \o y)[Len(x) + j] = y[j] /\ Len(x) + j \in 1..Len(x)+Len(y)
  BY ConcatFacts, <1>1
<1>4. \A i \in 1..Len(x)+Len(y) : (x \o y)[i] \in S
  <2>1. PICK u \in Seq(S) : u = x \o y  OBVIOUS
  <2>2. Len(u) = Len(x) + Len(y)  BY <2>1, ConcatProperties
  <2> QED  BY <2>1, <2>2
<1>5. x \in [1..Len(x) -> S]  BY <1>2, <1>4
<1>6. y \in [1..Len(y) -> S]  BY <1>3, <1>4
<1> QED  BY <1>1, <1>5, <1>6, SeqDef

\* The name that a message is dispatched under.
NameOf(m) == IF Whole(m) THEN m[1][1] ELSE 0

LEMMA NamesConcat ==
  ASSUME NEW R, NEW x \in Seq(R), NEW y \in Seq(R)
  PROVE  /\ Names(x \o y) = Names(x) \o Names(y)
         /\ \E S : Names(x) \in Seq(S) /\ Names(y) \in Seq(S)
<1>1. PICK f : f = [m \in R |-> NameOf(m)]  OBVIOUS
<1>2. PICK S : S = {f[m] : m \in R}  OBVIOUS
<1>3. f \in [R -> S]  BY <1>1, <1>2
<1>4. ASSUME NEW s \in Seq(R) PROVE Names(s) = [j \in 1..Len(s) |-> f[s[j]]]
  BY <1>1 DEF Names, NameOf
<1>5. PICK g, h, u : /\ g = [j \in 1..Len(x) |-> f[x[j]]] /\ h = [j \in 1..Len(y) |-> f[y[j]]]
                     /\ u = [j \in 1..Len(x \o y) |-> f[(x \o y)[j]]]
  OBVIOUS
<1>6. g \in Seq(S) /\ h \in Seq(S) /\ Len(g) = Len(x) /\ Len(h) = Len(y)
  BY <1>3, <1>5
<1>7. u = g \o h  BY <1>3, <1>5, <1>6
<1>8. Names(x) = g /\ Names(y) = h /\ Names(x \o y) = u
  BY <1>4, <1>5, ConcatProperties
<1> QED  BY <1>6, <1>7, <1>8

\* A message whose parts are all there, in order.
LEMMA NamesOfRow ==
  ASSUME NEW R, NEW k, NEW N \in Nat \ {0}, Row(k, 0, N) \in R, NEW x \in Seq(R)
  PROVE  Names(Append(x, Row(k, 0, N))) = Append(Names(x), k)
<1>1. PICK r \in R : r = Row(k, 0, N)  OBVIOUS
<1>2. r = [j \in 1..N |-> <<k, 0 + j>>]  BY <1>1 DEF Row
<1>3. DOMAIN r = 1..N /\ \A j \in 1..N : r[j] = <<k, j>>  BY <1>2
<1>4. r[1][1] = k  BY <1>3
<1>5. Whole(r)  BY <1>3, <1>4 DEF Whole
<1>6. Names(<<r>>) = <<k>>  BY <1>4, <1>5 DEF Names
<1>7. <<r>> \in Seq(R) /\ Append(x, r) = x \o <<r>>  OBVIOUS
<1>8. Names(Append(x, r)) = Names(x) \o <<k>>  BY <1>6, <1>7, NamesConcat
<1>9. PICK S : Names(x) \in Seq(S)  BY NamesConcat
<1>10. Names(x) \o <<k>> = Append(Names(x), k)
  <2>1. PICK T : S \subseteq T /\ k \in T
    <3>1. S \subseteq S \cup {k} /\ k \in S \cup {k}  OBVIOUS
    <3> QED  BY <3>1
  <2>2. Names(x) \in Seq(T)  BY <1>9, <2>1, StillPackets
  <2> QED  BY <2>1, <2>2, AppendIsConcat
<1> QED  BY <1>1, <1>8, <1>10

LEMMA SentBehind ==
  ASSUME NEW S, NEW line \in Seq(S), NEW t \in Seq(S), t # <<>>
  PROVE  IsStrictPrefix(line, line \o t)
<1>1. PICK new \in Seq(S) : new = line \o t  BY ConcatTypes
<1>2. /\ Len(line) \in Nat /\ Len(t) \in Nat \ {0} /\ Len(new) = Len(line) + Len(t)
      /\ \A i \in 1..Len(line) : new[i] = line[i]
  BY <1>1
<1>3. Len(line) <= Len(new) /\ new # line  BY <1>2
<1>4. SubSeq(line, 1, Len(line)) = SubSeq(new, 1, Len(line))
  <2>1. \A i \in 1..Len(line) : line[i] \in S /\ new[i] \in S  BY <1>2
  <2>2. PICK a, b : a = SubSeq(line, 1, Len(line)) /\ b = SubSeq(new, 1, Len(line))  OBVIOUS
  <2>3. a \in Seq(S) /\ b \in Seq(S) /\ Len(a) = Len(line) /\ Len(b) = Len(line)
        /\ \A i \in 1..Len(line) : a[i] = line[i] /\ b[i] = new[i]
    BY <1>2, <2>1, <2>2
  <2>4. a = b  BY <1>2, <2>3
  <2> QED  BY <2>2, <2>4
<1> QED  BY <1>1, <1>3, <1>4 DEF IsStrictPrefix, IsPrefix

\* Some of the old messages are left, in their order.
Thinned(old, new) ==
    /\ Len(new) < Len(old)
    /\ \E at \in [DOMAIN new -> DOMAIN old] :
          /\ \A i \in DOMAIN new : new[i] = old[at[i]]
          /\ \A i, j \in DOMAIN new : i < j => at[i] < at[j]

LEMMA AllBehindLost ==
  ASSUME NEW S, NEW front \in Seq(S), NEW t \in Seq(S), t # <<>>
  PROVE  Thinned(front \o t, front)
<1>1. PICK old \in Seq(S) : old = front \o t  BY ConcatTypes
<1>2. /\ Len(front) \in Nat /\ Len(t) \in Nat \ {0} /\ Len(old) = Len(front) + Len(t)
      /\ DOMAIN front = 1..Len(front) /\ DOMAIN old = 1..Len(old)
      /\ \A i \in 1..Len(front) : old[i] = front[i]
  BY <1>1
<1>3. Len(front) < Len(old)  BY <1>2
<1>4. PICK at : at = [i \in DOMAIN front |-> i]  OBVIOUS
<1>5. at \in [DOMAIN front -> DOMAIN old]  BY <1>2, <1>4
<1>6. \A i \in DOMAIN front : front[i] = old[at[i]]  BY <1>2, <1>4
<1>7. \A i, j \in DOMAIN front : i < j => at[i] < at[j]  BY <1>4
<1> QED  BY <1>1, <1>3, <1>5, <1>6, <1>7 DEF Thinned

LEMMA FirstBehindLost ==
  ASSUME NEW S, NEW front \in Seq(S), NEW t \in Seq(S), t # <<>>
  PROVE  Thinned(front \o t, front \o Tail(t))
<1>1. PICK old \in Seq(S) : old = front \o t  BY ConcatTypes
<1>2. Tail(t) \in Seq(S) /\ Len(Tail(t)) = Len(t) - 1 /\ Len(t) \in Nat \ {0} /\ Len(front) \in Nat
      /\ \A j \in 1..Len(t)-1 : Tail(t)[j] = t[j+1]
  OBVIOUS
<1>3. PICK new \in Seq(S) : new = front \o Tail(t)  BY <1>2, ConcatTypes
<1>4. PICK n, f : n = Len(new) /\ f = Len(front)  OBVIOUS
<1>5. /\ n \in Nat /\ f \in Nat /\ f <= n /\ Len(old) = n + 1
      /\ DOMAIN new = 1..n /\ DOMAIN old = 1..n+1
  BY <1>1, <1>2, <1>3, <1>4, ConcatProperties
<1>6. \A i \in 1..n : i <= f => new[i] = old[i]
  BY <1>1, <1>2, <1>3, <1>4, <1>5, ConcatProperties
<1>7. \A i \in 1..n : i > f => new[i] = old[i+1]
  <2> SUFFICES ASSUME NEW i \in 1..n, i > f PROVE new[i] = old[i+1]
    OBVIOUS
  <2>1. /\ i - f \in 1..Len(t)-1 /\ (i + 1) - f = (i - f) + 1
        /\ i \in 1..Len(front)+Len(Tail(t)) /\ i + 1 \in 1..Len(front)+Len(t)
        /\ ~ (i <= f) /\ ~ (i + 1 <= f)
    BY <1>1, <1>2, <1>3, <1>4, <1>5, ConcatProperties
  <2>2. new[i] = Tail(t)[i - f]  BY <1>2, <1>3, <1>4, <2>1, ConcatProperties
  <2>3. old[i+1] = t[(i + 1) - f]  BY <1>1, <1>4, <2>1, ConcatProperties
  <2> QED  BY <1>2, <2>1, <2>2, <2>3
<1>8. PICK at : at = [i \in DOMAIN new |-> IF i <= f THEN i ELSE i + 1]  OBVIOUS
<1>9. at \in [DOMAIN new -> DOMAIN old]  BY <1>5, <1>8
<1>10. \A i \in DOMAIN new : new[i] = old[at[i]]  BY <1>5, <1>6, <1>7, <1>8
<1>11. \A i, j \in DOMAIN new : i < j => at[i] < at[j]  BY <1>5, <1>8
<1>12. Len(new) < Len(old)  BY <1>4, <1>5
<1> QED  BY <1>1, <1>3, <1>9, <1>10, <1>11, <1>12 DEF Thinned

----------------------------------------------------------------------------
\* The inductive invariant: what was written ends with the parts of pending that
\* left already, and no packet is twice in what arrived, is on its way and waits.

Part == Packets \X (1..PieceParts)
Arriving == Assemble(Sizes, buffer \o wire)

Framed ==
    /\ buffer \in Seq(Part) /\ got \in Seq(Packets) /\ Names(Arriving.messages) \in Seq(Packets)
    /\ ~closed => Arriving.rest = Row(pending, 0, offset)

Apart ==
    /\ IsInjective(got \o OnTheWay)
    /\ ~closed => ToSet(assembled) \cap ToSet(got \o OnTheWay) = {}

SInv == IInv /\ Framed /\ Apart

LEMMA WayTypes ==
  ASSUME IInv, Framed
  PROVE  /\ wire \in Seq(Part) /\ buffer \o wire \in Seq(Part) /\ Arriving \in Found(Part)
         /\ Unwritten \in Seq(Packets) /\ OnTheWay \in Seq(Packets)
         /\ got \o OnTheWay \in Seq(Packets)
<1>1. wire \in Seq(Part) /\ buffer \in Seq(Part)  BY DEF IInv, TypeOK, Framed, Part
<1>2. buffer \o wire \in Seq(Part)  BY <1>1, ConcatTypes
<1>3. Arriving \in Found(Part)  BY <1>2, AssembleFacts DEF Arriving
<1>4. Unwritten \in Seq(Packets)
  <2>1. queue \in Seq(Packets) /\ pending \in Packets \cup {0} /\ <<>> \in Seq(Packets)
    BY DEF IInv, TypeOK
  <2>2. queue # <<>> => Tail(queue) \in Seq(Packets)  BY <2>1
  <2>3. pending # 0 => <<pending>> \in Seq(Packets)  BY <2>1
  <2> QED  BY <2>1, <2>2, <2>3, ConcatTypes DEF Unwritten
<1>5. OnTheWay = Names(Arriving.messages) \o Unwritten  BY DEF OnTheWay, Arriving
<1>6. OnTheWay \in Seq(Packets)  BY <1>4, <1>5, ConcatTypes DEF Framed
<1>7. got \o OnTheWay \in Seq(Packets)  BY <1>6, ConcatTypes DEF Framed
<1> QED  BY <1>1, <1>2, <1>3, <1>4, <1>6, <1>7

\* The stream changes by one of the abstract steps, or not at all.
Flows == \/ Stream!Next
         \/ UNCHANGED <<OnTheWay, got>>

LEMMA FlowsFacts ==
  /\ IsStrictPrefix(OnTheWay, OnTheWay') /\ IsInjective(got \o OnTheWay') /\ got' = got => Flows
  /\ Thinned(OnTheWay, OnTheWay') /\ got' = got => Flows
<1>1. ASSUME IsStrictPrefix(OnTheWay, OnTheWay'), IsInjective(got \o OnTheWay'), got' = got
      PROVE  Flows
  <2>1. Stream!Send(OnTheWay, OnTheWay')
    BY <1>1 DEF Stream!Send, Stream!IsStrictPrefix, Stream!IsPrefix, Stream!IsInjective,
                IsStrictPrefix, IsPrefix, IsInjective
  <2> QED  BY <2>1 DEF Flows, Stream!Next
<1>2. ASSUME Thinned(OnTheWay, OnTheWay'), got' = got
      PROVE  Flows
  <2>1. Stream!Lose(OnTheWay, OnTheWay')  BY <1>2 DEF Stream!Lose, Thinned
  <2> QED  BY <2>1 DEF Flows, Stream!Next
<1> QED  BY <1>1, <1>2

\* The steps that leave the socket, the packets and the data alone.
LEMMA QuietStep ==
  ASSUME SInv,
         UNCHANGED <<made, queue, pending, offset, closed, wire, buffer, got>>,
         ToSet(assembled') \subseteq ToSet(assembled)
  PROVE  Framed' /\ Apart' /\ Flows
<1>1. Sizes' = Sizes /\ Packets' = Packets /\ Part' = Part  BY DEF Sizes, Packets, Parts, Part
<1>2. Arriving' = Arriving  BY <1>1 DEF Arriving
<1>3. Unwritten' = Unwritten  BY DEF Unwritten
<1>4. OnTheWay' = OnTheWay  BY <1>2, <1>3 DEF OnTheWay, Arriving
<1>5. Framed'  BY <1>1, <1>2 DEF SInv, Framed
<1>6. Apart'  BY <1>4 DEF SInv, Apart
<1> QED  BY <1>4, <1>5, <1>6 DEF Flows

\* A new packet changes nothing in what is known of the others.
LEMMA PacketMade ==
  ASSUME SInv, NEW x \in Blocks \cup {"choke"}, made' = Append(made, x),
         UNCHANGED <<pending, offset, closed, wire, buffer, got>>
  PROVE  Arriving' = Arriving /\ Framed' /\ Packets \subseteq Packets'
<1>1. /\ Packets' = Packets \cup {Len(made')} /\ \A k \in Packets : made'[k] = made[k]
  BY MadeGrows DEF SInv, IInv
<1>2. Part \subseteq Part'  BY <1>1 DEF Part
<1>3. \A p \in Part : Sizes[p[1]] = Sizes'[p[1]]
  <2>1. \A k \in Packets : k \in Packets' /\ Parts(k) = Parts(k)'  BY <1>1 DEF Parts
  <2>2. \A k \in Packets : Sizes[k] = Sizes'[k]
    <3> SUFFICES ASSUME NEW k \in Packets PROVE Sizes[k] = Sizes'[k]
      OBVIOUS
    <3>1. Sizes[k] = Parts(k)  BY DEF Sizes
    <3>2. Sizes'[k] = Parts(k)'  BY <2>1 DEF Sizes
    <3> QED  BY <2>1, <3>1, <3>2
  <2> QED  BY <2>2 DEF Part
<1>4. buffer \o wire \in Seq(Part)  BY WayTypes DEF SInv
<1>5. Arriving' = Arriving
  <2>1. Assemble(Sizes', buffer \o wire) = Assemble(Sizes, buffer \o wire)
    <3>1. PICK S, size, other, data : /\ S = Part /\ size = Sizes /\ other = Sizes'
                                      /\ data = buffer \o wire
      OBVIOUS
    <3>2. data \in Seq(S) /\ \A p \in S : size[p[1]] = other[p[1]]  BY <1>3, <1>4, <3>1
    <3>3. Assemble(size, data) = Assemble(other, data)  BY <3>2, AssembleSame
    <3> QED  BY <3>1, <3>3
  <2> QED  BY <2>1 DEF Arriving
<1>6. buffer' \in Seq(Part')  BY <1>2, StillPackets DEF SInv, Framed
<1>7. got' \in Seq(Packets') /\ Names(Arriving'.messages) \in Seq(Packets')
  BY <1>1, <1>5, StillPackets DEF SInv, Framed
<1>8. Framed'  BY <1>5, <1>6, <1>7 DEF SInv, Framed
<1> QED  BY <1>1, <1>5, <1>8

LEMMA ReadSuccessFlows ==
  ASSUME SInv, ReadSuccess, UNCHANGED streamVars
  PROVE  Framed' /\ Apart' /\ Flows
<1>1. /\ reads # <<>> /\ made' = Append(made, Head(reads))
      /\ assembled' = Append(assembled, Len(made'))
      /\ UNCHANGED <<queue, pending, offset, closed, wire, buffer, got>>
  BY DEF ReadSuccess, socketVars, streamVars
<1>2. Head(reads) \in Blocks \cup {"choke"}  BY <1>1 DEF SInv, IInv, TypeOK
<1>3. Arriving' = Arriving /\ Framed' /\ Packets \subseteq Packets'  BY <1>1, <1>2, PacketMade
<1>4. Unwritten' = Unwritten  BY <1>1 DEF Unwritten
<1>5. OnTheWay' = OnTheWay  BY <1>3, <1>4 DEF OnTheWay, Arriving
<1>6. Len(made') \notin Packets /\ Len(made') \in Packets'
  BY <1>1, <1>2, MadeGrows DEF SInv, IInv
<1>7. ToSet(assembled') = ToSet(assembled) \cup {Len(made')}
  <2>1. assembled \in Seq(Packets')  BY <1>3, PacketTypes, StillPackets DEF SInv, IInv
  <2>2. PICK S, s, x : S = Packets' /\ s = assembled /\ x = Len(made')  OBVIOUS
  <2>3. s \in Seq(S) /\ x \in S  BY <1>6, <2>1, <2>2
  <2>4. PICK a : a = Append(s, x)  OBVIOUS
  <2>5. a \in Seq(S) /\ Longer(a, s, x)  BY <2>3, <2>4, AppendIsLonger
  <2>6. ToSet(a) = ToSet(s) \cup {x}  BY <2>3, <2>5, LongerFacts
  <2> QED  BY <1>1, <2>2, <2>4, <2>6
<1>8. ToSet(got \o OnTheWay) \subseteq Packets  BY WayTypes, SeqFacts DEF SInv
<1>9. Apart'  BY <1>1, <1>5, <1>6, <1>7, <1>8 DEF SInv, Apart
<1> QED  BY <1>1, <1>3, <1>5, <1>9 DEF Flows

\* New messages come behind the others.
LEMMA MoreFlows ==
  ASSUME SInv, NEW S, OnTheWay \in Seq(S), got \in Seq(S), NEW t \in Seq(S),
         OnTheWay' = OnTheWay \o t, got' = got,
         IsInjective(t), ToSet(t) \cap ToSet(got \o OnTheWay) = {}
  PROVE  IsInjective((got \o OnTheWay)') /\ Flows
         /\ ToSet((got \o OnTheWay)') = ToSet(got \o OnTheWay) \cup ToSet(t)
<1>1. (got \o OnTheWay)' = (got \o OnTheWay) \o t
  <2>1. PICK g \in Seq(S), l \in Seq(S) : g = got /\ l = OnTheWay  OBVIOUS
  <2>2. Joins(g, l, t)  BY Associative
  <2> QED  BY <2>1, <2>2 DEF Joins
<1>2. PICK u \in Seq(S) : u = got \o OnTheWay  BY ConcatTypes
<1>3. IsInjective(u \o t) /\ ToSet(u \o t) = ToSet(u) \cup ToSet(t)
  <2>1. IsInjective(u) /\ IsInjective(t) /\ ToSet(u) \cap ToSet(t) = {}
    BY <1>2 DEF SInv, Apart
  <2> QED  BY <2>1, ConcatFacts
<1>4. /\ IsInjective((got \o OnTheWay)')
      /\ ToSet((got \o OnTheWay)') = ToSet(got \o OnTheWay) \cup ToSet(t)
  BY <1>1, <1>2, <1>3
<1>5. CASE t = <<>>
  <2>1. OnTheWay' = OnTheWay  BY <1>5, ConcatTypes
  <2> QED  BY <1>4, <2>1 DEF Flows
<1>6. CASE t # <<>>
  <2>1. IsStrictPrefix(OnTheWay, OnTheWay')  BY <1>6, SentBehind
  <2>2. IsInjective(got \o OnTheWay')  BY <1>4
  <2>3. Flows  BY <2>1, <2>2, FlowsFacts
  <2> QED  BY <1>4, <2>3
<1> QED  BY <1>5, <1>6

\* Packets behind the queue are packets behind the stream, but for the first of them if
\* it comes in front and pendingData_ will be sent for it.
LEMMA QueueGrows ==
  ASSUME NEW S, queue \in Seq(S), pending \in S \cup {0}, NEW t \in Seq(S), t # <<>>,
         queue' = queue \o t, UNCHANGED <<pending, closed>>, ~closed
  PROVE  Unwritten' = Unwritten \o t \/ Unwritten' = Unwritten \o Tail(t)
<1>1. queue' # <<>> /\ Tail(t) \in Seq(S)  OBVIOUS
<1>2. CASE pending = 0  BY <1>2 DEF Unwritten
<1>3. CASE pending # 0 /\ queue = <<>>
  <2>1. Unwritten = <<pending>> \o <<>> /\ Unwritten' = <<pending>> \o Tail(t)
    <3>1. queue' = t  BY <1>3
    <3> QED  BY <1>1, <1>3, <3>1 DEF Unwritten
  <2>2. <<pending>> \in Seq(S) /\ <<>> \in Seq(S)  BY <1>3
  <2>3. <<pending>> \o <<>> = <<pending>>  BY <2>2, ConcatTypes
  <2> QED  BY <2>1, <2>3
<1>4. CASE pending # 0 /\ queue # <<>>
  <2>1. Unwritten = <<pending>> \o Tail(queue) /\ Unwritten' = <<pending>> \o Tail(queue')
    BY <1>1, <1>4 DEF Unwritten
  <2>2. Tail(queue') = Tail(queue) \o t /\ Tail(queue) \in Seq(S)  BY <1>4, HeadAndTail
  <2>3. <<pending>> \in Seq(S)  BY <1>4
  <2>4. PICK x \in Seq(S), y \in Seq(S) : x = <<pending>> /\ y = Tail(queue)  BY <2>2, <2>3
  <2>5. Joins(x, y, t)  BY Associative
  <2> QED  BY <2>1, <2>2, <2>4, <2>5 DEF Joins
<1> QED  BY <1>2, <1>3, <1>4

LEMMA ToggleChokeFlows ==
  ASSUME SInv, ToggleChoke, UNCHANGED streamVars
  PROVE  Framed' /\ Apart' /\ Flows
<1>1. /\ made' = Append(made, "choke") /\ queue' = Append(queue, Len(made'))
      /\ UNCHANGED <<assembled, pending, offset, closed, wire, buffer, got>>
  BY DEF ToggleChoke, taskVars, streamVars
<1>2. "choke" \in Blocks \cup {"choke"}  OBVIOUS
<1>3. Arriving' = Arriving /\ Framed' /\ Packets \subseteq Packets'  BY <1>1, <1>2, PacketMade
<1>4. PICK x : x = Len(made')  OBVIOUS
<1>5. x \notin Packets /\ x \in Packets'
  BY <1>1, <1>2, <1>4, MadeGrows DEF SInv, IInv
<1>6. PICK S : S = Packets'  OBVIOUS
<1>7. /\ queue \in Seq(S) /\ pending \in S \cup {0} /\ Unwritten \in Seq(S) /\ OnTheWay \in Seq(S)
      /\ got \in Seq(S) /\ Names(Arriving.messages) \in Seq(S)
  <2>1. /\ queue \in Seq(Packets) /\ pending \in Packets \cup {0} /\ Unwritten \in Seq(Packets)
        /\ OnTheWay \in Seq(Packets) /\ got \in Seq(Packets)
        /\ Names(Arriving.messages) \in Seq(Packets)
    BY WayTypes DEF SInv, IInv, TypeOK, Framed
  <2> QED  BY <1>3, <1>6, <2>1, StillPackets
<1>8. PICK t \in {<<>>, <<x>>} : Unwritten' = Unwritten \o t
  <2>1. CASE closed
    <3>1. Unwritten = <<>> /\ Unwritten' = <<>>  BY <1>1, <2>1 DEF Unwritten
    <3> QED  BY <3>1
  <2>2. CASE ~closed
    <3>1. queue' = queue \o <<x>>
      <4>1. PICK q \in Seq(S) : q = queue  BY <1>7
      <4>2. Append(q, x) = q \o <<x>>  BY <1>5, <1>6, <4>1, AppendIsConcat
      <4> QED  BY <1>1, <1>4, <4>1, <4>2
    <3>2. <<x>> \in Seq(S) /\ <<x>> # <<>> /\ Tail(<<x>>) = <<>>  BY <1>5, <1>6
    <3>3. Unwritten' = Unwritten \o <<x>> \/ Unwritten' = Unwritten \o Tail(<<x>>)
      BY <1>1, <1>7, <2>2, <3>1, <3>2, QueueGrows
    <3> QED  BY <3>2, <3>3
  <2> QED  BY <2>1, <2>2
<1>9. t \in Seq(S) /\ IsInjective(t) /\ ToSet(t) \subseteq {x}
  <2>1. CASE t = <<>>  BY <2>1 DEF IsInjective, ToSet
  <2>2. CASE t = <<x>>
    <3>1. t \in Seq(S) /\ DOMAIN t = {1} /\ t[1] = x  BY <1>5, <1>6, <2>2
    <3> QED  BY <3>1 DEF IsInjective, ToSet
  <2> QED  BY <1>8, <2>1, <2>2
<1>10. OnTheWay' = OnTheWay \o t
  <2>1. OnTheWay' = Names(Arriving.messages) \o (Unwritten \o t)
    BY <1>3, <1>8 DEF OnTheWay, Arriving
  <2>2. OnTheWay = Names(Arriving.messages) \o Unwritten  BY DEF OnTheWay, Arriving
  <2>3. PICK N \in Seq(S), U \in Seq(S) : N = Names(Arriving.messages) /\ U = Unwritten  BY <1>7
  <2>4. Joins(N, U, t)  BY <1>9, Associative
  <2> QED  BY <2>1, <2>2, <2>3, <2>4 DEF Joins
<1>11. ToSet(got \o OnTheWay) \subseteq Packets  BY WayTypes, SeqFacts DEF SInv
<1>12. ToSet(t) \cap ToSet(got \o OnTheWay) = {}  BY <1>5, <1>9, <1>11
<1>13. /\ IsInjective((got \o OnTheWay)') /\ Flows
       /\ ToSet((got \o OnTheWay)') = ToSet(got \o OnTheWay) \cup ToSet(t)
  BY <1>1, <1>7, <1>9, <1>10, <1>12, MoreFlows
<1>14. ToSet(assembled) \subseteq Packets  BY PacketTypes DEF SInv, IInv
<1>15. Apart'
  <2>1. ~closed' => ToSet(assembled') \cap ToSet((got \o OnTheWay)') = {}
    BY <1>1, <1>5, <1>9, <1>13, <1>14 DEF SInv, Apart
  <2> QED  BY <1>13, <2>1 DEF Apart
<1> QED  BY <1>3, <1>13, <1>15

LEMMA UploadBlocksFlows ==
  ASSUME SInv, UploadBlocks, UNCHANGED streamVars
  PROVE  Framed' /\ Apart' /\ Flows
<1>1. /\ ~closed /\ assembled # <<>> /\ queue' = queue \o assembled /\ assembled' = <<>>
      /\ UNCHANGED <<made, pending, offset, closed, wire, buffer, got>>
  BY DEF UploadBlocks, packetVars, streamVars
<1>2. Sizes' = Sizes /\ Packets' = Packets /\ Part' = Part
  BY <1>1 DEF Sizes, Packets, Parts, Part
<1>3. Arriving' = Arriving  BY <1>1, <1>2 DEF Arriving
<1>4. Framed'  BY <1>1, <1>2, <1>3 DEF SInv, Framed
<1>5. PICK S : S = Packets  OBVIOUS
<1>6. /\ queue \in Seq(S) /\ pending \in S \cup {0} /\ Unwritten \in Seq(S) /\ OnTheWay \in Seq(S)
      /\ got \in Seq(S) /\ Names(Arriving.messages) \in Seq(S) /\ assembled \in Seq(S)
  BY <1>5, WayTypes DEF SInv, IInv, TypeOK, Framed
<1>7. IsInjective(assembled)  BY <1>1 DEF SInv, IInv, Queues
<1>8. PICK t \in Seq(S) : /\ Unwritten' = Unwritten \o t
                          /\ ToSet(t) \subseteq ToSet(assembled) /\ IsInjective(t)
  <2>1. Unwritten' = Unwritten \o assembled \/ Unwritten' = Unwritten \o Tail(assembled)
    BY <1>1, <1>6, QueueGrows
  <2>2. /\ Tail(assembled) \in Seq(S) /\ ToSet(Tail(assembled)) \subseteq ToSet(assembled)
        /\ IsInjective(Tail(assembled))
    BY <1>1, <1>6, <1>7, TailFacts
  <2> QED  BY <1>6, <1>7, <2>1, <2>2
<1>9. OnTheWay' = OnTheWay \o t
  <2>1. OnTheWay' = Names(Arriving.messages) \o (Unwritten \o t)
    BY <1>3, <1>8 DEF OnTheWay, Arriving
  <2>2. OnTheWay = Names(Arriving.messages) \o Unwritten  BY DEF OnTheWay, Arriving
  <2>3. PICK N \in Seq(S), U \in Seq(S) : N = Names(Arriving.messages) /\ U = Unwritten  BY <1>6
  <2>4. Joins(N, U, t)  BY Associative
  <2> QED  BY <2>1, <2>2, <2>3, <2>4 DEF Joins
<1>10. ToSet(t) \cap ToSet(got \o OnTheWay) = {}  BY <1>1, <1>8 DEF SInv, Apart
<1>11. IsInjective((got \o OnTheWay)') /\ Flows
  BY <1>1, <1>6, <1>8, <1>9, <1>10, MoreFlows
<1>12. Apart'
  <2>1. ToSet(assembled') = {}  BY <1>1 DEF ToSet
  <2> QED  BY <1>11, <2>1 DEF Apart
<1> QED  BY <1>4, <1>11, <1>12

----------------------------------------------------------------------------
\* Writes.

\* The queue as the stream sees it, while there is something to write.
LEMMA WayOfQueue ==
  ASSUME SInv, ~closed, queue # <<>>
  PROVE  /\ Data \in Packets /\ Tail(queue) \in Seq(Packets)
         /\ Append(Names(Arriving.messages), Data) \in Seq(Packets)
         /\ OnTheWay = Append(Names(Arriving.messages), Data) \o Tail(queue)
<1>1. /\ queue \in Seq(Packets) /\ Data \in Packets
      /\ Names(Arriving.messages) \in Seq(Packets)
  BY DataFacts DEF SInv, IInv, TypeOK, Framed
<1>2. Tail(queue) \in Seq(Packets)  BY <1>1
<1>3. Unwritten = <<Data>> \o Tail(queue)
  <2>1. CASE pending = 0  BY <1>1, <2>1, HeadAndTail DEF Unwritten, Data
  <2>2. CASE pending # 0  BY <2>2 DEF Unwritten, Data
  <2> QED  BY <2>1, <2>2
<1>4. OnTheWay = Names(Arriving.messages) \o Unwritten  BY DEF OnTheWay, Arriving
<1>5. PICK N \in Seq(Packets), x \in Packets, t \in Seq(Packets) :
         N = Names(Arriving.messages) /\ x = Data /\ t = Tail(queue)
  BY <1>1, <1>2
<1>6. Glued(N, x, t)  BY AppendGlues
<1>7. Append(N, x) \in Seq(Packets)  OBVIOUS
<1> QED  BY <1>3, <1>4, <1>5, <1>6, <1>7 DEF Glued

\* n parts more are on the wire, and what the other end makes of them.
LEMMA TransmitArrives ==
  ASSUME SInv, ~closed, queue # <<>>, NEW n \in Nat, n <= Remain, Transmit(n),
         UNCHANGED <<made, buffer>>
  PROVE  /\ Sizes' = Sizes /\ Packets' = Packets /\ Part' = Part
         /\ n < Remain => /\ Arriving'.messages = Arriving.messages
                          /\ Arriving'.rest = Row(Data, 0, offset + n)
         /\ n = Remain => /\ Names(Arriving'.messages) = Append(Names(Arriving.messages), Data)
                          /\ Arriving'.rest = <<>>
<1>1. Sizes' = Sizes /\ Packets' = Packets /\ Part' = Part  BY DEF Sizes, Packets, Parts, Part
<1>2. PICK S : S = Part  OBVIOUS
<1>3. PICK k \in Packets, N \in Nat, o \in Nat :
         k = Data /\ N = Parts(Data) /\ o = offset /\ N \in 1..PieceParts /\ o < N
  <2>1. Data \in Packets /\ Parts(Data) \in 1..PieceParts /\ offset \in Nat /\ offset < Parts(Data)
    BY DataFacts DEF SInv
  <2>2. Parts(Data) \in Nat  BY <2>1, PartsAssumption
  <2> QED  BY <2>1, <2>2
<1>4. /\ N \in Nat \ {0} /\ o + n <= N
      /\ (n < Remain <=> o + n < N) /\ (n = Remain <=> o + n = N)
      /\ n < Remain \/ n = Remain
  <2>1. Remain = N - o  BY <1>3 DEF Remain
  <2> HIDE DEF Remain
  <2> QED  BY <1>3, <2>1
<1>5. PICK data \in Seq(S) : data = buffer \o wire /\ wire \in Seq(S) /\ buffer \in Seq(S)
  BY <1>2, WayTypes DEF SInv, Framed
<1>6. Typed(S, k, N)
  <2>1. \A j \in 1..N : j \in 1..PieceParts  BY <1>3, PartsAssumption
  <2> QED  BY <1>2, <2>1 DEF Part, Typed
<1>7. Begun(S, Sizes, data, k, o, N)
  <2>1. Sizes[k] = N  BY <1>3 DEF Sizes
  <2>2. Assemble(Sizes, data).rest = Row(pending, 0, offset)
    BY <1>5 DEF SInv, Framed, Arriving
  <2>3. Row(pending, 0, offset) = Row(k, 0, o)
    <3>1. CASE pending = 0
      <4>1. offset = 0  BY <3>1 DEF SInv, IInv, TypeOK, Control
      <4> QED  BY <1>3, <4>1 DEF Row
    <3>2. CASE pending # 0  BY <1>3, <3>2 DEF Data
    <3> QED  BY <3>1, <3>2
  <2> QED  BY <1>6, <2>1, <2>2, <2>3 DEF Begun
<1>8. PICK r \in Seq(S) : r = Row(k, o, n)
  <2>1. Row(k, o, n) \in Seq(S)  BY <1>4, <1>6, RowIsSeq
  <2> QED  BY <2>1
<1>9. Arriving' = Assemble(Sizes, data \o Row(k, o, n))
  <2>1. wire' = wire \o r  BY <1>3, <1>8 DEF Transmit, Row
  <2>2. PICK b \in Seq(S), w \in Seq(S) : b = buffer /\ w = wire  BY <1>5
  <2>3. Joins(b, w, r)  BY Associative
  <2>4. (buffer \o wire)' = data \o r  BY <1>5, <2>1, <2>2, <2>3 DEF Joins
  <2> QED  BY <1>1, <1>8, <2>4 DEF Arriving
<1>10. Arriving = Assemble(Sizes, data)  BY <1>5 DEF Arriving
<1>11. /\ o + n < N => /\ Arriving'.messages = Arriving.messages
                       /\ Arriving'.rest = Row(k, 0, o + n)
       /\ o + n = N => /\ Arriving'.messages = Append(Arriving.messages, Row(k, 0, N))
                       /\ Arriving'.rest = <<>>
  <2>1. o + n <= N /\ o < N  BY <1>3, <1>4
  <2>2. PICK size : size = Sizes  OBVIOUS
  <2>3. Begun(S, size, data, k, o, N)  BY <1>7, <2>2
  <2>4. o + n < N => Continued(size, data, data \o Row(k, o, n), k, o + n)
    BY <2>3, AssembleSome
  <2>5. o + n = N => Completed(size, data, data \o Row(k, o, n), k, N)
    BY <2>1, <2>3, AssembleLast
  <2> QED  BY <1>9, <1>10, <2>2, <2>4, <2>5 DEF Continued, Completed
<1>12. CASE n < Remain
  <2>1. /\ Arriving'.messages = Arriving.messages /\ Arriving'.rest = Row(k, 0, o + n)
        /\ n # Remain
    BY <1>4, <1>11, <1>12
  <2> QED  BY <1>1, <1>3, <2>1
<1>13. CASE n = Remain
  <2>1. Arriving'.messages = Append(Arriving.messages, Row(k, 0, N)) /\ Arriving'.rest = <<>>
    BY <1>4, <1>11, <1>13
  <2>2. Arriving.messages \in Seq(Seq(S))  BY <1>2, WayTypes DEF SInv, Found
  <2>3. Row(k, 0, N) \in Seq(S)
    <3>1. PICK z \in Nat : z = 0 /\ z + N <= N  OBVIOUS
    <3>2. Row(k, z, N) \in Seq(S)  BY <1>6, <3>1, RowIsSeq
    <3> QED  BY <3>1, <3>2
  <2>4. Names(Append(Arriving.messages, Row(k, 0, N))) = Append(Names(Arriving.messages), k)
    BY <1>4, <2>2, <2>3, NamesOfRow
  <2>5. ~ (n < Remain)  BY <1>4, <1>13
  <2> QED  BY <1>1, <1>3, <2>1, <2>4, <2>5
<1> QED  BY <1>4, <1>12, <1>13

LEMMA WriteWholeFlows ==
  ASSUME SInv, WriteWhole, UNCHANGED streamVars
  PROVE  Framed' /\ Apart' /\ Flows
<1>1. /\ queue # <<>> /\ Transmit(Remain) /\ queue' = Tail(queue)
      /\ pending' = 0 /\ offset' = 0 /\ phase = "writing"
      /\ UNCHANGED <<made, assembled, closed, buffer, got>>
  BY DEF WriteWhole, Writing, streamVars
<1>2. ~closed  BY <1>1 DEF SInv, IInv, Control
<1>3. Remain \in Nat /\ Remain <= Remain
  <2>1. Remain \in 1..PieceParts  BY <1>1, DataFacts DEF SInv
  <2> HIDE DEF Remain
  <2> QED  BY <2>1, PartsAssumption
<1>4. /\ Sizes' = Sizes /\ Packets' = Packets /\ Part' = Part
      /\ Names(Arriving'.messages) = Append(Names(Arriving.messages), Data)
      /\ Arriving'.rest = <<>>
  <2> HIDE DEF Remain
  <2> QED  BY <1>1, <1>2, <1>3, TransmitArrives
<1>5. /\ Append(Names(Arriving.messages), Data) \in Seq(Packets)
      /\ OnTheWay = Append(Names(Arriving.messages), Data) \o Tail(queue)
  BY <1>1, <1>2, WayOfQueue
<1>6. Unwritten' = Tail(queue)  BY <1>1, <1>2 DEF Unwritten
<1>7. OnTheWay' = OnTheWay  BY <1>4, <1>5, <1>6 DEF OnTheWay, Arriving
<1>8. Framed'
  <2>1. Arriving'.rest = Row(pending', 0, offset')  BY <1>1, <1>4 DEF Row
  <2> QED  BY <1>1, <1>4, <1>5, <2>1 DEF SInv, Framed
<1>9. Apart'  BY <1>1, <1>7 DEF SInv, Apart
<1> QED  BY <1>1, <1>7, <1>8, <1>9 DEF Flows

LEMMA WritePartFlows ==
  ASSUME SInv, NEW n \in 0..PieceParts, WritePart(n), UNCHANGED streamVars
  PROVE  Framed' /\ Apart' /\ Flows
<1>1. /\ queue # <<>> /\ Transmit(n) /\ n < Remain /\ queue' = queue
      /\ pending' = Data /\ offset' = offset + n /\ phase = "writing"
      /\ UNCHANGED <<made, assembled, closed, buffer, got>>
  BY DEF WritePart, Writing, taskVars, packetVars, streamVars
<1>2. ~closed  BY <1>1 DEF SInv, IInv, Control
<1>3. n \in Nat /\ n <= Remain
  <2>1. Remain \in 1..PieceParts  BY <1>1, DataFacts DEF SInv
  <2> HIDE DEF Remain
  <2> QED  BY <1>1, <2>1, PartsAssumption
<1>4. /\ Sizes' = Sizes /\ Packets' = Packets /\ Part' = Part
      /\ Arriving'.messages = Arriving.messages
      /\ Arriving'.rest = Row(Data, 0, offset + n)
  BY <1>1, <1>2, <1>3, TransmitArrives
<1>5. Data \in Packets /\ OnTheWay = Append(Names(Arriving.messages), Data) \o Tail(queue)
  BY <1>1, <1>2, WayOfQueue
<1>6. OnTheWay' = OnTheWay
  <2>1. Data # 0  BY <1>5 DEF Packets
  <2>2. Unwritten' = <<Data>> \o Tail(queue)  BY <1>1, <1>2, <2>1 DEF Unwritten
  <2>3. OnTheWay' = Names(Arriving.messages) \o (<<Data>> \o Tail(queue))
    BY <1>4, <2>2 DEF OnTheWay, Arriving
  <2>4. PICK N \in Seq(Packets), x \in Packets, t \in Seq(Packets) :
           N = Names(Arriving.messages) /\ x = Data /\ t = Tail(queue)
    BY <1>1, <1>2, WayOfQueue DEF SInv, Framed
  <2>5. Glued(N, x, t)  BY AppendGlues
  <2> QED  BY <1>5, <2>3, <2>4, <2>5 DEF Glued
<1>7. Framed'  BY <1>1, <1>4 DEF SInv, Framed
<1>8. Apart'  BY <1>1, <1>6 DEF SInv, Apart
<1> QED  BY <1>1, <1>6, <1>7, <1>8 DEF Flows

\* What leaves the middle of a sequence leaves the others as they are.
LEMMA FirstLeaves ==
  ASSUME NEW S, NEW g \in Seq(S), NEW front \in Seq(S), NEW t \in Seq(S), t # <<>>,
         IsInjective(g \o (front \o t))
  PROVE  /\ IsInjective(g \o (front \o Tail(t)))
         /\ ToSet(g \o (front \o Tail(t))) \subseteq ToSet(g \o (front \o t))
<1>1. PICK behind \in Seq(S), u \in Seq(S) : behind = g \o front /\ u = Tail(t)
  <2>1. g \o front \in Seq(S) /\ Tail(t) \in Seq(S)  BY ConcatTypes
  <2> QED  BY <2>1
<1>2. g \o (front \o t) = behind \o t /\ g \o (front \o u) = behind \o u
  <2>1. Joins(g, front, t) /\ Joins(g, front, u)  BY Associative
  <2> QED  BY <1>1, <2>1 DEF Joins
<1>3. IsInjective(behind) /\ IsInjective(t) /\ ToSet(behind) \cap ToSet(t) = {}
  BY <1>2, ConcatFacts
<1>4. IsInjective(u) /\ ToSet(u) \subseteq ToSet(t)  BY <1>1, <1>3, TailFacts
<1>5. ToSet(behind) \cap ToSet(u) = {}  BY <1>3, <1>4
<1>6. IsInjective(behind \o u)  BY <1>3, <1>4, <1>5, ConcatFacts
<1>7. ToSet(behind \o u) \subseteq ToSet(behind \o t)
  <2>1. ToSet(behind \o t) = ToSet(behind) \cup ToSet(t)  BY ConcatFacts
  <2>2. ToSet(behind \o u) = ToSet(behind) \cup ToSet(u)  BY ConcatFacts
  <2> QED  BY <1>4, <2>1, <2>2
<1> QED  BY <1>1, <1>2, <1>6, <1>7

\* The discarded packet goes, and the data of the one before it in its place stays.
LEMMA WriteDiscardedFlows ==
  ASSUME SInv, WriteDiscarded, UNCHANGED streamVars
  PROVE  Framed' /\ Apart' /\ Flows
<1>1. /\ queue # <<>> /\ offset = 0 /\ offset' = 0 /\ queue' = Tail(queue) /\ pending' = Data
      /\ phase = "writing"
      /\ UNCHANGED <<made, assembled, closed, wire, buffer, got>>
  BY DEF WriteDiscarded, Skips, Writing, taskVars, streamVars
<1>2. ~closed  BY <1>1 DEF SInv, IInv, Control
<1>3. Sizes' = Sizes /\ Packets' = Packets /\ Part' = Part
  BY <1>1 DEF Sizes, Packets, Parts, Part
<1>4. Arriving' = Arriving  BY <1>1, <1>3 DEF Arriving
<1>5. PICK front \in Seq(Packets), t \in Seq(Packets) :
         /\ front = Append(Names(Arriving.messages), Data) /\ t = Tail(queue)
         /\ OnTheWay = front \o t
  BY <1>1, <1>2, WayOfQueue
<1>6. Data \in Packets /\ Data # 0  BY <1>1, <1>2, WayOfQueue DEF Packets
<1>7. PICK left \in Seq(Packets) : left = IF t = <<>> THEN <<>> ELSE Tail(t)
  <2>1. <<>> \in Seq(Packets)  OBVIOUS
  <2>2. t # <<>> => Tail(t) \in Seq(Packets)  OBVIOUS
  <2> QED  BY <2>1, <2>2
<1>8. OnTheWay' = front \o left
  <2>1. Unwritten' = <<Data>> \o left  BY <1>1, <1>2, <1>5, <1>6, <1>7 DEF Unwritten
  <2>2. OnTheWay' = Names(Arriving.messages) \o (<<Data>> \o left)
    BY <1>4, <2>1 DEF OnTheWay, Arriving
  <2>3. PICK N \in Seq(Packets), x \in Packets : N = Names(Arriving.messages) /\ x = Data
    BY <1>6 DEF SInv, Framed
  <2>4. Glued(N, x, left)  BY AppendGlues
  <2> QED  BY <1>5, <2>2, <2>3, <2>4 DEF Glued
<1>9. Framed'
  <2>1. Arriving'.rest = Row(pending', 0, offset')
    <3>1. Arriving.rest = Row(pending, 0, 0)  BY <1>1, <1>2 DEF SInv, Framed
    <3>2. Row(pending, 0, 0) = <<>> /\ Row(Data, 0, 0) = <<>>  BY DEF Row
    <3> QED  BY <1>1, <1>4, <3>1, <3>2
  <2> QED  BY <1>1, <1>3, <1>4, <2>1 DEF SInv, Framed
<1>10. CASE t = <<>>
  <2>1. OnTheWay' = OnTheWay  BY <1>5, <1>7, <1>8, <1>10
  <2>2. Apart'  BY <1>1, <2>1 DEF SInv, Apart
  <2> QED  BY <1>1, <1>9, <2>1, <2>2 DEF Flows
<1>11. CASE t # <<>>
  <2>1. OnTheWay' = front \o Tail(t)  BY <1>7, <1>8, <1>11
  <2>2. Thinned(front \o t, front \o Tail(t))  BY <1>11, FirstBehindLost
  <2>3. Flows  BY <1>1, <1>5, <2>1, <2>2, FlowsFacts
  <2>4. Apart'
    <3>1. PICK g \in Seq(Packets) : g = got  BY DEF SInv, Framed
    <3>2. IsInjective(g \o (front \o t))  BY <1>5, <3>1 DEF SInv, Apart
    <3>3. /\ IsInjective(g \o (front \o Tail(t)))
          /\ ToSet(g \o (front \o Tail(t))) \subseteq ToSet(g \o (front \o t))
      BY <1>11, <3>2, FirstLeaves
    <3> QED  BY <1>1, <1>5, <2>1, <3>1, <3>3 DEF SInv, Apart
  <2> QED  BY <1>9, <2>3, <2>4
<1> QED  BY <1>10, <1>11

\* What is not written when the socket closes is lost.
LEMMA BehindIsLost ==
  ASSUME SInv, NEW front \in Seq(Packets), NEW t \in Seq(Packets), OnTheWay = front \o t,
         OnTheWay' = front, got' = got, closed'
  PROVE  Apart' /\ Flows
<1>1. PICK g \in Seq(Packets), behind \in Seq(Packets) : g = got /\ behind = g \o front
  <2>1. PICK g \in Seq(Packets) : g = got  BY DEF SInv, Framed
  <2>2. g \o front \in Seq(Packets)  BY ConcatTypes
  <2> QED  BY <2>1, <2>2
<1>2. got \o OnTheWay = behind \o t /\ (got \o OnTheWay)' = behind
  <2>1. Joins(g, front, t)  BY Associative
  <2> QED  BY <1>1, <2>1 DEF Joins
<1>3. IsInjective(behind)
  <2>1. IsInjective(behind \o t)  BY <1>2 DEF SInv, Apart
  <2> QED  BY <2>1, ConcatFacts
<1>4. Apart'  BY <1>2, <1>3 DEF Apart
<1>5. CASE t = <<>>
  <2>1. front \o <<>> = front  BY ConcatTypes
  <2>2. OnTheWay' = OnTheWay  BY <1>5, <2>1
  <2> QED  BY <1>4, <2>2 DEF Flows
<1>6. CASE t # <<>>
  <2>1. Thinned(OnTheWay, OnTheWay')  BY <1>6, AllBehindLost
  <2> QED  BY <1>4, <2>1, FlowsFacts
<1> QED  BY <1>5, <1>6

LEMMA WriteFailsFlows ==
  ASSUME SInv, NEW n \in 0..PieceParts, WriteFails(n), UNCHANGED streamVars
  PROVE  Framed' /\ Apart' /\ Flows
<1>1. /\ queue # <<>> /\ n < AllocateBandwidth(Remain) /\ Transmit(n) /\ closed'
      /\ phase = "writing" /\ UNCHANGED <<made, buffer, got>>
  BY DEF WriteFails, CloseSocket, Writing, taskVars, streamVars
<1>2. ~closed  BY <1>1 DEF SInv, IInv, Control
<1>3. n \in Nat /\ n < Remain
  <2>1. PICK r \in Nat : r = Remain
    BY <1>1, DataFacts, PartsAssumption DEF SInv
  <2>2. tokens \in Int /\ maxTokens \in Int  BY DEF SInv, IInv, TypeOK
  <2>3. AllocateBandwidth(Remain) \in {Smaller(tokens, r), 0, r}
    BY <2>1 DEF AllocateBandwidth, Allocate
  <2>4. AllocateBandwidth(Remain) <= r /\ AllocateBandwidth(Remain) \in Int
    BY <2>1, <2>2, <2>3 DEF Smaller
  <2>5. n \in Nat  BY PartsAssumption
  <2> HIDE DEF Remain
  <2> QED  BY <1>1, <2>1, <2>4, <2>5
<1>4. n <= Remain
  <2>1. Remain \in 1..PieceParts  BY <1>1, DataFacts DEF SInv
  <2> HIDE DEF Remain
  <2> QED  BY <1>3, <2>1, PartsAssumption
<1>5. /\ Sizes' = Sizes /\ Packets' = Packets /\ Part' = Part
      /\ Arriving'.messages = Arriving.messages
  BY <1>1, <1>2, <1>3, <1>4, TransmitArrives
<1>6. Framed'  BY <1>1, <1>5 DEF SInv, Framed
<1>7. PICK N \in Seq(Packets), x \in Packets, t \in Seq(Packets) :
         N = Names(Arriving.messages) /\ x = Data /\ t = Tail(queue)
  BY <1>1, <1>2, WayOfQueue DEF SInv, Framed
<1>8. PICK lost \in Seq(Packets) : lost = <<x>> \o t
  <2>1. <<x>> \in Seq(Packets)  OBVIOUS
  <2> QED  BY <2>1, ConcatTypes
<1>9. OnTheWay = N \o lost
  <2>1. Glued(N, x, t)  BY AppendGlues
  <2>2. OnTheWay = Append(Names(Arriving.messages), Data) \o Tail(queue)
    BY <1>1, <1>2, WayOfQueue
  <2> QED  BY <1>7, <1>8, <2>1, <2>2 DEF Glued
<1>10. OnTheWay' = N
  <2>1. OnTheWay' = Names(Arriving'.messages) \o <<>>  BY <1>1 DEF OnTheWay, Arriving, Unwritten
  <2>2. N \o <<>> = N  BY ConcatTypes
  <2> QED  BY <1>5, <1>7, <2>1, <2>2
<1> QED  BY <1>1, <1>6, <1>9, <1>10, BehindIsLost

LEMMA ClosesFlows ==
  ASSUME SInv, ReadCloses \/ Disconnect, UNCHANGED streamVars
  PROVE  Framed' /\ Apart' /\ Flows
<1>1. closed' /\ UNCHANGED <<made, wire, buffer, got>>
  BY DEF ReadCloses, Disconnect, CloseSocket, streamVars
<1>2. Sizes' = Sizes /\ Packets' = Packets /\ Part' = Part
  BY <1>1 DEF Sizes, Packets, Parts, Part
<1>3. Arriving' = Arriving  BY <1>1, <1>2 DEF Arriving
<1>4. Framed'  BY <1>1, <1>2, <1>3 DEF SInv, Framed
<1>5. PICK N \in Seq(Packets), lost \in Seq(Packets) :
         N = Names(Arriving.messages) /\ lost = Unwritten
  BY WayTypes DEF SInv, Framed
<1>6. OnTheWay = N \o lost  BY <1>5 DEF OnTheWay, Arriving
<1>7. OnTheWay' = N
  <2>1. OnTheWay' = Names(Arriving'.messages) \o <<>>  BY <1>1 DEF OnTheWay, Arriving, Unwritten
  <2>2. N \o <<>> = N  BY ConcatTypes
  <2> QED  BY <1>3, <1>5, <2>1, <2>2
<1> QED  BY <1>1, <1>4, <1>6, <1>7, BehindIsLost

----------------------------------------------------------------------------
\* The other end.

\* The first n parts of the wire come to the buffer: what they complete arrives, and
\* what is on its way stays.
LEMMA ReceiveFlows ==
  ASSUME SInv, NEW n \in 1..Room, Receive(n)
  PROVE  Framed' /\ Apart' /\ Flows
<1>1. /\ n <= Len(wire) /\ wire' = SubSeq(wire, n + 1, Len(wire))
      /\ UNCHANGED <<made, queue, assembled, pending, offset, closed>>
      /\ buffer' = Assemble(Sizes, buffer \o SubSeq(wire, 1, n)).rest
      /\ got' = got \o Names(Assemble(Sizes, buffer \o SubSeq(wire, 1, n)).messages)
  BY DEF Receive, Drain, taskVars, socketVars, packetVars
<1>2. Sizes' = Sizes /\ Packets' = Packets /\ Part' = Part
  BY <1>1 DEF Sizes, Packets, Parts, Part
<1>3. PICK S, size : S = Part /\ size = Sizes  OBVIOUS
<1>4. PICK buf \in Seq(S), w \in Seq(S) : buf = buffer /\ w = wire
  BY <1>3, WayTypes DEF SInv, Framed
<1>5. PICK first \in Seq(S), second \in Seq(S) :
         first = SubSeq(w, 1, n) /\ second = SubSeq(w, n + 1, Len(w)) /\ w = first \o second
  <2>1. PICK m \in Nat : m = n /\ m <= Len(w)
    <3>1. n \in Nat  BY PartsAssumption
    <3> QED  BY <1>1, <1>4, <3>1
  <2>2. /\ SubSeq(w, 1, m) \in Seq(S) /\ SubSeq(w, m + 1, Len(w)) \in Seq(S)
        /\ w = SubSeq(w, 1, m) \o SubSeq(w, m + 1, Len(w))
    BY <2>1, SplitFacts
  <2> QED  BY <2>1, <2>2
<1>6. PICK a \in Seq(S) : a = buf \o first /\ buffer \o wire = a \o second
  <2>1. PICK a \in Seq(S) : a = buf \o first  BY ConcatTypes
  <2>2. Joins(buf, first, second)  BY Associative
  <2> QED  BY <1>4, <1>5, <2>1, <2>2 DEF Joins
<1>7. PICK A \in Found(S), B \in Found(S) :
         /\ A = Assemble(size, a) /\ B = Assemble(size, A.rest \o second)
         /\ Arriving = [messages |-> A.messages \o B.messages, rest |-> B.rest]
  <2>1. PICK A \in Found(S) : A = Assemble(size, a)  BY AssembleFacts
  <2>2. A.rest \in Seq(S)  BY DEF Found
  <2>3. A.rest \o second \in Seq(S)  BY <2>2, ConcatTypes
  <2>4. PICK B \in Found(S) : B = Assemble(size, A.rest \o second)  BY <2>3, AssembleFacts
  <2>5. Assemble(size, a \o second) = [messages |-> A.messages \o B.messages, rest |-> B.rest]
    <3>1. Split(size, a, second)  BY AssembleSplit
    <3> QED  BY <2>1, <2>4, <3>1 DEF Split
  <2>6. Arriving = Assemble(size, a \o second)  BY <1>3, <1>6 DEF Arriving
  <2> QED  BY <2>1, <2>4, <2>5, <2>6
<1>8. /\ A.messages \in Seq(Seq(S)) /\ A.rest \in Seq(S)
      /\ B.messages \in Seq(Seq(S)) /\ B.rest \in Seq(S)
  BY DEF Found
<1>9. buffer' = A.rest /\ got' = got \o Names(A.messages)
  BY <1>1, <1>3, <1>4, <1>5, <1>6, <1>7
<1>10. Arriving' = B
  BY <1>1, <1>2, <1>3, <1>4, <1>5, <1>7, <1>9 DEF Arriving
<1>11. PICK M \in Seq(Packets), N \in Seq(Packets) :
          /\ M = Names(A.messages) /\ N = Names(B.messages)
          /\ Names(Arriving.messages) = M \o N
  <2>1. /\ Names(A.messages \o B.messages) = Names(A.messages) \o Names(B.messages)
        /\ \E R : Names(A.messages) \in Seq(R) /\ Names(B.messages) \in Seq(R)
    <3>1. PICK R, x, y : R = Seq(S) /\ x = A.messages /\ y = B.messages  OBVIOUS
    <3>2. x \in Seq(R) /\ y \in Seq(R)  BY <1>8, <3>1
    <3>3. Names(x \o y) = Names(x) \o Names(y)  BY <3>2, NamesConcat
    <3>4. \E T : Names(x) \in Seq(T) /\ Names(y) \in Seq(T)  BY <3>2, NamesConcat
    <3> QED  BY <3>1, <3>3, <3>4
  <2>2. Arriving.messages = A.messages \o B.messages  BY <1>7
  <2>3. Names(A.messages) \o Names(B.messages) \in Seq(Packets)
    BY <2>1, <2>2 DEF SInv, Framed
  <2>4. Names(A.messages) \in Seq(Packets) /\ Names(B.messages) \in Seq(Packets)
    BY <2>1, <2>3, PartsOfConcat
  <2> QED  BY <2>1, <2>2, <2>4
<1>12. PICK g \in Seq(Packets), u \in Seq(Packets) : g = got /\ u = Unwritten
  BY WayTypes DEF SInv, Framed
<1>13. g \o M \in Seq(Packets)  BY ConcatTypes
<1>14. Framed'
  <2>1. buffer' \in Seq(Part') /\ got' \in Seq(Packets')
    BY <1>2, <1>3, <1>8, <1>9, <1>11, <1>12, <1>13
  <2>2. Arriving'.rest = Arriving.rest  BY <1>7, <1>10
  <2>3. Names(Arriving'.messages) \in Seq(Packets')  BY <1>2, <1>10, <1>11
  <2> QED  BY <1>1, <2>1, <2>2, <2>3 DEF SInv, Framed
<1>15. PICK line \in Seq(Packets) : line = N \o u  BY ConcatTypes
<1>16. Unwritten' = Unwritten  BY <1>1 DEF Unwritten
<1>17. OnTheWay' = line  BY <1>10, <1>11, <1>12, <1>15, <1>16 DEF OnTheWay, Arriving
<1>18. OnTheWay = M \o line
  <2>1. OnTheWay = (M \o N) \o u  BY <1>11, <1>12 DEF OnTheWay, Arriving
  <2>2. Joins(M, N, u)  BY Associative
  <2> QED  BY <1>15, <2>1, <2>2 DEF Joins
<1>19. (got \o OnTheWay)' = got \o OnTheWay
  <2>1. Joins(g, M, line)  BY Associative
  <2> QED  BY <1>9, <1>11, <1>12, <1>17, <1>18, <2>1 DEF Joins
<1>20. Apart'  BY <1>1, <1>19 DEF SInv, Apart
<1>21. Flows
  <2>1. CASE M = <<>>
    <3>1. got \o <<>> = got /\ <<>> \o line = line  BY <1>12, ConcatTypes
    <3>2. got' = got /\ OnTheWay' = OnTheWay
      BY <1>9, <1>11, <1>17, <1>18, <2>1, <3>1
    <3> QED  BY <3>2 DEF Flows
  <2>2. CASE M # <<>>
    <3>1. PICK old \in Seq(Packets) : old = M \o line  BY ConcatTypes
    <3>2. PICK k \in Nat : /\ k = Len(old) - Len(line) /\ k > 0
                           /\ line = SubSeq(old, k + 1, Len(old)) /\ M = SubSeq(old, 1, k)
      <4>1. Behind(M \o line, M, line)  BY <2>2, <3>1, JoinFacts
      <4> QED  BY <3>1, <4>1 DEF Behind
    <3>3. Stream!Arrive(old, line)  BY <1>9, <1>11, <3>2 DEF Stream!Arrive
    <3>4. old = OnTheWay /\ line = OnTheWay'  BY <1>17, <1>18, <3>1
    <3> QED  BY <3>3, <3>4 DEF Flows, Stream!Next
  <2> QED  BY <2>1, <2>2
<1> QED  BY <1>14, <1>20, <1>21

----------------------------------------------------------------------------
\* All steps.

LEMMA StreamInitHolds ==
  ASSUME StreamInit
  PROVE  SInv /\ Stream!Init
<1>1. \A S : <<>> \in Seq(S) /\ <<>> \o <<>> = <<>>  OBVIOUS
<1>2. /\ Init /\ buffer = <<>> /\ got = <<>> /\ wire = <<>> /\ queue = <<>> /\ pending = 0
      /\ offset = 0 /\ closed = FALSE /\ assembled = <<>>
  BY DEF StreamInit, Init
<1>3. Arriving = [messages |-> <<>>, rest |-> <<>>]
  BY <1>1, <1>2, AssembleNone DEF Arriving, Nothing
<1>4. Names(Arriving.messages) = <<>>
  <2>1. Names(<<>>) = <<>>  BY DEF Names
  <2> QED  BY <1>3, <2>1
<1>5. Framed
  <2>1. Row(0, 0, 0) = <<>>  BY DEF Row
  <2> QED  BY <1>1, <1>2, <1>3, <1>4, <2>1 DEF Framed
<1>6. OnTheWay = <<>>  BY <1>1, <1>2, <1>4 DEF OnTheWay, Arriving, Unwritten
<1>7. Apart
  <2>1. IsInjective(<<>>) /\ ToSet(<<>>) = {}  BY DEF IsInjective, ToSet
  <2> QED  BY <1>1, <1>2, <1>6, <2>1 DEF Apart
<1> QED  BY <1>2, <1>5, <1>6, <1>7, InitHolds DEF SInv, Stream!Init

LEMMA QuietSteps ==
  ASSUME SInv, UNCHANGED streamVars,
         \/ \E b \in Blocks : Request(b) \/ CancelAssembled(b) \/ CancelSent(b)
         \/ CountRequest \/ CancelDeleted \/ ReadFailure \/ CountRead \/ CancelUpload
         \/ BeginPulse \/ WriteEnds \/ EndPulse \/ Renew \/ \E n \in Limits : LimitRate(n)
  PROVE  Framed' /\ Apart' /\ Flows
<1> USE DEF taskVars, socketVars, packetVars, rateVars, streamVars
<1>1. UNCHANGED <<made, queue, pending, offset, closed, wire, buffer, got>>
  BY DEF Request, CancelAssembled, CancelSent, CountRequest, CancelDeleted, ReadFailure, CountRead,
         CancelUpload, BeginPulse, WriteEnds, EndPulse, Renew, LimitRate
<1>2. ToSet(assembled') \subseteq ToSet(assembled)
  <2>1. ASSUME NEW b \in Blocks, CancelAssembled(b)
        PROVE  ToSet(assembled') \subseteq ToSet(assembled)
    <3>1. PICK s \in Seq(Packets) : s = assembled  BY DEF SInv, IInv, TypeOK
    <3>2. PICK n : n = FirstMatch(s, b)  OBVIOUS
    <3>3. n \in DOMAIN s /\ assembled' = RemoveAt(s, n)
      BY <2>1, <3>1, <3>2, FirstMatchFacts DEF CancelAssembled
    <3>4. ToSet(RemoveAt(s, n)) \subseteq ToSet(s)  BY <3>3, RemoveFacts
    <3> QED  BY <3>1, <3>3, <3>4
  <2>2. CASE CancelUpload
    <3>1. assembled' = <<>>  BY <2>2 DEF CancelUpload
    <3> QED  BY <3>1 DEF ToSet
  <2>3. CASE ~CancelUpload /\ \A b \in Blocks : ~CancelAssembled(b)
    <3>1. assembled' = assembled
      BY <2>3 DEF Request, CancelSent, CountRequest, CancelDeleted, ReadFailure, CountRead,
                  BeginPulse, WriteEnds, EndPulse, Renew, LimitRate
    <3> QED  BY <3>1
  <2> QED  BY <2>1, <2>2, <2>3
<1> QED  BY <1>1, <1>2, QuietStep

LEMMA UploadSteps == [StreamNext]_<<vars, streamVars>> => [Next]_vars
<1>1. ASSUME NEW n \in 1..Room, Receive(n) PROVE Next
  BY <1>1 DEF Receive, Next
<1> QED  BY <1>1 DEF StreamNext, Next

LEMMA StreamNextHolds ==
  ASSUME SInv, [StreamNext]_<<vars, streamVars>>
  PROVE  SInv' /\ Flows
<1>1. [Next]_vars  BY UploadSteps
<1>2. IInv'  BY <1>1, NextHolds DEF SInv
<1>3. Framed' /\ Apart' /\ Flows
  <2>1. ASSUME UploadNext, UNCHANGED streamVars PROVE Framed' /\ Apart' /\ Flows
    <3>1. CASE \E b \in Blocks : Request(b) \/ CancelAssembled(b) \/ CancelSent(b)
      BY <2>1, <3>1, QuietSteps
    <3>2. CASE CountRequest \/ CancelDeleted \/ ReadFailure \/ CountRead \/ CancelUpload
      BY <2>1, <3>2, QuietSteps
    <3>3. CASE BeginPulse \/ WriteEnds \/ EndPulse \/ Renew \/ \E n \in Limits : LimitRate(n)
      BY <2>1, <3>3, QuietSteps
    <3>4. CASE ReadSuccess \/ UploadBlocks \/ ToggleChoke
      BY <2>1, <3>4, ReadSuccessFlows, UploadBlocksFlows, ToggleChokeFlows
    <3>5. CASE WriteDiscarded \/ WriteWhole
      BY <2>1, <3>5, WriteDiscardedFlows, WriteWholeFlows
    <3>6. CASE \E n \in 0..PieceParts : WritePart(n) \/ WriteFails(n)
      BY <2>1, <3>6, WritePartFlows, WriteFailsFlows
    <3>7. CASE ReadCloses \/ Disconnect
      BY <2>1, <3>7, ClosesFlows
    <3> QED  BY <2>1, <3>1, <3>2, <3>3, <3>4, <3>5, <3>6, <3>7 DEF UploadNext
  <2>2. ASSUME NEW n \in 1..Room, Receive(n) PROVE Framed' /\ Apart' /\ Flows
    BY <2>2, ReceiveFlows
  <2>3. CASE UNCHANGED <<vars, streamVars>>
    <3>1. UNCHANGED <<made, queue, pending, offset, closed, wire, assembled, buffer, got>>
      BY <2>3 DEF vars, taskVars, socketVars, packetVars, streamVars
    <3> QED  BY <3>1, QuietStep
  <2> QED  BY <2>1, <2>2, <2>3 DEF StreamNext
<1> QED  BY <1>2, <1>3 DEF SInv

----------------------------------------------------------------------------
\* Theorems.

\* A connection with its other end is a connection: what was proved of Upload holds of it
\* (socket.cc, messageassembler.cc).
THEOREM StreamRunsUpload == StreamSpec => Spec
<1>1. StreamInit => Init  BY DEF StreamInit
<1> QED  BY <1>1, UploadSteps, PTL DEF StreamSpec, Spec

\* Wherever the data was cut: when the peer has read all that was written, what is left
\* in its buffer is what the socket sent of pendingData_, and no message is twice among
\* those that arrived, are on their way and wait (messageassembler.cc, socket.cc).
THEOREM DataStaysFramed == StreamSpec => []SInv
BY StreamInitHolds, StreamNextHolds, PTL DEF StreamSpec

\* A connection implements the stream: however the data is cut by the limits, by the
\* sockets and by reads, the peer gets whole messages, in the order in which they were
\* sent and none twice; discarded messages and a connection that fails take nothing but
\* whole messages out of it, and only messages that did not arrive.
THEOREM ConnectionIsStream == StreamSpec => ImplementsStream
<1>1. StreamInit => Stream!Init  BY StreamInitHolds
<1>2. SInv /\ [StreamNext]_<<vars, streamVars>> => [Stream!Next]_<<OnTheWay, got>>
  BY StreamNextHolds DEF Flows
<1> QED  BY <1>1, <1>2, DataStaysFramed, PTL DEF StreamSpec, ImplementsStream, Stream!Spec

=============================================================================

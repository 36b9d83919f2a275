--------------------------- MODULE ChunkingProofs ---------------------------
(***************************************************************************)
(* Theorems about Chunking, for every number of Chunkers, every number of  *)
(* chunks asked for, every length of the file and every number of edits.   *)
(***************************************************************************)
EXTENDS Chunking, SequenceTheorems, TLAPS

LEMMA WrittenIsSeq ==
    ASSUME ChunkingAssumption, NEW n \in 0..MaxEdits, NEW f \in Written(n)
    PROVE  f \in Seq(Bytes) /\ Len(f) \in Nat
<1>1. PICK len \in Lengths : f = [i \in 1..len |-> <<n, i>>]
  BY DEF Written
<1>2. len \in Nat
  BY DEF ChunkingAssumption
<1>3. \A i \in 1..len : <<n, i>> \in Bytes
  BY <1>2 DEF Bytes
<1> QED
  BY <1>1, <1>2, <1>3

\* What a Chunker reads is a piece, or what is left of the file.
LEMMA ReadLength ==
    ASSUME ChunkingAssumption, TypeOK, NEW c \in Chunkers
    PROVE  /\ Read(c) \in Seq(Bytes)
           /\ Len(Read(c)) \in Nat
           /\ Read(c) = <<>> <=> Len(Read(c)) = 0
           /\ at[c] + piece[c] <= Len(file) => Len(Read(c)) = piece[c]
           /\ at[c] <= Len(file) /\ at[c] + piece[c] > Len(file)
                 => Len(Read(c)) = Len(file) - at[c]
<1> DEFINE to == IF at[c] + piece[c] <= Len(file) THEN at[c] + piece[c]
                                                  ELSE Len(file)
<1>1. /\ file \in Seq(Bytes) /\ Len(file) \in Nat
      /\ at[c] \in Nat /\ piece[c] \in Nat
  BY WrittenIsSeq DEF TypeOK
<1>2. to \in Nat /\ at[c] + 1 \in Nat /\ to <= Len(file)
  BY <1>1
<1>3. \A i \in at[c] + 1 .. to : file[i] \in Bytes
  BY <1>1, <1>2
<1>4. /\ SubSeq(file, at[c] + 1, to) \in Seq(Bytes)
      /\ Len(SubSeq(file, at[c] + 1, to)) =
            IF at[c] + 1 <= to THEN to - (at[c] + 1) + 1 ELSE 0
  <2> HIDE DEF to
  <2>1. at[c] + 1 \in Int /\ to \in Int
    BY <1>2
  <2> QED
    BY <1>3, <2>1, SubSeqProperties
<1>5. Read(c) = SubSeq(file, at[c] + 1, to)
  BY DEF Read
<1>6. \A s \in Seq(Bytes) : s = <<>> <=> Len(s) = 0
  BY EmptySeq
<1>7. Read(c) \in Seq(Bytes)
  BY <1>4, <1>5
<1>8. Len(Read(c)) = IF at[c] + 1 <= to THEN to - at[c] ELSE 0
  BY <1>1, <1>2, <1>4, <1>5
<1>9. /\ Len(Read(c)) \in Nat
      /\ at[c] + piece[c] <= Len(file) => Len(Read(c)) = piece[c]
      /\ at[c] <= Len(file) /\ at[c] + piece[c] > Len(file)
            => Len(Read(c)) = Len(file) - at[c]
  BY <1>1, <1>2, <1>8
<1> QED
  BY <1>6, <1>7, <1>9

LEMMA DivIsNat == \A l \in Nat, s \in Nat \ {0} : l \div s \in Nat
BY Z3

LEMMA TypeStep == ChunkingAssumption /\ TypeOK /\ [Next]_vars => TypeOK'
<1> SUFFICES ASSUME ChunkingAssumption, TypeOK, [Next]_vars PROVE TypeOK'
  OBVIOUS
<1> USE DEF TypeOK, Goto
<1>0. <<>> \in Seq(Bytes) /\ <<>> \in Seq(Seq(Bytes))
  BY EmptySeq
<1>1. CASE Edit
  <2>1. edits' \in 0..MaxEdits /\ file' \in Written(edits')
    BY <1>1 DEF Edit, ChunkingAssumption
  <2>2. edited' \subseteq Chunkers
    BY <1>1 DEF Edit
  <2>3. UNCHANGED <<chunkVars, rebuildVars>>
    BY <1>1 DEF Edit
  <2> QED
    BY <2>1, <2>2, <2>3 DEF chunkVars, rebuildVars, Written
<1>2. ASSUME NEW c \in Chunkers, Stat(c) PROVE TypeOK'
  <2>1. CASE Size[c] = 0
    BY <1>2, <2>1 DEF Stat, rebuildVars
  <2>2. CASE Size[c] # 0
    <3>1. Len(file) \in Nat /\ Size[c] \in Nat \ {0}
      BY <2>2, WrittenIsSeq DEF ChunkingAssumption
    <3>2. Piece(c) \in Nat
      BY <3>1, DivIsNat DEF Piece
    <3>3. /\ step' = [step EXCEPT ![c] = "reading"]
          /\ piece' = [piece EXCEPT ![c] = Piece(c)]
      BY <1>2, <2>2 DEF Stat
    <3>4. UNCHANGED <<file, edits, at, chunks, original, ccif, rebuildVars,
                      edited>>
      BY <1>2 DEF Stat
    <3> HIDE DEF Goto
    <3> QED
      BY <3>2, <3>3, <3>4 DEF rebuildVars, Written
  <2> QED
    BY <2>1, <2>2
<1>3. ASSUME NEW c \in Chunkers, ProduceChunk(c) PROVE TypeOK'
  <2>1. Read(c) \in Seq(Bytes) /\ Len(Read(c)) \in Nat
    BY ReadLength
  <2>2. Append(chunks[c], Read(c)) \in Seq(Seq(Bytes))
    BY <2>1
  <2> HIDE DEF Goto
  <2>3. step' \in [Chunkers -> {"idle", "reading", "hashing", "hashed",
                                "writing", "done", "dead"}]
    BY <1>3 DEF ProduceChunk, Goto
  <2>4. at[c] + Len(Read(c)) \in Nat
    BY <2>1
  <2>5. /\ at' \in {at, [at EXCEPT ![c] = @ + Len(Read(c))]}
        /\ chunks' \in {chunks, [chunks EXCEPT ![c] = Append(@, Read(c))]}
        /\ UNCHANGED <<file, edits, piece, original, ccif, rebuildVars, edited>>
    BY <1>3 DEF ProduceChunk
  <2> HIDE DEF Goto
  <2>6. at' \in [Chunkers -> Nat]
    BY <2>4, <2>5
  <2>7. chunks' \in [Chunkers -> Seq(Seq(Bytes))]
    BY <2>2, <2>5
  <2> QED
    BY <2>3, <2>5, <2>6, <2>7 DEF rebuildVars
<1>4. ASSUME NEW c \in Chunkers, Hasher(c) PROVE TypeOK'
  BY <1>4, WrittenIsSeq DEF Hasher, rebuildVars
<1>5. ASSUME NEW c \in Chunkers, WriteCcif(c) \/ Crash(c) PROVE TypeOK'
  BY <1>5 DEF WriteCcif, Crash, rebuildVars
<1>6. ASSUME NEW c \in Chunkers, Begin(c) PROVE TypeOK'
  <2>1. /\ current' \in {current, c}
        /\ todo' \in {todo, chunks[c]} /\ result' \in {result, <<>>}
        /\ verdict' \in {verdict, [verdict EXCEPT ![c] = "unreadable"]}
        /\ UNCHANGED <<file, edits, chunkVars, edited>>
    BY <1>6 DEF Begin, ChunkFiles, Truncated
  <2> HIDE DEF Goto
  <2>2. todo' \in Seq(Seq(Bytes)) /\ result' \in Seq(Bytes)
    <3>1. chunks[c] \in Seq(Seq(Bytes))
      OBVIOUS
    <3>2. todo' \in Seq(Seq(Bytes))
      BY <1>0, <2>1, <3>1
    <3>3. result' \in Seq(Bytes)
      BY <1>0, <2>1
    <3> QED
      BY <3>2, <3>3
  <2>3. /\ current' \in Chunkers \cup {"none"}
        /\ verdict' \in [Chunkers -> {"none", "unreadable", "ensured", "broken"}]
    BY <2>1
  <2> QED
    BY <2>1, <2>2, <2>3 DEF chunkVars
<1>7. CASE ConstructFile
  <2>1. Head(todo) \in Seq(Bytes) /\ Tail(todo) \in Seq(Seq(Bytes))
    BY <1>7, HeadTailProperties DEF ConstructFile
  <2>2. result \o Head(todo) \in Seq(Bytes)
    BY <2>1, ConcatProperties
  <2> QED
    BY <1>7, <2>1, <2>2 DEF ConstructFile, Write, chunkVars
<1>8. CASE EnsureIntegrity \/ BreakOff
  <2>1. verdict' \in [Chunkers -> {"none", "unreadable", "ensured", "broken"}]
    BY <1>8 DEF EnsureIntegrity, BreakOff
  <2>2. todo' \in {todo, <<>>} /\ current' = "none"
        /\ UNCHANGED <<file, edits, chunkVars, result, edited>>
    BY <1>8 DEF EnsureIntegrity, BreakOff
  <2>3. todo' \in Seq(Seq(Bytes))
    BY <1>0, <2>2
  <2> QED
    BY <2>1, <2>2, <2>3 DEF chunkVars
<1>9. CASE UNCHANGED vars
  BY <1>9 DEF vars, chunkVars, rebuildVars
<1> QED
  BY <1>1, <1>2, <1>3, <1>4, <1>5, <1>6, <1>7, <1>8, <1>9
     DEF Next, GenericRun

\* Type correctness.
THEOREM ChunkingTypeCorrect == Spec => []TypeOK
<1>1. Init => TypeOK
  BY ChunkingAssumption DEF Init, TypeOK, ChunkingAssumption
<1> QED
  BY <1>1, TypeStep, ChunkingAssumption, PTL DEF Spec

-----------------------------------------------------------------------------

\* The chunks of a length: n pieces of p = L \div s bytes, the last of them
\* perhaps shorter, are s at least and less than twice as many.
LEMMA Pieces ==
    ASSUME NEW L \in Nat, NEW s \in Nat \ {0}, NEW n \in Nat, NEW p \in Nat,
           p = L \div s, L >= s,
           n * p >= L, n > 0 => (n - 1) * p < L
    PROVE  s <= n /\ n < 2 * s
<1>1. p * s <= L /\ L < p * s + s
  BY Z3
<1>2. p >= 1
  BY <1>1, Z3
<1>3. s <= n
  <2>1. SUFFICES ASSUME n <= s - 1 PROVE FALSE
    OBVIOUS
  <2>2. n * p <= (s - 1) * p
    BY <2>1, <1>2, Z3
  <2>3. (s - 1) * p = p * s - p
    BY Z3
  <2> QED
    BY <1>1, <1>2, <2>2, <2>3, Z3
<1>4. n < 2 * s
  <2>1. SUFFICES ASSUME n >= 2 * s PROVE FALSE
    OBVIOUS
  <2>2. (n - 1) * p >= (2 * s - 1) * p
    BY <2>1, <1>2, Z3
  <2>3. (2 * s - 1) * p = p * s + (s - 1) * p
    BY Z3
  <2>4. (s - 1) * p >= s - 1
    BY <1>2, Z3
  <2> QED
    BY <1>1, <1>3, <2>1, <2>2, <2>3, <2>4, Z3
<1> QED
  BY <1>3, <1>4

\* n chunks of p bytes have been read from a file of L bytes: all of them whole
\* but perhaps the last, and none of them empty.
Cut(n, p, position, L) ==
    /\ position = IF n * p <= L THEN n * p ELSE L
    /\ n > 0 => p > 0 /\ (n - 1) * p < L

\* How far a Chunker has come with a file that was not edited.
Progress(c) ==
    LET n == Len(chunks[c]) IN
    /\ step[c] = "idle" => n = 0 /\ at[c] = 0
    /\ step[c] \in {"reading", "hashing"} /\ c \notin edited =>
          /\ Size[c] # 0
          /\ piece[c] = Len(file) \div Size[c]
          /\ Cut(n, piece[c], at[c], Len(file))
    /\ step[c] = "hashing" /\ c \notin edited =>
          IF piece[c] = 0 THEN n = 0 ELSE n * piece[c] >= Len(file)

CountInv == TypeOK /\ ChunkCount /\ \A c \in Chunkers : Progress(c)

LEMMA CountStep == ChunkingAssumption /\ CountInv /\ [Next]_vars => CountInv'
<1> SUFFICES ASSUME ChunkingAssumption, CountInv, [Next]_vars PROVE CountInv'
  OBVIOUS
<1>1. TypeOK /\ TypeOK'
  BY TypeStep DEF CountInv
<1>2. ASSUME NEW d \in Chunkers
      PROVE  /\ Len(file) \in Nat /\ Len(chunks[d]) \in Nat
             /\ piece[d] \in Nat /\ at[d] \in Nat /\ Size[d] \in Nat
  BY <1>1, WrittenIsSeq, LenProperties DEF TypeOK, ChunkingAssumption
<1> DEFINE Kept(d) ==
      /\ chunks'[d] = chunks[d] /\ piece'[d] = piece[d] /\ at'[d] = at[d]
      /\ original'[d] = original[d] /\ step'[d] = step[d]
      Counted(d) ==
        step[d] \in {"hashed", "writing", "done"} /\ d \notin edited =>
            LET n == Len(chunks[d]) IN
            IF Len(original[d]) < Size[d]
            THEN n = 0
            ELSE Size[d] <= n /\ n < 2 * Size[d]
<1>3. ASSUME NEW d \in Chunkers, Kept(d), file' = file, edited' = edited
      PROVE  Progress(d)' /\ Counted(d)'
  BY <1>3 DEF CountInv, Progress, ChunkCount
<1>4. SUFFICES ASSUME NEW d \in Chunkers
               PROVE  Progress(d)' /\ Counted(d)'
  BY <1>1 DEF CountInv, ChunkCount
<1> HIDE DEF Kept
<1>5. CASE Edit
  BY <1>1, <1>5 DEF Edit, chunkVars, CountInv, Progress, ChunkCount, TypeOK
<1>6. CASE UNCHANGED <<chunkVars, file, edited>>
  BY <1>3, <1>6 DEF chunkVars, Kept
<1>7. ASSUME NEW c \in Chunkers, GenericRun(c) \/ Crash(c), c # d
      PROVE  Kept(d) /\ file' = file /\ edited' = edited
  <2>1. CASE Stat(c)
    BY <1>1, <1>7, <2>1 DEF Stat, Goto, Kept, TypeOK
  <2>2. CASE ProduceChunk(c)
    BY <1>1, <1>7, <2>2 DEF ProduceChunk, Goto, Kept, TypeOK
  <2>3. CASE Hasher(c)
    BY <1>1, <1>7, <2>3 DEF Hasher, Goto, Kept, TypeOK
  <2>4. CASE WriteCcif(c) \/ Crash(c)
    BY <1>1, <1>7, <2>4 DEF WriteCcif, Crash, Goto, Kept, TypeOK
  <2> QED
    BY <1>7, <2>1, <2>2, <2>3, <2>4 DEF GenericRun
<1>8. CASE Stat(d)
  <2>1. CASE Size[d] = 0
    BY <1>1, <1>8, <2>1 DEF Stat, Goto, TypeOK, CountInv, Progress
  <2>2. CASE Size[d] # 0
    <3>1. /\ step'[d] = "reading" /\ piece'[d] = Len(file) \div Size[d]
          /\ Len(chunks'[d]) = 0 /\ at'[d] = 0 /\ file' = file
      BY <1>1, <1>8, <2>2 DEF Stat, Goto, Piece, TypeOK, CountInv, Progress
    <3>2. Cut(0, piece'[d], 0, Len(file))
      BY <1>1, <1>2, <3>1 DEF Cut, TypeOK
    <3> QED
      BY <2>2, <3>1, <3>2 DEF Progress
  <2> QED
    BY <2>1, <2>2
<1>9. CASE ProduceChunk(d)
  <2> DEFINE n == Len(chunks[d])
             p == piece[d]
             L == Len(file)
  <2>1. /\ n \in Nat /\ p \in Nat /\ L \in Nat /\ at[d] \in Nat
        /\ step[d] = "reading" /\ file' = file /\ edited' = edited
        /\ piece' = piece /\ original' = original
    BY <1>2, <1>9 DEF ProduceChunk
  <2>2. CASE d \in edited
    BY <1>1, <1>9, <2>1, <2>2 DEF ProduceChunk, Goto, Progress, TypeOK
  <2>3. CASE d \notin edited
    <3>1. /\ Size[d] # 0 /\ p = L \div Size[d]
          /\ at[d] = IF n * p <= L THEN n * p ELSE L
          /\ n > 0 => p > 0 /\ (n - 1) * p < L
      BY <2>1, <2>3 DEF CountInv, Progress, Cut
    <3>2. n * p \in Nat /\ (n + 1) * p = n * p + p /\ (n + 1 - 1) * p = n * p
      BY <2>1, Z3
    <3> DEFINE m == n * p
    <3>9. /\ at[d] = IF m <= L THEN m ELSE L
          /\ m \in Nat /\ (n + 1) * p = m + p /\ (n + 1 - 1) * p = m
          /\ at[d] <= L
      BY <2>1, <3>1, <3>2
    <3> HIDE DEF m
    <3>3. CASE Read(d) = <<>>
      <4>1. Len(Read(d)) = 0
        BY <3>3, <1>1, ReadLength
      <4>2. IF p = 0 THEN n = 0 ELSE n * p >= L
        <5>1. CASE at[d] + p <= L
          <6>1. p = 0
            BY <1>1, <4>1, <5>1, ReadLength
          <6>2. n = 0
            BY <2>1, <3>1, <6>1
          <6> QED
            BY <6>1, <6>2
        <5>2. CASE at[d] + p > L
          <6>1. L - at[d] = 0
            BY <1>1, <2>1, <3>9, <4>1, <5>2, ReadLength
          <6>2. m >= L
            BY <2>1, <3>9, <6>1
          <6>3. p # 0
            BY <2>1, <5>2, <6>1
          <6> QED
            BY <6>2, <6>3 DEF m
        <5> QED
          BY <2>1, <5>1, <5>2
      <4> QED
        BY <1>1, <1>9, <2>1, <2>3, <3>1, <3>3, <4>2
           DEF ProduceChunk, Goto, TypeOK, Progress, Cut
    <3>4. CASE Read(d) # <<>>
      <4>1. Len(Read(d)) \in Nat \ {0}
        BY <3>4, <1>1, ReadLength
      <4>2. Cut(n + 1, p, at[d] + Len(Read(d)), L)
        <5>1. CASE at[d] + p <= L
          <6>1. Len(Read(d)) = p /\ p > 0
            BY <1>1, <2>1, <4>1, <5>1, ReadLength
          <6>2. m + p <= L /\ at[d] = m
            BY <2>1, <3>9, <5>1, <6>1
          <6> QED
            BY <2>1, <3>9, <6>1, <6>2 DEF Cut
        <5>2. CASE at[d] + p > L
          <6>1. Len(Read(d)) = L - at[d]
            BY <1>1, <2>1, <3>9, <5>2, ReadLength
          <6>2. m < L /\ at[d] = m /\ m + p > L /\ p > 0
            BY <2>1, <3>9, <4>1, <5>2, <6>1
          <6>3. at[d] + Len(Read(d)) = L
            BY <2>1, <6>1
          <6> QED
            BY <2>1, <3>9, <6>2, <6>3 DEF Cut
        <5> QED
          BY <2>1, <5>1, <5>2
      <4>3. /\ Len(chunks'[d]) = n + 1
            /\ at'[d] = at[d] + Len(Read(d)) /\ step' = step
        BY <1>1, <1>9, <3>4, ReadLength DEF ProduceChunk, TypeOK
      <4> QED
        BY <2>1, <2>3, <3>1, <4>2, <4>3 DEF Progress
    <3> QED
      BY <3>3, <3>4
  <2> QED
    BY <2>2, <2>3
<1>10. CASE Hasher(d)
  <2>1. /\ step[d] = "hashing" /\ step'[d] = "hashed" /\ chunks' = chunks
        /\ original'[d] = file /\ edited' = edited
    BY <1>1, <1>10 DEF Hasher, Goto, TypeOK
  <2>2. ASSUME d \notin edited
        PROVE  LET n == Len(chunks[d]) IN
               IF Len(file) < Size[d] THEN n = 0
                                      ELSE Size[d] <= n /\ n < 2 * Size[d]
    <3> DEFINE n == Len(chunks[d])
               p == piece[d]
               L == Len(file)
               s == Size[d]
    <3>1. n \in Nat /\ p \in Nat /\ L \in Nat /\ s \in Nat \ {0}
      BY <1>2, <2>1, <2>2 DEF CountInv, Progress
    <3>2. /\ p = L \div s
          /\ n > 0 => (n - 1) * p < L
          /\ IF p = 0 THEN n = 0 ELSE n * p >= L
      BY <2>1, <2>2 DEF CountInv, Progress, Cut
    <3> HIDE DEF n, p, L, s
    <3>3. CASE L < s
      <4>1. p = 0
        BY <3>1, <3>2, <3>3, Z3
      <4> QED
        BY <3>2, <3>3, <4>1 DEF n, L, s
    <3>4. CASE L >= s
      <4>1. p # 0
        BY <3>1, <3>2, <3>4, Z3
      <4>2. s <= n /\ n < 2 * s
        BY <3>1, <3>2, <3>4, <4>1, Pieces
      <4>3. ~(L < s)
        BY <3>1, <3>4
      <4> QED
        BY <4>2, <4>3 DEF n, L, s
    <3> QED
      BY <3>1, <3>3, <3>4
  <2> QED
    BY <2>1, <2>2 DEF Progress
<1>11. CASE WriteCcif(d) \/ Crash(d)
  BY <1>1, <1>11 DEF WriteCcif, Crash, Goto, CountInv, Progress, ChunkCount,
                     TypeOK
<1> QED
  BY <1>3, <1>5, <1>6, <1>7, <1>8, <1>9, <1>10, <1>11
     DEF Next, GenericRun, Begin, ConstructFile, EnsureIntegrity, BreakOff,
         vars, chunkVars

\* A file that was not edited is split into the chunks asked for and fewer than
\* that again, or not at all.
THEOREM CountOfChunks == Spec => []ChunkCount
<1>1. Init => CountInv
  <2> SUFFICES ASSUME Init PROVE CountInv
    OBVIOUS
  <2>1. TypeOK
    BY ChunkingAssumption DEF Init, TypeOK, ChunkingAssumption
  <2> QED
    BY <2>1 DEF Init, CountInv, ChunkCount, Progress
<1>2. CountInv => ChunkCount
  BY DEF CountInv
<1> QED
  BY <1>1, <1>2, CountStep, ChunkingAssumption, PTL DEF Spec

-----------------------------------------------------------------------------

\* Where the k-th piece of p bytes ends in a file of L bytes.
End(k, p, L) == IF k * p <= L THEN k * p ELSE L

LEMMA Ends ==
    ASSUME NEW k \in Nat, NEW p \in Nat, NEW L \in Nat
    PROVE  /\ End(k, p, L) \in 0..L
           /\ End(k, p, L) <= End(k + 1, p, L)
           /\ End(k + 1, p, L) = IF End(k, p, L) + p <= L
                                 THEN End(k, p, L) + p ELSE L
           /\ End(0, p, L) = 0
<1> DEFINE m == k * p
<1>1. m \in Nat /\ (k + 1) * p = m + p /\ 0 * p = 0
  BY Z3
<1>2. /\ End(k, p, L) = IF m <= L THEN m ELSE L
      /\ End(k + 1, p, L) = IF m + p <= L THEN m + p ELSE L
      /\ End(0, p, L) = 0
  BY <1>1 DEF End
<1> HIDE DEF m
<1> QED
  BY <1>1, <1>2

\* The chunks q are the pieces of f, in their order.
Sliced(q, f, p) ==
    \A k \in 1..Len(q) :
        q[k] = SubSeq(f, End(k - 1, p, Len(f)) + 1, End(k, p, Len(f)))

LEMMA SliceAt ==
    ASSUME NEW q, NEW f, NEW p, Sliced(q, f, p),
           NEW k \in Nat, k + 1 \in 1..Len(q)
    PROVE  q[k + 1] = SubSeq(f, End(k, p, Len(f)) + 1, End(k + 1, p, Len(f)))
<1>1. k + 1 - 1 = k
  OBVIOUS
<1>2. ASSUME NEW i \in 1..Len(q)
      PROVE  q[i] = SubSeq(f, End(i - 1, p, Len(f)) + 1, End(i, p, Len(f)))
  BY DEF Sliced
<1> QED
  BY <1>1, <1>2

\* What the files of a Chunker are good for.
Restorable(c) ==
    LET n == Len(chunks[c])
        p == piece[c]
        L == Len(original[c])
    IN
    /\ step[c] \in {"reading", "hashing"} /\ c \notin edited =>
          Sliced(chunks[c], file, p)
    /\ step[c] \in {"hashed", "writing", "done"} /\ c \notin edited =>
          /\ Sliced(chunks[c], original[c], p)
          /\ Size[c] # 0
          /\ p = L \div Size[c]
          /\ IF p = 0 THEN n = 0 ELSE n * p >= L
    /\ ccif[c] = "full" => step[c] = "done"
    /\ verdict[c] \in {"ensured", "broken"} => step[c] = "done"

\* What the result holds: the file as far as its chunks have been copied.
Rebuilding ==
    current # "none" =>
        /\ step[current] = "done"
        /\ current \notin edited =>
              LET k == Len(chunks[current]) - Len(todo)
                  f == original[current]
              IN
              /\ k \in Nat
              /\ \A j \in 1..Len(todo) : todo[j] = chunks[current][k + j]
              /\ result = SubSeq(f, 1, End(k, piece[current], Len(f)))

RestoreInv ==
    /\ CountInv
    /\ VerdictExplained
    /\ Rebuilding
    /\ \A c \in Chunkers : Restorable(c)

\* What a Chunker does leaves the others and those that are done as they are.
LEMMA KeptByOthers ==
    ASSUME ChunkingAssumption, TypeOK, NEW c \in Chunkers, NEW d \in Chunkers,
           GenericRun(c) \/ Crash(c), c # d \/ step[d] = "done"
    PROVE  /\ step'[d] = step[d] /\ piece'[d] = piece[d]
           /\ chunks'[d] = chunks[d] /\ original'[d] = original[d]
           /\ ccif'[d] = ccif[d]
<1> USE DEF TypeOK, Goto
<1>1. CASE Stat(c)
  BY <1>1 DEF Stat
<1>2. CASE ProduceChunk(c)
  BY <1>2 DEF ProduceChunk
<1>3. CASE Hasher(c)
  BY <1>3 DEF Hasher
<1>4. CASE WriteCcif(c) \/ Crash(c)
  BY <1>4 DEF WriteCcif, Crash
<1> QED
  BY <1>1, <1>2, <1>3, <1>4 DEF GenericRun

LEMMA OnlyChunkers ==
    ASSUME NEW c \in Chunkers, GenericRun(c) \/ Crash(c)
    PROVE  UNCHANGED <<file, edited, current, todo, result, verdict>>
BY DEF GenericRun, Stat, ProduceChunk, Hasher, WriteCcif, Crash, rebuildVars

LEMMA RestorableStep ==
    ASSUME ChunkingAssumption, RestoreInv, [Next]_vars, NEW d \in Chunkers
    PROVE  Restorable(d)'
<1>1. TypeOK /\ TypeOK' /\ Restorable(d) /\ Progress(d)
  BY TypeStep DEF RestoreInv, CountInv
<1>2. CASE Edit
  BY <1>1, <1>2 DEF Edit, chunkVars, rebuildVars, Restorable, TypeOK
<1>3. CASE UNCHANGED <<chunkVars, file, edited>> /\ verdict'[d] = verdict[d]
  BY <1>1, <1>3 DEF chunkVars, Restorable
<1>4. CASE \E c \in Chunkers : Begin(c)
  <2>1. /\ verdict'[d] \in {verdict[d], "unreadable"}
        /\ UNCHANGED <<chunkVars, file, edited>>
    <3>1. PICK c \in Chunkers : Begin(c)
      BY <1>4
    <3>2. /\ verdict' \in {verdict, [verdict EXCEPT ![c] = "unreadable"]}
          /\ UNCHANGED <<chunkVars, file, edited>>
      BY <3>1 DEF Begin
    <3> QED
      BY <1>1, <3>2 DEF TypeOK
  <2> QED
    BY <1>1, <2>1 DEF chunkVars, Restorable
<1>5. CASE EnsureIntegrity
  <2>1. /\ verdict'[d] = verdict[d] \/ step[d] = "done"
        /\ UNCHANGED <<chunkVars, file, edited>>
    BY <1>1, <1>5 DEF EnsureIntegrity, RestoreInv, Rebuilding, TypeOK
  <2> QED
    BY <1>1, <2>1 DEF chunkVars, Restorable
<1>6. ASSUME NEW c \in Chunkers, c # d, GenericRun(c) \/ Crash(c)
      PROVE  Restorable(d)'
  BY <1>1, <1>6, KeptByOthers, OnlyChunkers DEF Restorable
<1>7. CASE Stat(d)
  <2>1. /\ Len(chunks'[d]) = 0 /\ step'[d] \in {"reading", "dead"}
        /\ ccif'[d] = ccif[d] /\ verdict'[d] = verdict[d]
        /\ step[d] = "idle"
    BY <1>1, <1>7 DEF Stat, Goto, rebuildVars, Progress, TypeOK
  <2> QED
    BY <1>1, <2>1 DEF Restorable, Sliced
<1>8. CASE ProduceChunk(d)
  <2> DEFINE q == chunks[d]
             n == Len(q)
             p == piece[d]
             L == Len(file)
  <2>1. /\ step[d] = "reading" /\ step'[d] \in {"reading", "hashing"}
        /\ UNCHANGED <<file, edited, piece, ccif, verdict>>
    BY <1>1, <1>8 DEF ProduceChunk, Goto, rebuildVars, TypeOK
  <2>2. /\ n \in Nat /\ p \in Nat /\ L \in Nat
        /\ q \in Seq(Seq(Bytes)) /\ Read(d) \in Seq(Bytes)
    BY <1>1, WrittenIsSeq, ReadLength, LenProperties DEF TypeOK
  <2>3. d \notin edited => Sliced(chunks'[d], file, p)
    <3>1. CASE chunks'[d] = q
      BY <1>1, <2>1, <3>1 DEF Restorable
    <3>2. CASE chunks'[d] = Append(q, Read(d))
      <4>1. SUFFICES ASSUME d \notin edited, NEW k \in 1..n + 1
                     PROVE  Append(q, Read(d))[k]
                              = SubSeq(file, End(k - 1, p, L) + 1, End(k, p, L))
        BY <2>2, <3>2, AppendProperties DEF Sliced
      <4>2. at[d] = End(n, p, L)
        BY <1>1, <2>1, <4>1 DEF Progress, Cut, End
      <4>3. Read(d) = SubSeq(file, End(n, p, L) + 1, End(n + 1, p, L))
        <5>1. End(n + 1, p, L) = IF at[d] + p <= L THEN at[d] + p ELSE L
          <6> HIDE DEF n, p, L
          <6> QED
            BY <2>2, <4>2, Ends
        <5> QED
          BY <4>2, <5>1 DEF Read
      <4>4. CASE k = n + 1
        <5>1. k - 1 = n /\ Append(q, Read(d))[k] = Read(d)
          BY <2>2, <4>4, AppendProperties
        <5> QED
          BY <4>3, <4>4, <5>1
      <4>5. CASE k # n + 1
        <5>1. k \in 1..n /\ Append(q, Read(d))[k] = q[k]
          BY <2>2, <4>5, AppendProperties
        <5> QED
          BY <1>1, <2>1, <4>1, <5>1 DEF Restorable, Sliced
      <4> QED
        BY <4>4, <4>5
    <3>3. chunks'[d] \in {q, Append(q, Read(d))}
      BY <1>1, <1>8 DEF ProduceChunk, TypeOK
    <3> QED
      BY <3>1, <3>2, <3>3
  <2> QED
    BY <1>1, <2>1, <2>3 DEF Restorable
<1>9. CASE Hasher(d)
  <2>1. /\ step[d] = "hashing" /\ step'[d] = "hashed"
        /\ UNCHANGED <<edited, chunks, piece, ccif, verdict>>
        /\ original'[d] = file
    BY <1>1, <1>9 DEF Hasher, Goto, rebuildVars, TypeOK
  <2> QED
    BY <1>1, <2>1 DEF Restorable, Progress
<1>10. CASE WriteCcif(d) \/ Crash(d)
  <2>1. /\ UNCHANGED <<file, edited, chunks, piece, original, verdict>>
        /\ \/ step[d] = "hashed" /\ step'[d] = "writing" /\ ccif'[d] = "empty"
           \/ step[d] = "writing" /\ step'[d] = "done" /\ ccif'[d] = "full"
           \/ /\ step[d] \notin {"idle", "done"} /\ step'[d] = "dead"
              /\ ccif'[d] = ccif[d]
    BY <1>1, <1>10 DEF WriteCcif, Crash, Goto, rebuildVars, TypeOK
  <2> QED
    BY <1>1, <2>1 DEF Restorable
<1>11. CASE ConstructFile \/ BreakOff \/ UNCHANGED vars
  BY <1>3, <1>11 DEF ConstructFile, BreakOff, vars, rebuildVars
<1> QED
  BY <1>2, <1>4, <1>5, <1>6, <1>7, <1>8, <1>9, <1>10, <1>11
     DEF Next, GenericRun

LEMMA RebuildingStep ==
    ChunkingAssumption /\ RestoreInv /\ [Next]_vars => Rebuilding'
<1> SUFFICES ASSUME ChunkingAssumption, RestoreInv, [Next]_vars,
                    current' # "none"
             PROVE  Rebuilding'
  BY DEF Rebuilding
<1>1. TypeOK /\ TypeOK' /\ Rebuilding
  BY TypeStep DEF RestoreInv, CountInv
<1>2. CASE Edit \/ UNCHANGED vars
  BY <1>1, <1>2 DEF Edit, chunkVars, rebuildVars, vars, Rebuilding
<1>3. ASSUME NEW c \in Chunkers, GenericRun(c) \/ Crash(c)
      PROVE  Rebuilding'
  <2>1. /\ UNCHANGED <<file, edited, current, todo, result, verdict>>
        /\ current \in Chunkers /\ step[current] = "done"
    BY <1>1, <1>3, OnlyChunkers DEF Rebuilding, TypeOK
  <2>2. /\ step'[current] = step[current] /\ piece'[current] = piece[current]
        /\ chunks'[current] = chunks[current]
        /\ original'[current] = original[current]
    BY <1>1, <1>3, <2>1, KeptByOthers
  <2> QED
    BY <1>1, <2>1, <2>2 DEF Rebuilding
<1>4. ASSUME NEW c \in Chunkers, Begin(c)
      PROVE  Rebuilding'
  <2> DEFINE q == chunks[c]
             f == original[c]
             p == piece[c]
  <2>1. /\ ccif[c] = "full" /\ current' = c /\ todo' = q /\ result' = <<>>
        /\ UNCHANGED <<chunkVars, edited>>
    BY <1>4 DEF Begin, ChunkFiles, Truncated
  <2>2. step[c] = "done"
    BY <2>1 DEF RestoreInv, Restorable
  <2>3. /\ f \in Seq(Bytes) /\ Len(f) \in Nat /\ p \in Nat
        /\ q \in Seq(Seq(Bytes)) /\ Len(q) \in Nat
    BY <1>1, LenProperties DEF TypeOK
  <2>4. Len(q) - Len(q) = 0 /\ \A j \in 1..Len(q) : q[j] = q[0 + j]
    BY <2>3
  <2>5. End(0, p, Len(f)) = 0
    BY <2>3, Ends
  <2>6. SubSeq(f, 1, 0) = <<>>
    BY <2>3, SubSeqEmpty
  <2> HIDE DEF q, f, p
  <2>7. LET k == Len(q) - Len(q) IN
        /\ k \in Nat
        /\ \A j \in 1..Len(q) : q[j] = q[k + j]
        /\ <<>> = SubSeq(f, 1, End(k, p, Len(f)))
    BY <2>4, <2>5, <2>6
  <2> QED
    BY <2>1, <2>2, <2>7 DEF Rebuilding, chunkVars, q, f, p
<1>5. CASE ConstructFile
  <2> DEFINE c == current
             q == chunks[c]
             f == original[c]
             p == piece[c]
             L == Len(f)
             k == Len(q) - Len(todo)
  <2>1. /\ todo # <<>> /\ todo' = Tail(todo) /\ result' = result \o Head(todo)
        /\ UNCHANGED <<chunkVars, edited, current>>
        /\ c \in Chunkers /\ step[c] = "done"
    BY <1>1, <1>5 DEF ConstructFile, Write, Rebuilding, TypeOK
  <2>2. CASE c \in edited
    BY <2>1, <2>2 DEF Rebuilding, chunkVars
  <2>3. CASE c \notin edited
    <3>1. /\ f \in Seq(Bytes) /\ L \in Nat /\ p \in Nat
          /\ q \in Seq(Seq(Bytes)) /\ Len(q) \in Nat /\ todo \in Seq(Seq(Bytes))
      BY <1>1, <2>1, LenProperties DEF TypeOK
    <3>2. /\ k \in Nat
          /\ \A j \in 1..Len(todo) : todo[j] = q[k + j]
          /\ result = SubSeq(f, 1, End(k, p, L))
      BY <1>1, <2>1, <2>3 DEF Rebuilding
    <3>3. /\ Len(todo) \in Nat \ {0} /\ Head(todo) = todo[1]
          /\ Len(Tail(todo)) = Len(todo) - 1
          /\ \A j \in 1..Len(todo) - 1 : Tail(todo)[j] = todo[j + 1]
      BY <2>1, <3>1, HeadTailProperties, EmptySeq, LenProperties
    <3>4. Len(q) - Len(Tail(todo)) = k + 1
      BY <3>1, <3>3
    <3>5. ASSUME NEW j \in 1..Len(Tail(todo))
          PROVE  Tail(todo)[j] = q[k + 1 + j]
      <4>1. /\ j + 1 \in 1..Len(todo) /\ j \in 1..Len(todo) - 1
            /\ k + (j + 1) = k + 1 + j
        <5> HIDE DEF k
        <5> QED
          BY <3>2, <3>3
      <4>2. Tail(todo)[j] = todo[j + 1]
        BY <3>3, <4>1
      <4>3. todo[j + 1] = q[k + (j + 1)]
        BY <3>2, <4>1
      <4> QED
        BY <4>1, <4>2, <4>3
    <3>6. Head(todo) = SubSeq(f, End(k, p, L) + 1, End(k + 1, p, L))
      <4>1. 1 \in 1..Len(todo) /\ k + 1 \in 1..Len(q)
        BY <3>1, <3>2, <3>3
      <4>2. Head(todo) = q[k + 1]
        BY <3>2, <3>3, <4>1
      <4>3. Sliced(q, f, p)
        BY <2>1, <2>3 DEF RestoreInv, Restorable
      <4> HIDE DEF q, f, p, k
      <4> QED
        BY <3>2, <4>1, <4>2, <4>3, SliceAt
    <3>7. result \o Head(todo) = SubSeq(f, 1, End(k + 1, p, L))
      <4>1. /\ End(k, p, L) \in 0..L /\ End(k + 1, p, L) \in 0..L
            /\ End(k, p, L) <= End(k + 1, p, L)
        <5>1. k + 1 \in Nat
          BY <3>2
        <5> HIDE DEF k, f, p, L
        <5> QED
          BY <3>1, <3>2, <5>1, Ends
      <4>2. /\ 1 \in 1..L + 1 /\ End(k, p, L) \in 1 - 1..L
            /\ End(k + 1, p, L) \in End(k, p, L)..L
        BY <3>1, <4>1
      <4> HIDE DEF k, f, p
      <4> QED
        BY <3>1, <3>2, <3>6, <4>2, ConcatAdjacentSubSeq
    <3>8. k + 1 \in Nat
      BY <3>2
    <3> HIDE DEF k
    <3> QED
      BY <2>1, <3>4, <3>5, <3>7, <3>8 DEF Rebuilding, chunkVars
  <2> QED
    BY <2>2, <2>3
<1>6. CASE EnsureIntegrity \/ BreakOff
  BY <1>6 DEF EnsureIntegrity, BreakOff
<1> QED
  BY <1>2, <1>3, <1>4, <1>5, <1>6 DEF Next

\* The result of a Reconstruct that has copied every chunk is what was hashed,
\* unless the chunks were empty and the file was not.
LEMMA Restored ==
    ASSUME ChunkingAssumption, RestoreInv, current # "none", todo = <<>>,
           current \notin edited
    PROVE  result = original[current]
             <=> Len(original[current]) \notin 1..Size[current] - 1
<1> DEFINE f == original[current]
           p == piece[current]
           L == Len(f)
           s == Size[current]
           n == Len(chunks[current])
<1>1. /\ current \in Chunkers /\ step[current] = "done"
      /\ f \in Seq(Bytes) /\ L \in Nat /\ p \in Nat /\ n \in Nat /\ s \in Nat
  BY LenProperties DEF RestoreInv, CountInv, Rebuilding, TypeOK,
                       ChunkingAssumption
<1>2. /\ s # 0 /\ p = L \div s /\ IF p = 0 THEN n = 0 ELSE n * p >= L
  BY <1>1 DEF RestoreInv, Restorable
<1>3. result = SubSeq(f, 1, End(n, p, L))
  <2>1. n - Len(todo) = n
    BY <1>1
  <2> QED
    BY <2>1 DEF RestoreInv, Rebuilding
<1> HIDE DEF f, p, L, s, n
<1>4. SubSeq(f, 1, L) = f
  BY <1>1, SubSeqFull DEF L
<1>5. CASE p = 0
  <2>1. n = 0 /\ L < s
    BY <1>1, <1>2, <1>5, Z3
  <2>2. result = <<>>
    <3>1. End(n, p, L) = 0
      BY <1>1, <2>1, Ends
    <3> QED
      BY <1>3, <3>1, SubSeqEmpty
  <2>3. f = <<>> <=> L = 0
    BY <1>1, EmptySeq DEF L
  <2>4. L = 0 <=> L \notin 1..s - 1
    BY <1>1, <2>1
  <2> QED
    BY <2>2, <2>3, <2>4 DEF f, L, s
<1>6. CASE p # 0
  <2>1. L >= s
    BY <1>1, <1>2, <1>6, Z3
  <2>2. End(n, p, L) = L
    <3> DEFINE m == n * p
    <3>1. m \in Nat /\ m >= L
      BY <1>1, <1>2, <1>6, Z3
    <3>2. End(n, p, L) = IF m <= L THEN m ELSE L
      BY DEF End
    <3> HIDE DEF m
    <3> QED
      BY <1>1, <3>1, <3>2
  <2>3. L \notin 1..s - 1
    BY <1>1, <2>1
  <2> QED
    BY <1>3, <1>4, <2>2, <2>3 DEF f, L, s
<1> QED
  BY <1>5, <1>6

LEMMA VerdictStep ==
    ChunkingAssumption /\ RestoreInv /\ [Next]_vars => VerdictExplained'
<1> SUFFICES ASSUME ChunkingAssumption, RestoreInv, [Next]_vars,
                    NEW d \in Chunkers
             PROVE  LET TooShort == Len(original'[d]) \in 1..Size[d] - 1 IN
                    /\ verdict'[d] = "broken" => d \in edited' \/ TooShort
                    /\ verdict'[d] = "ensured" => d \in edited' \/ ~TooShort
  BY DEF VerdictExplained
<1>1. TypeOK /\ VerdictExplained /\ Restorable(d)
  BY DEF RestoreInv, CountInv
<1>2. CASE /\ verdict'[d] = verdict[d] \/ verdict'[d] = "unreadable"
           /\ original'[d] = original[d] \/ step[d] # "done"
           /\ edited \subseteq edited'
  BY <1>1, <1>2 DEF VerdictExplained, Restorable
<1>3. CASE EnsureIntegrity /\ d = current
  <2>1. /\ verdict'[d] = IF result = original[d] THEN "ensured" ELSE "broken"
        /\ original' = original /\ edited' = edited
        /\ current # "none" /\ todo = <<>>
    BY <1>1, <1>3 DEF EnsureIntegrity, TypeOK, chunkVars
  <2> QED
    BY <1>3, <2>1, Restored
<1>4. ASSUME NEW c \in Chunkers, GenericRun(c) \/ Crash(c)
      PROVE  /\ verdict'[d] = verdict[d]
             /\ original'[d] = original[d] \/ step[d] # "done"
             /\ edited' = edited
  BY <1>1, <1>4, KeptByOthers, OnlyChunkers
<1>5. ASSUME Edit \/ (\E c \in Chunkers : Begin(c)) \/ ConstructFile
               \/ (EnsureIntegrity /\ d # current) \/ BreakOff
               \/ UNCHANGED vars
      PROVE  /\ verdict'[d] = verdict[d] \/ verdict'[d] = "unreadable"
             /\ original' = original
             /\ edited \subseteq edited'
  BY <1>1, <1>5 DEF Edit, Begin, ConstructFile, EnsureIntegrity, BreakOff, vars,
                    chunkVars, rebuildVars, TypeOK
<1> QED
  BY <1>2, <1>3, <1>4, <1>5 DEF Next

\* A Reconstruct that comes to its end restores what was hashed, whatever was
\* left halfway before it, unless the file was edited or too short to be split.
THEOREM VerdictsExplained == Spec => []VerdictExplained
<1>1. Init => RestoreInv
  <2> SUFFICES ASSUME Init PROVE RestoreInv
    OBVIOUS
  <2>1. TypeOK
    BY ChunkingAssumption DEF Init, TypeOK, ChunkingAssumption
  <2> QED
    BY <2>1 DEF Init, RestoreInv, CountInv, ChunkCount, Progress,
                VerdictExplained, Rebuilding, Restorable
<1>2. ChunkingAssumption /\ RestoreInv /\ [Next]_vars => RestoreInv'
  BY CountStep, RestorableStep, RebuildingStep, VerdictStep DEF RestoreInv
<1>3. RestoreInv => VerdictExplained
  BY DEF RestoreInv
<1> QED
  BY <1>1, <1>2, <1>3, ChunkingAssumption, PTL DEF Spec
=============================================================================

----------------------- MODULE EnvFilesSizes_proofs -----------------------
(***************************************************************************)
(* How large the files of the environment get, that a mapping stays inside *)
(* of its file, and which reads of it stay inside of the mapping, for any  *)
(* clients, names, objects and bounds.                                     *)
(***************************************************************************)
EXTENDS EnvFiles_proofs, FunctionTheorems

\* The bytes of an object are in its own file; together with those in its buffer they
\* are never more than were appended, though a write that fails may drop some and a
\* crash may take some.  A file is never shorter than its mapping.
Bounded(o) ==
  /\ \A f \in Names : f # obj[o].name => Absent(o, f)
  /\ obj[o].kind # "none" => BytesInFile(o) + obj[o].buffer <= obj[o].appended
  /\ obj[o].kind = "mapping" => obj[o].length <= GetFileSize(obj[o].name)

SizesInv == FilesInv /\ \A o \in Objects : Bounded(o)

-----------------------------------------------------------------------------
(* The size of a file.                                                       *)

\* One more byte of an object is one more in the count.
LEMMA BytesOfStrict ==
  ASSUME NEW o, NEW s, NEW m \in Nat, NEW n \in Nat, m < n, s[n] = o
  PROVE  BytesOf(o, s, m) < BytesOf(o, s, n)
<1> DEFINE Bytes(k) == {i \in 1..k : s[i] = o}
<1>1. IsFiniteSet(Bytes(n))
  <2>1. IsFiniteSet(1..n)
    BY FS_Interval
  <2>2. QED
    BY <2>1, FS_Subset
<1>2. Bytes(m) \in SUBSET Bytes(n) /\ n \in Bytes(n) /\ n \notin Bytes(m)
  OBVIOUS
<1>3. /\ Cardinality(Bytes(n)) \in Nat /\ Cardinality(Bytes(m)) \in Nat
      /\ Cardinality(Bytes(m)) <= Cardinality(Bytes(n))
      /\ Cardinality(Bytes(m)) # Cardinality(Bytes(n))
  BY <1>1, <1>2, FS_CardinalityType, FS_Subset
<1>4. Cardinality(Bytes(m)) < Cardinality(Bytes(n))
  BY <1>3
<1>5. QED
  BY <1>4 DEF BytesOf

\* If no object has more than MaxBytes bytes in a file, the file is no longer than
\* MaxBytes for each object: its bytes map one to one to objects and counts.
LEMMA SizeByCounts ==
  ASSUME NEW s \in Seq(Objects), \A o \in Objects : BytesOf(o, s, Len(s)) <= MaxBytes
  PROVE  Len(s) <= Cardinality(Objects) * MaxBytes
<1> DEFINE g == [i \in 1..Len(s) |-> <<s[i], BytesOf(s[i], s, i)>>]
           T == Objects \X (1..MaxBytes)
<1>1. Len(s) \in Nat /\ MaxBytes \in Nat
  BY Bounds
<1>2. ASSUME NEW i \in 1..Len(s)
      PROVE  s[i] \in Objects /\ BytesOf(s[i], s, i) \in 1..MaxBytes
  <2>1. s[i] \in Objects /\ i \in Nat /\ 0 < i /\ i <= Len(s)
    OBVIOUS
  <2>2. BytesOf(s[i], s, 0) < BytesOf(s[i], s, i) /\ BytesOf(s[i], s, 0) \in Nat
    <3>1. PICK zero \in Nat : zero = 0
      OBVIOUS
    <3>2. BytesOf(s[i], s, zero) < BytesOf(s[i], s, i) /\ BytesOf(s[i], s, zero) \in Nat
      <4>1. PICK o \in Objects : o = s[i]
        BY <2>1
      <4>2. zero < i /\ i \in Nat /\ s[i] = o
        BY <2>1, <3>1, <4>1
      <4>3. BytesOf(o, s, zero) < BytesOf(o, s, i)
        BY <4>2, BytesOfStrict
      <4>4. BytesOf(o, s, zero) \in Nat
        BY BytesOfMonotone
      <4>5. QED
        BY <4>1, <4>3, <4>4
    <3>3. QED
      BY <3>1, <3>2
  <2>3. /\ BytesOf(s[i], s, i) \in Nat /\ BytesOf(s[i], s, Len(s)) \in Nat
        /\ BytesOf(s[i], s, i) <= BytesOf(s[i], s, Len(s))
    BY <1>1, <2>1, BytesOfMonotone
  <2>4. BytesOf(s[i], s, Len(s)) <= MaxBytes
    BY <2>1
  <2>5. QED
    BY <1>1, <2>1, <2>2, <2>3, <2>4
<1>3. ASSUME NEW i \in 1..Len(s), NEW j \in 1..Len(s), i < j, s[i] = s[j]
      PROVE  BytesOf(s[i], s, i) # BytesOf(s[j], s, j)
  <2>1. BytesOf(s[j], s, i) < BytesOf(s[j], s, j)
    BY <1>3, BytesOfStrict
  <2>2. BytesOf(s[j], s, j) \in Nat
    BY BytesOfMonotone
  <2>3. BytesOf(s[j], s, i) \in Nat
    BY BytesOfMonotone
  <2>4. QED
    BY <1>3, <2>1, <2>2, <2>3
<1>4. g \in Injection(1..Len(s), T)
  <2>1. g \in [1..Len(s) -> T]
    BY <1>2
  <2>2. ASSUME NEW i \in 1..Len(s), NEW j \in 1..Len(s), g[i] = g[j]
        PROVE  i = j
    <3>1. s[i] = s[j] /\ BytesOf(s[i], s, i) = BytesOf(s[j], s, j)
      BY <2>2
    <3>2. ~(i < j) /\ ~(j < i)
      BY <1>3, <3>1
    <3>3. QED
      BY <3>2
  <2>3. QED
    BY <2>1, <2>2 DEF Injection, IsInjective
<1>5. /\ IsFiniteSet(1..MaxBytes) /\ Cardinality(1..MaxBytes) = MaxBytes
      /\ Cardinality(1..Len(s)) = Len(s)
  <2>1. ASSUME NEW n \in Nat
        PROVE  IsFiniteSet(1..n) /\ Cardinality(1..n) = n
    <3>1. IsFiniteSet(1..n) /\ Cardinality(1..n) = IF 1 > n THEN 0 ELSE n - 1 + 1
      BY FS_Interval
    <3>2. QED
      BY <3>1
  <2>2. QED
    BY <1>1, <2>1
<1> HIDE DEF g
<1>6. IsFiniteSet(T) /\ Cardinality(T) = Cardinality(Objects) * MaxBytes
  <2>1. IsFiniteSet(T) /\ Cardinality(T) = Cardinality(Objects) * Cardinality(1..MaxBytes)
    BY <1>5, ObjectsFinite, FS_Product
  <2>2. QED
    BY <1>5, <2>1
<1>7. Cardinality(1..Len(s)) <= Cardinality(T)
  <2> HIDE DEF T
  <2>1. QED
    BY <1>4, <1>6, FS_Injection
<1>8. QED
  BY <1>5, <1>6, <1>7

\* No file is longer than MaxBytes for each object.
LEMMA SizeBound ==
  ASSUME SizesInv, NEW f \in Names
  PROVE  /\ GetFileSize(f) \in Nat
         /\ GetFileSize(f) <= Cardinality(Objects) * MaxBytes
<1>1. FilesTypeOK
  BY DEF SizesInv, FilesInv
<1>2. GetFileSize(f) \in Nat
  BY <1>1, SizeOfFile
<1>3. CASE Exists(f)
  <2>1. PICK s \in Seq(Objects) : s = kernel[f] /\ GetFileSize(f) = Len(s)
    BY <1>1, <1>3, SizeOfFile
  <2>2. ASSUME NEW o \in Objects
        PROVE  BytesOf(o, s, Len(s)) <= MaxBytes
    <3>1. BytesOf(o, s, Len(s)) \in Nat
      BY <2>1, BytesOfMonotone
    <3>2. CASE Absent(o, f)
      <4>1. BytesOf(o, s, Len(s)) = 0
        BY <2>1, <3>2, BytesOfNone DEF Absent
      <4>2. QED
        BY <4>1, Bounds
    <3>3. CASE ~Absent(o, f)
      <4>1. obj[o].name = f /\ obj[o].kind # "none"
        BY <3>3 DEF SizesInv, FilesInv, Bounded, Born
      <4>2. BytesOf(o, s, Len(s)) + obj[o].buffer <= obj[o].appended
        BY <2>1, <4>1 DEF SizesInv, Bounded, BytesInFile
      <4>3. obj[o].buffer \in 0..MaxBytes /\ obj[o].appended \in 0..MaxBytes
        BY <1>1 DEF FilesTypeOK, ObjectType, Counts
      <4>4. QED
        BY <3>1, <4>2, <4>3, Bounds
    <3>4. QED
      BY <3>2, <3>3
  <2>3. QED
    BY <1>2, <2>1, <2>2, SizeByCounts
<1>4. CASE ~Exists(f)
  <2>1. GetFileSize(f) = 0 /\ Cardinality(Objects) \in Nat /\ MaxBytes \in Nat
    BY <1>4, Bounds, ObjectsFinite, FS_CardinalityType DEF GetFileSize
  <2>2. 0 <= Cardinality(Objects) * MaxBytes
    BY <2>1
  <2>3. QED
    BY <1>2, <2>1, <2>2
<1>5. QED
  BY <1>2, <1>3, <1>4

\* What is copied out of a mapping of any length size_t can hold.
LEMMA CopiedOf ==
  ASSUME NEW length \in Nat, length < SizeModulus,
         NEW n \in 0..(SizeModulus - 1), NEW offset \in 0..(SizeModulus - 1)
  PROVE  LET sum == IF offset + n < SizeModulus THEN offset + n ELSE offset + n - SizeModulus
         IN  Copied(length, n, offset) =
               IF sum > length
               THEN IF offset <= length THEN length - offset ELSE length + SizeModulus - offset
               ELSE n
<1>1. SizeModulus \in Nat /\ SizeModulus > 0
  BY FilesAssumption
<1>2. /\ n \in Nat /\ offset \in Nat /\ n < SizeModulus /\ offset < SizeModulus
  BY <1>1
<1> DEFINE sum == IF offset + n < SizeModulus THEN offset + n ELSE offset + n - SizeModulus
           end == IF offset <= length THEN length - offset ELSE length + SizeModulus - offset
<1>3. ASSUME NEW x \in Nat, NEW y \in Nat, y < SizeModulus, x = y \/ x = y + SizeModulus
      PROVE  x % SizeModulus = y
  BY <1>1, <1>3
<1>4. (offset + n) % SizeModulus = sum
  <2>1. sum \in Nat /\ sum < SizeModulus /\ offset + n \in Nat
    BY <1>1, <1>2
  <2>2. offset + n = sum \/ offset + n = sum + SizeModulus
    BY <1>1, <1>2
  <2> HIDE DEF sum
  <2>3. QED
    BY <1>3, <2>1, <2>2
<1>5. (length + SizeModulus - offset) % SizeModulus = end
  <2>1. end \in Nat /\ end < SizeModulus /\ length + SizeModulus - offset \in Nat
    BY <1>1, <1>2
  <2>2. length + SizeModulus - offset = end \/ length + SizeModulus - offset = end + SizeModulus
    BY <1>1, <1>2
  <2> HIDE DEF end
  <2>3. QED
    BY <1>3, <2>1, <2>2
<1>6. QED
  BY <1>4, <1>5 DEF Copied

\* The invariant keeps mappings inside of their files.
LEMMA SizesKeepMappings == SizesInv => MappingsStayInFile
BY DEF SizesInv, Bounded, MappingsStayInFile

\* No mapping is longer than size_t counts, so that the reads are as they should be.
LEMMA SizesKeepReads == SizesInv => ReadsOfMappings
<1> SUFFICES ASSUME SizesInv, NEW o \in Objects, obj[o].kind = "mapping",
                    NEW n \in 0..(SizeModulus - 1), NEW offset \in 0..(SizeModulus - 1)
             PROVE  LET length == obj[o].length
                        inside == Copied(length, n, offset) <= length
                    IN  IF offset + n < SizeModulus
                        THEN /\ inside <=> offset <= length
                             /\ offset + n <= length => Copied(length, n, offset) = n
                             /\ offset <= length /\ offset + n > length =>
                                  Copied(length, n, offset) = length - offset
                        ELSE inside <=> IF offset + n - SizeModulus <= length
                                        THEN n <= length ELSE offset <= length
  BY DEF ReadsOfMappings
<1>1. PICK length \in Nat : length = obj[o].length
  BY DEF SizesInv, FilesInv, FilesTypeOK, ObjectType
<1>2. obj[o].name \in Names
  BY DEF SizesInv, FilesInv, Born
<1>3. length < SizeModulus
  <2>1. PICK size \in Nat : /\ size = GetFileSize(obj[o].name)
                            /\ size <= Cardinality(Objects) * MaxBytes
    BY <1>2, SizeBound
  <2>2. length <= size
    BY <1>1, <2>1 DEF SizesInv, Bounded
  <2>3. PICK most \in Nat : most = Cardinality(Objects) * MaxBytes
    BY ObjectsFinite, FS_CardinalityType, Bounds
  <2>4. SizeModulus \in Nat /\ SizeModulus > most
    BY <2>3, FilesAssumption
  <2>5. QED
    BY <2>1, <2>2, <2>3, <2>4
<1>4. /\ SizeModulus \in Nat /\ n \in Nat /\ offset \in Nat
      /\ n < SizeModulus /\ offset < SizeModulus
  BY FilesAssumption
<1>5. CASE offset + n < SizeModulus
  <2>1. Copied(length, n, offset) =
          IF offset + n > length
          THEN IF offset <= length THEN length - offset ELSE length + SizeModulus - offset
          ELSE n
    BY <1>3, <1>5, CopiedOf
  <2>2. QED
    BY <1>1, <1>3, <1>4, <1>5, <2>1
<1>6. CASE ~(offset + n < SizeModulus)
  <2>1. Copied(length, n, offset) =
          IF offset + n - SizeModulus > length
          THEN IF offset <= length THEN length - offset ELSE length + SizeModulus - offset
          ELSE n
    BY <1>3, <1>6, CopiedOf
  <2>2. QED
    BY <1>1, <1>3, <1>4, <1>6, <2>1
<1>7. QED
  BY <1>5, <1>6

-----------------------------------------------------------------------------
(* Every step keeps the bounds.                                              *)

\* A file that is there stays and is not truncated.
NoneShorter ==
  \A f \in Names : Exists(f) => Exists(f)' /\ GetFileSize(f) <= GetFileSize(f)'

\* What the calls on an object change keeps the bounds of the others.
LEMMA OthersBounded ==
  ASSUME SizesInv, FilesInv', NEW o \in Objects, NEW p \in Objects \ {o},
         obj'[p] = obj[p], OthersKeepBytes(o), NoneShorter
  PROVE  Bounded(p)'
<1>1. Bounded(p) /\ Born(p) /\ FilesTypeOK /\ FilesTypeOK'
  BY DEF SizesInv, FilesInv
<1>2. \A f \in Names : f # obj'[p].name => Absent(p, f)'
  BY <1>1 DEF Bounded, OthersKeepBytes
<1>3. CASE obj[p].kind = "none"
  BY <1>2, <1>3 DEF Bounded
<1>4. CASE obj[p].kind # "none"
  <2>1. obj[p].name \in Names /\ Exists(obj[p].name)
    BY <1>1, <1>4 DEF Born
  <2>2. BytesInFile(p)' = BytesInFile(p)
    BY <2>1 DEF OthersKeepBytes, BytesInFile
  <2>3. obj[p].kind = "mapping" => obj[p].length <= GetFileSize(obj[p].name)'
    <3>1. ASSUME obj[p].kind = "mapping"
          PROVE  obj[p].length <= GetFileSize(obj[p].name)'
      <4>1. obj[p].length <= GetFileSize(obj[p].name) /\ obj[p].length \in Nat
        BY <1>1, <3>1 DEF Bounded, FilesTypeOK, ObjectType
      <4>2. GetFileSize(obj[p].name) \in Nat /\ GetFileSize(obj[p].name)' \in Nat
        BY <1>1, <2>1, SizeOfFile DEF GetFileSize, Exists, FilesTypeOK
      <4>3. GetFileSize(obj[p].name) <= GetFileSize(obj[p].name)'
        BY <2>1 DEF NoneShorter
      <4>4. QED
        BY <4>1, <4>2, <4>3
    <3>2. QED
      BY <3>1
  <2>4. QED
    BY <1>1, <1>2, <2>2, <2>3 DEF Bounded
<1>5. QED
  BY <1>3, <1>4

\* A call of an appender: what goes to the file and what stays in the buffer was in
\* the buffer before or is new.
LEMMA AppenderBounded ==
  ASSUME SizesInv, FilesInv', NEW o \in Objects, Appends(o), NEW k \in Nat, Written(o, k),
         \A p \in Objects \ {o} : obj'[p] = obj[p],
         obj'[o].kind = "appender", obj'[o].name = obj[o].name,
         NEW n \in Nat, obj'[o].appended = obj[o].appended + n,
         k + obj'[o].buffer <= obj[o].buffer + n
  PROVE  SizesInv'
<1>1. FilesInv /\ FilesTypeOK /\ Bounded(o) /\ \A p \in Objects : Bounded(p)
  BY DEF SizesInv, FilesInv
<1>2. PICK g \in Names : g = obj[o].name /\ Exists(g)
  BY <1>1, AppenderFound
<1>3. /\ \A p \in Objects, f \in Names :
            p # o => /\ BytesOf(p, kernel'[f], GetFileSize(f)')
                          = BytesOf(p, kernel[f], GetFileSize(f))
                     /\ Absent(p, f) => Absent(p, f)'
      /\ BytesOf(o, kernel'[g], GetFileSize(g)') = BytesOf(o, kernel[g], GetFileSize(g)) + k
  BY <1>1, <1>2, WrittenCounts
<1>4. OthersKeepBytes(o)
  BY <1>3 DEF OthersKeepBytes
<1>5. NoneShorter
  BY <1>1, <1>2, WrittenGrows DEF NoneShorter
<1>6. \A p \in Objects \ {o} : Bounded(p)'
  BY <1>4, <1>5, OthersBounded
<1>7. Bounded(o)'
  <2>1. ASSUME NEW f \in Names, f # g
        PROVE  Absent(o, f)'
    <3>1. Absent(o, f)
      BY <1>1, <1>2, <2>1 DEF Bounded
    <3>2. kernel'[f] = kernel[f]
      BY <1>1, <1>2, <2>1, WrittenFile DEF GrowsBy
    <3>3. QED
      BY <3>1, <3>2 DEF Absent, GetFileSize, Exists
  <2>2. BytesInFile(o) + obj[o].buffer <= obj[o].appended /\ obj[o].kind = "appender"
    BY <1>1, AppenderFound DEF Bounded
  <2>3. BytesInFile(o)' = BytesInFile(o) + k
    BY <1>2, <1>3 DEF BytesInFile
  <2>4. BytesInFile(o) \in Nat
    BY <1>1, <1>2, SizeOfFile, BytesOfMonotone DEF BytesInFile
  <2>5. obj[o].buffer \in Nat /\ obj[o].appended \in Nat /\ obj'[o].buffer \in Nat
    BY <1>1, Bounds DEF FilesInv, FilesTypeOK, ObjectType, Counts
  <2>6. BytesInFile(o)' + obj'[o].buffer <= obj'[o].appended
    BY <2>2, <2>3, <2>4, <2>5
  <2>7. QED
    BY <1>2, <2>1, <2>6 DEF Bounded
<1>8. QED
  BY <1>6, <1>7 DEF SizesInv

\* A write that fails writes some of the buffer and of the new bytes, and keeps some
\* of the rest.
LEMMA WriteFailsBounded ==
  ASSUME SizesInv, FilesInv', NEW o \in Objects, Appends(o), NEW m \in Nat, NEW stream,
         WriteFails(o, m, stream)
  PROVE  SizesInv'
<1>1. FilesInv /\ obj \in [Objects -> ObjectType]
  BY DEF SizesInv, FilesInv, FilesTypeOK
<1>2. /\ obj[o] \in ObjectType /\ obj[o].kind = "appender"
      /\ obj[o].buffer \in Nat /\ obj[o].appended \in Nat
  BY <1>1, AppenderFound
<1>3. PICK k \in 0..(obj[o].buffer + m) :
        /\ Written(o, k)
        /\ \E rest \in 0..(obj[o].buffer + m - k) :
             obj' = [obj EXCEPT ![o].buffer = rest, ![o].appended = @ + m,
                                ![o].broken = TRUE, ![o].stream = stream]
  BY DEF WriteFails
<1>4. PICK rest \in 0..(obj[o].buffer + m - k) :
        obj' = [obj EXCEPT ![o].buffer = rest, ![o].appended = @ + m,
                           ![o].broken = TRUE, ![o].stream = stream]
  BY <1>3
<1>5. /\ \A p \in Objects \ {o} : obj'[p] = obj[p]
      /\ obj'[o].kind = "appender" /\ obj'[o].name = obj[o].name
      /\ obj'[o].buffer = rest /\ obj'[o].appended = obj[o].appended + m
  BY <1>1, <1>2, <1>4 DEF ObjectType
<1>6. k \in Nat /\ k + obj'[o].buffer <= obj[o].buffer + m
  BY <1>2, <1>3, <1>4, <1>5
<1>7. QED
  BY <1>3, <1>5, <1>6, AppenderBounded

\* Append: what is appended goes to the buffer or to the file.
LEMMA AppendFileBounded ==
  ASSUME SizesInv, FilesInv', NEW o \in Objects, NEW n \in 1..MaxBytes, AppendFile(o, n)
  PROVE  SizesInv'
<1>1. Appends(o) /\ FilesInv /\ obj \in [Objects -> ObjectType]
  BY DEF AppendFile, SizesInv, FilesInv, FilesTypeOK
<1>2. /\ obj[o] \in ObjectType /\ obj[o].kind = "appender"
      /\ obj[o].buffer \in Nat /\ obj[o].appended \in Nat
  BY <1>1, AppenderFound
<1>3. ASSUME NEW m \in 0..(n - 1), WriteFails(o, m, "open")
      PROVE  SizesInv'
  <2>1. m \in Nat
    BY Bounds
  <2>2. QED
    BY <1>1, <1>3, <2>1, WriteFailsBounded
<1>4. ASSUME NEW k \in 0..(obj[o].buffer + n), Written(o, k),
             obj' = [obj EXCEPT ![o].buffer = @ + n - k, ![o].appended = @ + n]
      PROVE  SizesInv'
  <2>1. /\ \A p \in Objects \ {o} : obj'[p] = obj[p]
        /\ obj'[o].kind = "appender" /\ obj'[o].name = obj[o].name
        /\ obj'[o].buffer = obj[o].buffer + n - k /\ obj'[o].appended = obj[o].appended + n
    BY <1>1, <1>2, <1>4 DEF ObjectType
  <2>2. n \in Nat /\ k \in Nat /\ k + obj'[o].buffer <= obj[o].buffer + n
    BY <1>2, <1>4, <2>1, Bounds
  <2>3. QED
    BY <1>1, <1>4, <2>1, <2>2, AppenderBounded
<1>5. QED
  BY <1>3, <1>4 DEF AppendFile

\* A call that writes the whole buffer.
LEMMA WholeBufferBounded ==
  ASSUME SizesInv, FilesInv', NEW o \in Objects, Appends(o), Written(o, obj[o].buffer),
         \A p \in Objects \ {o} : obj'[p] = obj[p],
         obj'[o].kind = obj[o].kind, obj'[o].name = obj[o].name,
         obj'[o].appended = obj[o].appended, obj'[o].buffer = 0
  PROVE  SizesInv'
<1>1. obj[o].kind = "appender" /\ obj[o].buffer \in Nat /\ obj[o].appended \in Nat
  BY AppenderFound DEF SizesInv
<1>2. PICK n \in Nat : n = 0
  OBVIOUS
<1>3. PICK k \in Nat : k = obj[o].buffer /\ Written(o, k)
  BY <1>1
<1>4. obj'[o].appended = obj[o].appended + n /\ k + obj'[o].buffer <= obj[o].buffer + n
  BY <1>1, <1>2, <1>3
<1>5. QED
  BY <1>1, <1>3, <1>4, AppenderBounded

\* Flush, Sync and Close write it, or fail.
LEMMA BufferCallBounded ==
  ASSUME SizesInv, FilesInv', NEW o \in Objects, Flush(o) \/ Sync(o) \/ Close(o)
  PROVE  SizesInv'
<1>1. Appends(o) /\ FilesInv /\ obj \in [Objects -> ObjectType]
  BY DEF Flush, Sync, Close, SizesInv, FilesInv, FilesTypeOK
<1>2. obj[o] \in ObjectType /\ obj[o].buffer \in Nat /\ obj[o].buffer - obj[o].buffer = 0
  BY <1>1, AppenderFound
<1>3. ASSUME NEW stream, WriteFails(o, 0, stream)
      PROVE  SizesInv'
  <2>1. PICK m \in Nat : m = 0
    OBVIOUS
  <2>2. WriteFails(o, m, stream)
    BY <1>3, <2>1
  <2>3. QED
    BY <1>1, <2>2, WriteFailsBounded
<1>4. CASE Flush(o)
  <2>1. CASE Written(o, obj[o].buffer) /\ obj' = [obj EXCEPT ![o].buffer = 0]
    <3>1. /\ \A p \in Objects \ {o} : obj'[p] = obj[p]
          /\ obj'[o].kind = obj[o].kind /\ obj'[o].name = obj[o].name
          /\ obj'[o].appended = obj[o].appended /\ obj'[o].buffer = 0
      BY <1>1, <1>2, <2>1 DEF ObjectType
    <3>2. QED
      BY <1>1, <2>1, <3>1, WholeBufferBounded
  <2>2. QED
    BY <1>3, <1>4, <2>1 DEF Flush
<1>5. CASE Sync(o)
  <2>1. ASSUME Written(o, obj[o].buffer), NEW synced,
               \/ obj' = [obj EXCEPT ![o].buffer = @ - obj[o].buffer, ![o].synced = synced]
               \/ obj' = [obj EXCEPT ![o].buffer = @ - obj[o].buffer]
        PROVE  SizesInv'
    <3>1. /\ \A p \in Objects \ {o} : obj'[p] = obj[p]
          /\ obj'[o].kind = obj[o].kind /\ obj'[o].name = obj[o].name
          /\ obj'[o].appended = obj[o].appended
          /\ obj'[o].buffer = obj[o].buffer - obj[o].buffer
      BY <1>1, <1>2, <2>1 DEF ObjectType
    <3>2. QED
      BY <1>1, <1>2, <2>1, <3>1, WholeBufferBounded
  <2>2. CASE /\ Written(o, obj[o].buffer)
             /\ obj' = [obj EXCEPT ![o].buffer = @ - obj[o].buffer,
                                   ![o].synced = IF obj[o].broken THEN @ ELSE obj[o].appended]
    <3>1. PICK synced : synced = IF obj[o].broken THEN obj[o].synced ELSE obj[o].appended
      OBVIOUS
    <3>2. obj' = [obj EXCEPT ![o].buffer = @ - obj[o].buffer, ![o].synced = synced]
      BY <2>2, <3>1
    <3>3. QED
      BY <2>1, <2>2, <3>2
  <2>3. QED
    BY <1>3, <1>5, <2>1, <2>2 DEF Sync, Flushed
<1>6. CASE Close(o)
  <2>1. CASE /\ Written(o, obj[o].buffer)
             /\ obj' = [obj EXCEPT ![o].buffer = 0, ![o].stream = "NULL"]
    <3>1. /\ \A p \in Objects \ {o} : obj'[p] = obj[p]
          /\ obj'[o].kind = obj[o].kind /\ obj'[o].name = obj[o].name
          /\ obj'[o].appended = obj[o].appended /\ obj'[o].buffer = 0
      BY <1>1, <1>2, <2>1 DEF ObjectType
    <3>2. QED
      BY <1>1, <2>1, <3>1, WholeBufferBounded
  <2>2. QED
    BY <1>3, <1>6, <2>1 DEF Close, ClosedWritten
<1>7. QED
  BY <1>4, <1>5, <1>6

\* Steps that change no file and nothing the bounds are about.
LEMMA UntouchedBounded ==
  ASSUME SizesInv, FilesInv', kernel' = kernel,
         \A p \in Objects :
           /\ obj'[p].kind = obj[p].kind /\ obj'[p].name = obj[p].name
           /\ obj'[p].length = obj[p].length
           /\ obj'[p].buffer = obj[p].buffer /\ obj'[p].appended = obj[p].appended
  PROVE  SizesInv'
<1>1. ASSUME NEW p \in Objects
      PROVE  Bounded(p)'
  BY DEF SizesInv, Bounded, Absent, BytesInFile, GetFileSize, Exists
<1>2. QED
  BY <1>1 DEF SizesInv

\* Read, Skip and Delete.
LEMMA TouchBounded ==
  ASSUME SizesInv, FilesInv', NEW o \in Objects,
         Delete(o) \/ \E n \in 1..MaxBytes : Read(o, n) \/ Skip(o, n)
  PROVE  SizesInv'
<1>1. obj \in [Objects -> ObjectType] /\ obj[o] \in ObjectType
  BY DEF SizesInv, FilesInv, FilesTypeOK
<1>2. ASSUME NEW pos, NEW deleted,
             \/ obj' = [obj EXCEPT ![o].pos = pos]
             \/ obj' = [obj EXCEPT ![o].deleted = deleted]
             \/ UNCHANGED obj
      PROVE  \A p \in Objects :
               /\ obj'[p].kind = obj[p].kind /\ obj'[p].name = obj[p].name
               /\ obj'[p].length = obj[p].length
               /\ obj'[p].buffer = obj[p].buffer /\ obj'[p].appended = obj[p].appended
  <2>1. \A p \in Objects \ {o} : obj'[p] = obj[p]
    BY <1>1, <1>2
  <2>2. /\ obj'[o].kind = obj[o].kind /\ obj'[o].name = obj[o].name
        /\ obj'[o].length = obj[o].length
        /\ obj'[o].buffer = obj[o].buffer /\ obj'[o].appended = obj[o].appended
    BY <1>1, <1>2 DEF ObjectType
  <2>3. QED
    BY <2>1, <2>2
<1>3. CASE Delete(o)
  BY <1>2, <1>3, UntouchedBounded DEF Delete
<1>4. ASSUME NEW n \in 1..MaxBytes, Read(o, n)
      PROVE  SizesInv'
  <2>1. PICK k \in 0..(IF n < Ahead(o) THEN n ELSE Ahead(o)) :
          obj' = [obj EXCEPT ![o].pos = @ + k] /\ kernel' = kernel
    BY <1>4 DEF Read
  <2>2. PICK pos : pos = obj[o].pos + k
    OBVIOUS
  <2>3. obj' = [obj EXCEPT ![o].pos = pos] /\ kernel' = kernel
    BY <2>1, <2>2
  <2>4. QED
    BY <1>2, <2>3, UntouchedBounded
<1>5. ASSUME NEW n \in 1..MaxBytes, Skip(o, n)
      PROVE  SizesInv'
  <2>1. PICK pos : pos = obj[o].pos + n
    OBVIOUS
  <2>2. (obj' = [obj EXCEPT ![o].pos = pos] \/ UNCHANGED obj) /\ kernel' = kernel
    BY <1>5, <2>1 DEF Skip
  <2>3. QED
    BY <1>2, <2>2, UntouchedBounded
<1>6. QED
  BY <1>3, <1>4, <1>5

\* An object that is made has no bytes, and a mapping the size of its file.
LEMMA MadeBounded ==
  ASSUME SizesInv, FilesInv', NEW o \in Objects, NEW f \in Names, Creates(o),
         NEW new, obj' = [obj EXCEPT ![o] = new], new.name = f,
         new.buffer = 0, new.appended = 0, new.kind # "none",
         new.kind = "mapping" => new.length <= GetFileSize(f)',
         \/ Exists(f) /\ UNCHANGED kernel
         \/ ~Exists(f) /\ kernel' = [kernel EXCEPT ![f] = << >>]
  PROVE  SizesInv'
<1>1. /\ FilesTypeOK /\ FilesTypeOK' /\ obj[o].kind = "none"
      /\ obj'[o] = new /\ \A p \in Objects \ {o} : obj'[p] = obj[p]
  BY DEF SizesInv, FilesInv, FilesTypeOK, Creates
<1>2. \A h \in Names : /\ Exists(h) => kernel'[h] = kernel[h] /\ Exists(h)'
                       /\ GetFileSize(h)' = GetFileSize(h) /\ GetFileSize(h) \in Nat
  <2>1. CASE Exists(f) /\ UNCHANGED kernel
    BY <1>1, <2>1, SizeOfFile DEF Exists, GetFileSize
  <2>2. CASE ~Exists(f) /\ kernel' = [kernel EXCEPT ![f] = << >>]
    <3>1. kernel'[f] = << >> /\ \A h \in Names \ {f} : kernel'[h] = kernel[h]
      BY <1>1, <2>2 DEF FilesTypeOK
    <3>2. GetFileSize(f)' = 0 /\ GetFileSize(f) = 0
      BY <2>2, <3>1 DEF Exists, GetFileSize
    <3>3. QED
      BY <1>1, <2>2, <3>1, <3>2, SizeOfFile DEF Exists, GetFileSize
  <2>3. QED
    BY <2>1, <2>2
<1>3. \A p \in Objects, h \in Names : Absent(p, h) => Absent(p, h)'
  <2>1. ASSUME NEW p \in Objects, NEW h \in Names, Absent(p, h)
        PROVE  Absent(p, h)'
    <3>1. CASE Exists(h)
      BY <1>2, <2>1, <3>1 DEF Absent
    <3>2. CASE ~Exists(h)
      <4>1. GetFileSize(h)' = 0
        BY <1>2, <3>2 DEF GetFileSize
      <4>2. QED
        BY <4>1 DEF Absent
    <3>3. QED
      BY <3>1, <3>2
  <2>2. QED
    BY <2>1
<1>4. OthersKeepBytes(o) /\ NoneShorter
  BY <1>2, <1>3 DEF OthersKeepBytes, NoneShorter
<1>5. \A p \in Objects \ {o} : Bounded(p)'
  BY <1>1, <1>4, OthersBounded
<1>6. Bounded(o)'
  <2>1. \A h \in Names : Absent(o, h)'
    BY <1>1, <1>3 DEF SizesInv, FilesInv, Born
  <2>2. BytesInFile(o)' = 0
    <3>1. \A i \in 1..GetFileSize(f)' : kernel'[f][i] # o
      BY <2>1 DEF Absent
    <3>2. PICK size \in Nat : size = GetFileSize(f)'
      BY <1>2
    <3>3. BytesOf(o, kernel'[f], size) = 0
      BY <3>1, <3>2, BytesOfNone
    <3>4. QED
      BY <1>1, <3>2, <3>3 DEF BytesInFile
  <2>3. QED
    BY <1>1, <2>1, <2>2 DEF Bounded
<1>7. QED
  BY <1>5, <1>6 DEF SizesInv

\* The calls that make an object, also when they fail.
LEMMA NewFileBounded ==
  ASSUME SizesInv, FilesInv', NEW o \in Objects, NEW f \in Names,
         \/ NewSequentialReadFile(o, f)
         \/ NewSequentialAppendFile(o, f)
         \/ NewRandomReadFile(o, f)
  PROVE  SizesInv'
<1>1. Creates(o)
  BY DEF NewSequentialReadFile, NewSequentialAppendFile, NewRandomReadFile
<1>2. CASE UNCHANGED <<obj, kernel>>
  BY <1>2, UntouchedBounded
<1>3. CASE /\ Made(o, ReaderOf(f)) /\ Exists(f) /\ UNCHANGED kernel
  <2>1. PICK new : new = ReaderOf(f)
    OBVIOUS
  <2>2. new.kind = "reader" /\ new.name = f /\ new.buffer = 0 /\ new.appended = 0
    BY <2>1 DEF ReaderOf, NoObject
  <2>3. obj' = [obj EXCEPT ![o] = new]
    BY <1>3, <2>1 DEF Made
  <2>4. QED
    BY <1>1, <1>3, <2>2, <2>3, MadeBounded
<1>4. CASE /\ Made(o, AppenderOf(f))
           /\ kernel' = [kernel EXCEPT ![f] = Opened(f)]
  <2>1. PICK new : new = AppenderOf(f)
    OBVIOUS
  <2>2. new.kind = "appender" /\ new.name = f /\ new.buffer = 0 /\ new.appended = 0
    BY <2>1 DEF AppenderOf, NoObject
  <2>3. obj' = [obj EXCEPT ![o] = new]
    BY <1>4, <2>1 DEF Made
  <2>4. \/ Exists(f) /\ UNCHANGED kernel
        \/ ~Exists(f) /\ kernel' = [kernel EXCEPT ![f] = << >>]
    <3>1. kernel \in [Names -> {NoFile} \cup Seq(Objects)]
      BY DEF SizesInv, FilesInv, FilesTypeOK
    <3>2. CASE Exists(f)
      <4>1. kernel' = [kernel EXCEPT ![f] = kernel[f]]
        BY <1>4, <3>2 DEF Opened
      <4>2. QED
        BY <3>1, <3>2, <4>1, Zenon
    <3>3. CASE ~Exists(f)
      BY <1>4, <3>3 DEF Opened
    <3>4. QED
      BY <3>2, <3>3
  <2>5. QED
    BY <1>1, <2>2, <2>3, <2>4, MadeBounded
<1>5. CASE /\ Made(o, MappingOf(f, GetFileSize(f))) /\ Exists(f) /\ UNCHANGED kernel
  <2>1. PICK new : new = MappingOf(f, GetFileSize(f))
    OBVIOUS
  <2>2. /\ new.kind = "mapping" /\ new.name = f /\ new.buffer = 0 /\ new.appended = 0
        /\ new.length = GetFileSize(f)
    BY <2>1 DEF MappingOf, NoObject
  <2>3. obj' = [obj EXCEPT ![o] = new]
    BY <1>5, <2>1 DEF Made
  <2>4. GetFileSize(f)' = GetFileSize(f) /\ GetFileSize(f) \in Nat
    BY <1>5, SizeOfFile DEF SizesInv, FilesInv, GetFileSize, Exists
  <2>5. new.length <= GetFileSize(f)'
    BY <2>2, <2>4
  <2>6. QED
    BY <1>1, <1>5, <2>2, <2>3, <2>5, MadeBounded
<1>6. QED
  BY <1>2, <1>3, <1>4, <1>5
     DEF NewSequentialReadFile, NewSequentialAppendFile, NewRandomReadFile, Fails

\* A crash makes files shorter and leaves no mapping.
LEMMA CrashBounded ==
  ASSUME SizesInv, FilesInv', Crash
  PROVE  SizesInv'
<1>1. FilesTypeOK /\ FilesTypeOK'
  BY DEF SizesInv, FilesInv
<1>2. PICK kept \in [Names -> 0..(MaxBytes * Cardinality(Objects))] :
        /\ \A f \in Names : kept[f] \in disk[f]..GetFileSize(f)
        /\ kernel' = [f \in Names |-> IF Exists(f) THEN SubSeq(kernel[f], 1, kept[f]) ELSE NoFile]
  BY DEF Crash
<1>3. ASSUME NEW f \in Names
      PROVE  /\ GetFileSize(f) \in Nat /\ GetFileSize(f)' \in Nat
             /\ GetFileSize(f)' <= GetFileSize(f)
             /\ \A i \in 1..GetFileSize(f)' : kernel'[f][i] = kernel[f][i]
  <2>1. /\ disk[f] \in Nat /\ GetFileSize(f) \in Nat
        /\ Exists(f) => kernel[f] \in Seq(Objects) /\ GetFileSize(f) = Len(kernel[f])
    BY <1>1, SizeOfFile DEF FilesTypeOK
  <2>2. kept[f] \in disk[f]..GetFileSize(f)
    BY <1>2
  <2>3. kept[f] \in Nat /\ kept[f] <= GetFileSize(f)
    BY <2>1, <2>2
  <2>4. CASE Exists(f)
    <3>1. kernel'[f] = SubSeq(kernel[f], 1, kept[f])
      BY <1>2, <2>4
    <3>2. PICK s \in Seq(Objects) : s = kernel[f] /\ GetFileSize(f) = Len(s)
      BY <2>1, <2>4
    <3>3. /\ SubSeq(s, 1, kept[f]) \in Seq(Objects)
          /\ Len(SubSeq(s, 1, kept[f])) = kept[f]
          /\ \A i \in 1..kept[f] : SubSeq(s, 1, kept[f])[i] = s[i]
      BY <2>3, <3>2
    <3>4. kernel'[f] # NoFile
      BY <3>1, <3>2, <3>3, NoFileIsNone
    <3>5. GetFileSize(f)' = kept[f]
      BY <3>1, <3>2, <3>3, <3>4 DEF Exists, GetFileSize
    <3>6. QED
      BY <2>1, <2>3, <3>1, <3>2, <3>3, <3>5
  <2>5. CASE ~Exists(f)
    <3>1. kernel'[f] = NoFile
      BY <1>2, <2>5
    <3>2. GetFileSize(f)' = 0
      BY <3>1 DEF Exists, GetFileSize
    <3>3. QED
      BY <2>1, <3>2
  <2>6. QED
    BY <2>4, <2>5
<1>4. ASSUME NEW o \in Objects
      PROVE  /\ obj[o].kind = "none" => obj'[o] = obj[o]
             /\ obj[o].kind # "none" => obj'[o].kind = "past"
             /\ obj'[o].name = obj[o].name
             /\ obj'[o].buffer = obj[o].buffer /\ obj'[o].appended = obj[o].appended
  <2>1. obj[o] \in ObjectType
    BY <1>1 DEF FilesTypeOK
  <2>2. obj'[o] = IF obj[o].kind = "none" THEN obj[o]
                  ELSE [obj[o] EXCEPT !.kind = "past", !.stream = "NULL"]
    BY DEF Crash
  <2>3. QED
    BY <2>1, <2>2 DEF ObjectType
<1>5. ASSUME NEW o \in Objects
      PROVE  Bounded(o)'
  <2>1. Bounded(o) /\ Born(o)
    BY DEF SizesInv, FilesInv
  <2>2. ASSUME NEW f \in Names, f # obj'[o].name
        PROVE  Absent(o, f)'
    <3>1. Absent(o, f)
      BY <1>4, <2>1, <2>2 DEF Bounded
    <3>2. \A i \in 1..GetFileSize(f)' : i \in 1..GetFileSize(f) /\ kernel'[f][i] = kernel[f][i]
      BY <1>3
    <3>3. QED
      BY <3>1, <3>2 DEF Absent
  <2>3. CASE obj[o].kind = "none"
    BY <1>4, <2>2, <2>3 DEF Bounded
  <2>4. CASE obj[o].kind # "none"
    <3>1. PICK g \in Names : g = obj[o].name
      BY <2>1, <2>4 DEF Born
    <3>2. PICK size \in Nat : size = GetFileSize(g)'
      BY <1>3
    <3>3. BytesOf(o, kernel'[g], size) = BytesOf(o, kernel[g], size)
      BY <1>3, <3>2, BytesOfSame
    <3>4. /\ BytesOf(o, kernel[g], size) \in Nat
          /\ BytesOf(o, kernel[g], size) <= BytesOf(o, kernel[g], GetFileSize(g))
          /\ BytesOf(o, kernel[g], GetFileSize(g)) \in Nat
      BY <1>3, <3>2, BytesOfMonotone
    <3>5. BytesInFile(o)' <= BytesInFile(o) /\ BytesInFile(o)' \in Nat /\ BytesInFile(o) \in Nat
      BY <1>4, <3>1, <3>2, <3>3, <3>4 DEF BytesInFile
    <3>6. BytesInFile(o) + obj[o].buffer <= obj[o].appended
      BY <2>1, <2>4 DEF Bounded
    <3>7. obj[o].buffer \in Nat /\ obj[o].appended \in Nat
      BY <1>1, Bounds DEF FilesTypeOK, ObjectType, Counts
    <3>8. BytesInFile(o)' + obj'[o].buffer <= obj'[o].appended
      BY <1>4, <3>5, <3>6, <3>7
    <3>9. QED
      BY <1>4, <2>2, <2>4, <3>8 DEF Bounded
  <2>5. QED
    BY <2>3, <2>4
<1>6. QED
  BY <1>5 DEF SizesInv

\* Initially there are no files.
LEMMA SizesInitInv == FilesInit => SizesInv
<1> SUFFICES ASSUME FilesInit PROVE SizesInv
  OBVIOUS
<1>1. FilesInv
  BY FilesInitInv
<1>2. \A o \in Objects : obj[o].kind = "none"
  BY DEF FilesInit, NoObject
<1>3. \A f \in Names : GetFileSize(f) = 0
  BY DEF FilesInit, GetFileSize, Exists
<1>4. \A o \in Objects : Bounded(o)
  BY <1>2, <1>3 DEF Bounded, Absent
<1>5. QED
  BY <1>1, <1>4 DEF SizesInv

\* Every call, failure and crash keeps the bounds.
LEMMA SizesNextInv == SizesInv /\ [FilesNext]_filesVars => SizesInv'
<1> SUFFICES ASSUME SizesInv, [FilesNext]_filesVars PROVE SizesInv'
  OBVIOUS
<1>1. FilesInv'
  BY FilesNextInv DEF SizesInv
<1>2. CASE \/ OnceRuns \/ InitDefault_PosixEnv \/ \E c \in Clients : EnvDepend_Default(c)
           \/ UNCHANGED filesVars
  <2>1. UNCHANGED <<obj, kernel>>
    BY <1>2 DEF OnceRuns, InitDefault_PosixEnv, EnvDepend_Default, filesVars, fileVars
  <2>2. QED
    BY <1>1, <2>1, UntouchedBounded
<1>3. ASSUME NEW o \in Objects, NEW f \in Names,
             \/ NewSequentialReadFile(o, f)
             \/ NewSequentialAppendFile(o, f)
             \/ NewRandomReadFile(o, f)
      PROVE  SizesInv'
  BY <1>1, <1>3, NewFileBounded
<1>4. ASSUME NEW o \in Objects, NEW n \in 1..MaxBytes,
             Read(o, n) \/ Skip(o, n) \/ AppendFile(o, n)
      PROVE  SizesInv'
  BY <1>1, <1>4, TouchBounded, AppendFileBounded
<1>5. ASSUME NEW o \in Objects, Flush(o) \/ Sync(o) \/ Close(o) \/ Delete(o)
      PROVE  SizesInv'
  BY <1>1, <1>5, BufferCallBounded, TouchBounded
<1>6. CASE Crash
  BY <1>1, <1>6, CrashBounded
<1>7. QED
  BY <1>2, <1>3, <1>4, <1>5, <1>6 DEF FilesNext

\* No mapping reaches beyond the end of its file, whatever is appended to it, however
\* often it is opened, and whatever failures and crashes happen.
THEOREM MappingsStayInFileCorrect == FilesSpec => []MappingsStayInFile
<1>1. FilesSpec => []SizesInv
  BY SizesInitInv, SizesNextInv, PTL DEF FilesSpec
<1>2. QED
  BY <1>1, SizesKeepMappings, PTL

\* For all n and offset that size_t can hold, the reads of mappings that stay inside
\* are those at an offset inside, unless the sum of the test wraps round.
THEOREM ReadsOfMappingsCorrect == FilesSpec => []ReadsOfMappings
<1>1. FilesSpec => []SizesInv
  BY SizesInitInv, SizesNextInv, PTL DEF FilesSpec
<1>2. QED
  BY <1>1, SizesKeepReads, PTL

=============================================================================

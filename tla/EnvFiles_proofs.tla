-------------------------- MODULE EnvFiles_proofs --------------------------
(***************************************************************************)
(* The environment and its files for any clients, names and finitely many  *)
(* objects, any bounds, failures and crashes.                              *)
(***************************************************************************)
EXTENDS EnvFiles, FiniteSetTheorems, TLAPS

\* The bounds are numbers.
LEMMA Bounds == MaxFds \in Nat /\ MaxBytes \in Nat
BY FilesAssumption

\* There are finitely many objects.
LEMMA ObjectsFinite == IsFiniteSet(Objects)
BY FilesAssumption

\* A file that does not exist has no content.
LEMMA NoFileIsNone == NoFile \notin Seq(Objects)
BY FilesAssumption

-----------------------------------------------------------------------------
(* Counting the bytes of an object in a file.                                *)

\* A count of bytes is a number, and no smaller for a longer prefix.
LEMMA BytesOfMonotone ==
  ASSUME NEW o, NEW s, NEW m \in Nat, NEW n \in Nat, m <= n
  PROVE  /\ BytesOf(o, s, n) \in Nat
         /\ BytesOf(o, s, m) <= BytesOf(o, s, n)
<1> DEFINE Bytes(k) == {i \in 1..k : s[i] = o}
<1>1. IsFiniteSet(Bytes(n))
  <2>1. IsFiniteSet(1..n)
    BY FS_Interval
  <2>2. QED
    BY <2>1, FS_Subset
<1>2. Cardinality(Bytes(n)) \in Nat
  BY <1>1, FS_CardinalityType
<1>3. Bytes(m) \subseteq Bytes(n)
  OBVIOUS
<1>4. Cardinality(Bytes(m)) <= Cardinality(Bytes(n))
  BY <1>1, <1>3, FS_Subset
<1>5. QED
  BY <1>2, <1>4 DEF BytesOf

\* The count depends on the prefix only.
LEMMA BytesOfSame ==
  ASSUME NEW o, NEW s, NEW t, NEW n \in Nat, \A i \in 1..n : s[i] = t[i]
  PROVE  BytesOf(o, s, n) = BytesOf(o, t, n)
<1>1. {i \in 1..n : s[i] = o} = {i \in 1..n : t[i] = o}
  OBVIOUS
<1>2. QED
  BY <1>1 DEF BytesOf

\* What Written appends is a sequence of the length it says.
LEMMA CopiesSeq ==
  ASSUME NEW o \in Objects, NEW k \in Nat
  PROVE  \A s \in Seq(Objects) :
           /\ s \o Copies(o, k) \in Seq(Objects)
           /\ Len(s \o Copies(o, k)) = Len(s) + k
           /\ \A i \in 1..Len(s) : (s \o Copies(o, k))[i] = s[i]
           /\ \A i \in (Len(s) + 1)..(Len(s) + k) : (s \o Copies(o, k))[i] = o
<1>1. Copies(o, k) \in Seq(Objects) /\ Len(Copies(o, k)) = k
  BY DEF Copies
<1>2. \A i \in 1..k : Copies(o, k)[i] = o
  BY DEF Copies
<1> HIDE DEF Copies
<1>3. QED
  BY <1>1, <1>2

\* It adds to the bytes of its object, and to those of no other.
LEMMA BytesOfWritten ==
  ASSUME NEW o \in Objects, NEW p \in Objects, NEW k \in Nat, NEW s \in Seq(Objects)
  PROVE  BytesOf(p, s \o Copies(o, k), Len(s) + k)
           = BytesOf(p, s, Len(s)) + (IF p = o THEN k ELSE 0)
<1> DEFINE t == s \o Copies(o, k)
           A == {i \in 1..Len(s) : s[i] = p}
           B == {i \in (Len(s) + 1)..(Len(s) + k) : p = o}
           C == {i \in 1..(Len(s) + k) : t[i] = p}
<1>1. Len(s) \in Nat
  OBVIOUS
<1>2. C = A \cup B
  <2>1. \A i \in 1..Len(s) : t[i] = s[i]
    BY CopiesSeq
  <2>2. \A i \in (Len(s) + 1)..(Len(s) + k) : t[i] = o
    BY CopiesSeq
  <2> HIDE DEF t
  <2>3. QED
    BY <1>1, <2>1, <2>2
<1>3. A \cap B = {}
  BY <1>1
<1>4. IsFiniteSet(A) /\ Cardinality(A) \in Nat
  <2>1. IsFiniteSet(1..Len(s))
    BY <1>1, FS_Interval
  <2>2. QED
    BY <2>1, FS_Subset, FS_CardinalityType
<1>5. IsFiniteSet(B) /\ Cardinality(B) = IF p = o THEN k ELSE 0
  <2>1. CASE p = o
    <3>1. B = (Len(s) + 1)..(Len(s) + k)
      BY <2>1
    <3>2. Len(s) + 1 \in Int /\ Len(s) + k \in Int
      BY <1>1
    <3> HIDE DEF B
    <3>3. \A a, b \in Int : IsFiniteSet(a..b) /\ Cardinality(a..b) = IF a > b THEN 0 ELSE b - a + 1
      BY FS_Interval
    <3>4. IsFiniteSet(B) /\ Cardinality(B) = k
      BY <1>1, <3>1, <3>2, <3>3
    <3>5. QED
      BY <2>1, <3>4
  <2>2. CASE p # o
    <3>1. B = {}
      BY <2>2
    <3>2. QED
      BY <2>2, <3>1, FS_EmptySet
  <2>3. QED
    BY <2>1, <2>2
<1>6. Cardinality(C) = Cardinality(A) + Cardinality(B) - Cardinality(A \cap B)
  BY <1>2, <1>4, <1>5, FS_Union
<1>7. Cardinality(A \cap B) = 0
  BY <1>3, FS_EmptySet
<1> HIDE DEF A, B, C
<1>8. Cardinality(C) = Cardinality(A) + (IF p = o THEN k ELSE 0)
  BY <1>4, <1>5, <1>6, <1>7
<1>9. QED
  BY <1>8 DEF BytesOf, A, C, t

\* Of an object that appended nothing the count is 0.
LEMMA BytesOfNone ==
  ASSUME NEW o, NEW s, NEW n \in Nat, \A i \in 1..n : s[i] # o
  PROVE  BytesOf(o, s, n) = 0
<1>1. {i \in 1..n : s[i] = o} = {}
  OBVIOUS
<1>2. QED
  BY <1>1, FS_EmptySet DEF BytesOf

-----------------------------------------------------------------------------
(* The inductive invariant.                                                  *)

\* The instance is built once, and everybody was given that one or none yet.
Once ==
  /\ default_env = IF once = "done" THEN 1 ELSE 0
  /\ \A c \in Clients : env[c] \in {0, default_env}

\* An object that is yet to be made is blank and no byte of a file is its; one that
\* was made has a file, and never more in its buffer than was appended.
Absent(o, f) == \A i \in 1..GetFileSize(f) : kernel[f][i] # o

Born(o) ==
  /\ obj[o].kind = "none" => obj[o] = NoObject /\ \A f \in Names : Absent(o, f)
  /\ obj[o].kind # "none" => obj[o].name \in Names /\ Exists(obj[o].name)
  /\ obj[o].buffer <= obj[o].appended

BytesInFile(o) == BytesOf(o, kernel[obj[o].name], GetFileSize(obj[o].name))

\* NothingLost and SyncedIsDurable, of one object.
Complete(o) ==
  obj[o].kind = "appender" /\ ~obj[o].broken =>
    obj[o].appended = obj[o].buffer + BytesInFile(o)

Durable(o) ==
  obj[o].synced > 0 =>
    obj[o].synced <= BytesOf(o, kernel[obj[o].name], disk[obj[o].name])

FilesInv ==
  /\ FilesTypeOK
  /\ Once
  /\ \A o \in Objects : Born(o) /\ Complete(o) /\ Durable(o)
  /\ DescriptorsAccounted

\* A file that exists has the size of its sequence.
LEMMA SizeOfFile ==
  ASSUME FilesTypeOK, NEW f \in Names
  PROVE  /\ GetFileSize(f) \in Nat
         /\ Exists(f) => kernel[f] \in Seq(Objects) /\ GetFileSize(f) = Len(kernel[f])
BY DEF FilesTypeOK, GetFileSize, Exists

-----------------------------------------------------------------------------
(* What Written does to the files.                                           *)

\* File g, and no other, becomes longer by k bytes of o.
GrowsBy(g, o, k) ==
  /\ \A f \in Names \ {g} : kernel'[f] = kernel[f]
  /\ kernel[g] \in Seq(Objects)
  /\ GetFileSize(g) = Len(kernel[g])
  /\ kernel'[g] = kernel[g] \o Copies(o, k)
  /\ kernel'[g] \in Seq(Objects)
  /\ GetFileSize(g)' = Len(kernel[g]) + k
  /\ \A i \in 1..Len(kernel[g]) : kernel'[g][i] = kernel[g][i]
  /\ \A i \in (Len(kernel[g]) + 1)..(Len(kernel[g]) + k) : kernel'[g][i] = o
  /\ Exists(g)'

\* It is what Written does.
LEMMA WrittenFile ==
  ASSUME FilesTypeOK, NEW o \in Objects, NEW g \in Names, g = obj[o].name, Exists(g),
         NEW k \in Nat, Written(o, k)
  PROVE  GrowsBy(g, o, k)
<1>1. kernel[g] \in Seq(Objects) /\ GetFileSize(g) = Len(kernel[g])
  BY SizeOfFile
<1>2. kernel'[g] = kernel[g] \o Copies(o, k) /\ \A f \in Names \ {g} : kernel'[f] = kernel[f]
  BY DEF Written, FilesTypeOK
<1>3. \A s \in Seq(Objects) :
        /\ s \o Copies(o, k) \in Seq(Objects)
        /\ Len(s \o Copies(o, k)) = Len(s) + k
        /\ \A i \in 1..Len(s) : (s \o Copies(o, k))[i] = s[i]
        /\ \A i \in (Len(s) + 1)..(Len(s) + k) : (s \o Copies(o, k))[i] = o
  BY CopiesSeq, Zenon
<1>4. /\ kernel'[g] \in Seq(Objects)
      /\ Len(kernel'[g]) = Len(kernel[g]) + k
      /\ \A i \in 1..Len(kernel[g]) : kernel'[g][i] = kernel[g][i]
      /\ \A i \in (Len(kernel[g]) + 1)..(Len(kernel[g]) + k) : kernel'[g][i] = o
  <2>1. /\ kernel[g] \o Copies(o, k) \in Seq(Objects)
        /\ Len(kernel[g] \o Copies(o, k)) = Len(kernel[g]) + k
        /\ \A i \in 1..Len(kernel[g]) : (kernel[g] \o Copies(o, k))[i] = kernel[g][i]
        /\ \A i \in (Len(kernel[g]) + 1)..(Len(kernel[g]) + k) :
             (kernel[g] \o Copies(o, k))[i] = o
    BY <1>1, <1>3
  <2>2. QED
    BY <1>2, <2>1, Zenon
<1>5. kernel'[g] # NoFile
  BY <1>4, NoFileIsNone
<1>6. Exists(g)' /\ GetFileSize(g)' = Len(kernel[g]) + k
  BY <1>4, <1>5 DEF Exists, GetFileSize
<1>7. QED
  BY <1>1, <1>2, <1>4, <1>6 DEF GrowsBy

\* It makes no file and takes nothing away.
LEMMA WrittenGrows ==
  ASSUME FilesTypeOK, NEW o \in Objects, NEW g \in Names, g = obj[o].name, Exists(g),
         NEW k \in Nat, Written(o, k)
  PROVE  /\ kernel' \in [Names -> {NoFile} \cup Seq(Objects)]
         /\ \A f \in Names :
              /\ Exists(f)' <=> Exists(f)
              /\ GetFileSize(f)' \in Nat
              /\ GetFileSize(f) <= GetFileSize(f)'
              /\ \A i \in 1..GetFileSize(f) : kernel'[f][i] = kernel[f][i]
<1>1. GrowsBy(g, o, k)
  BY WrittenFile
<1>2. kernel' \in [Names -> {NoFile} \cup Seq(Objects)]
  BY <1>1 DEF GrowsBy, Written, FilesTypeOK
<1>3. ASSUME NEW f \in Names
      PROVE  /\ Exists(f)' <=> Exists(f)
             /\ GetFileSize(f)' \in Nat
             /\ GetFileSize(f) <= GetFileSize(f)'
             /\ \A i \in 1..GetFileSize(f) : kernel'[f][i] = kernel[f][i]
  <2>1. CASE f = g
    BY <1>1, <2>1 DEF GrowsBy
  <2>2. CASE f # g
    <3>1. kernel'[f] = kernel[f]
      BY <1>1, <2>2 DEF GrowsBy
    <3>2. (Exists(f)' <=> Exists(f)) /\ GetFileSize(f)' = GetFileSize(f)
      BY <3>1 DEF Exists, GetFileSize
    <3>3. GetFileSize(f) \in Nat
      BY SizeOfFile
    <3>4. QED
      BY <3>1, <3>2, <3>3
  <2>3. QED
    BY <2>1, <2>2
<1>4. QED
  BY <1>2, <1>3

\* Of the bytes in the files only those of o become more.
LEMMA WrittenCounts ==
  ASSUME FilesTypeOK, NEW o \in Objects, NEW g \in Names, g = obj[o].name, Exists(g),
         NEW k \in Nat, Written(o, k)
  PROVE  /\ \A p \in Objects, f \in Names :
              p # o => /\ BytesOf(p, kernel'[f], GetFileSize(f)')
                            = BytesOf(p, kernel[f], GetFileSize(f))
                       /\ Absent(p, f) => Absent(p, f)'
         /\ BytesOf(o, kernel'[g], GetFileSize(g)') = BytesOf(o, kernel[g], GetFileSize(g)) + k
<1>1. GrowsBy(g, o, k)
  BY WrittenFile
<1>2. ASSUME NEW p \in Objects
      PROVE  BytesOf(p, kernel'[g], GetFileSize(g)')
               = BytesOf(p, kernel[g], GetFileSize(g)) + (IF p = o THEN k ELSE 0)
  <2>1. \A s \in Seq(Objects) :
          BytesOf(p, s \o Copies(o, k), Len(s) + k)
            = BytesOf(p, s, Len(s)) + (IF p = o THEN k ELSE 0)
    BY BytesOfWritten
  <2>2. BytesOf(p, kernel[g] \o Copies(o, k), Len(kernel[g]) + k)
          = BytesOf(p, kernel[g], Len(kernel[g])) + (IF p = o THEN k ELSE 0)
    BY <1>1, <2>1 DEF GrowsBy
  <2>3. QED
    BY <1>1, <2>2 DEF GrowsBy
<1>3. ASSUME NEW p \in Objects, NEW f \in Names, p # o
      PROVE  /\ BytesOf(p, kernel'[f], GetFileSize(f)')
                  = BytesOf(p, kernel[f], GetFileSize(f))
             /\ Absent(p, f) => Absent(p, f)'
  <2>1. CASE f = g
    <3>1. BytesOf(p, kernel[g], GetFileSize(g)) \in Nat
      BY SizeOfFile, BytesOfMonotone
    <3>2. BytesOf(p, kernel'[g], GetFileSize(g)') = BytesOf(p, kernel[g], GetFileSize(g))
      BY <1>2, <1>3, <3>1
    <3>3. ASSUME Absent(p, g), NEW i \in 1..GetFileSize(g)'
          PROVE  kernel'[g][i] # p
      <4>1. CASE i \in 1..Len(kernel[g])
        <5>1. kernel'[g][i] = kernel[g][i]
          BY <1>1, <4>1 DEF GrowsBy
        <5>2. kernel[g][i] # p
          BY <1>1, <3>3, <4>1 DEF GrowsBy, Absent
        <5>3. QED
          BY <5>1, <5>2
      <4>2. CASE i \in (Len(kernel[g]) + 1)..(Len(kernel[g]) + k)
        <5>1. kernel'[g][i] = o
          BY <1>1, <4>2 DEF GrowsBy
        <5>2. QED
          BY <1>3, <5>1
      <4>3. i \in 1..Len(kernel[g]) \/ i \in (Len(kernel[g]) + 1)..(Len(kernel[g]) + k)
        <5>1. Len(kernel[g]) \in Nat /\ GetFileSize(g)' = Len(kernel[g]) + k
          BY <1>1 DEF GrowsBy
        <5>2. QED
          BY <5>1
      <4>4. QED
        BY <4>1, <4>2, <4>3
    <3>4. QED
      BY <2>1, <3>2, <3>3 DEF Absent
  <2>2. CASE f # g
    BY <1>1, <2>2 DEF GrowsBy, Exists, GetFileSize, Absent
  <2>3. QED
    BY <2>1, <2>2
<1>4. BytesOf(o, kernel'[g], GetFileSize(g)') = BytesOf(o, kernel[g], GetFileSize(g)) + k
  BY <1>2
<1>5. QED
  BY <1>3, <1>4, Zenon

-----------------------------------------------------------------------------
(* A step that changes one object.                                           *)

\* No file is lost or becomes shorter, on the disk or not.
FilesGrow ==
  /\ kernel' \in [Names -> {NoFile} \cup Seq(Objects)]
  /\ disk' \in [Names -> Nat]
  /\ \A f \in Names :
       /\ Exists(f) => Exists(f)'
       /\ disk[f] <= disk'[f] /\ disk'[f] <= GetFileSize(f)'
       /\ \A i \in 1..GetFileSize(f) : kernel'[f][i] = kernel[f][i]

OthersKeepBytes(o) ==
  \A p \in Objects \ {o}, f \in Names :
    /\ Exists(f) => BytesOf(p, kernel'[f], GetFileSize(f)') = BytesOf(p, kernel[f], GetFileSize(f))
    /\ Absent(p, f) => Absent(p, f)'

\* An object whose bytes on the disk are still there remains durable.
LEMMA DurableKept ==
  ASSUME FilesInv, NEW o \in Objects, Durable(o),
         obj'[o].synced = obj[o].synced, obj'[o].name = obj[o].name, obj[o].name \in Names,
         disk'[obj[o].name] \in Nat, disk[obj[o].name] <= disk'[obj[o].name],
         \A i \in 1..disk[obj[o].name] : kernel'[obj[o].name][i] = kernel[obj[o].name][i]
  PROVE  Durable(o)'
<1> DEFINE g == obj[o].name
<1>1. disk[g] \in Nat /\ obj[o].synced \in Nat
  BY DEF FilesInv, FilesTypeOK, ObjectType, Counts
<1>2. BytesOf(o, kernel'[g], disk[g]) = BytesOf(o, kernel[g], disk[g])
  BY <1>1, BytesOfSame
<1>3. /\ BytesOf(o, kernel'[g], disk'[g]) \in Nat
      /\ BytesOf(o, kernel'[g], disk[g]) <= BytesOf(o, kernel'[g], disk'[g])
      /\ BytesOf(o, kernel'[g], disk[g]) \in Nat
  BY <1>1, BytesOfMonotone
<1>4. QED
  BY <1>1, <1>2, <1>3 DEF Durable

\* A step that changes one object and lets the files grow, without a change to the
\* bytes of the others, keeps the invariant if that object does.
LEMMA OneObjectStep ==
  ASSUME FilesInv, NEW o \in Objects, NEW new \in ObjectType, obj' = [obj EXCEPT ![o] = new],
         FilesGrow, OthersKeepBytes(o), Born(o)', Complete(o)', Durable(o)',
         UNCHANGED onceVars, fds' \in 0..MaxFds, leaked' \in 0..MaxFds,
         DescriptorsAccounted', result' \in {"SUCCESS", "SYS_ERROR"}
  PROVE  FilesInv'
<1>1. obj \in [Objects -> ObjectType] /\ obj' \in [Objects -> ObjectType]
  BY DEF FilesInv, FilesTypeOK
<1>2. FilesTypeOK'
  BY <1>1 DEF FilesInv, FilesTypeOK, FilesGrow, onceVars
<1>3. Once'
  BY DEF FilesInv, Once, onceVars
<1>4. ASSUME NEW p \in Objects, p # o
      PROVE  Born(p)' /\ Complete(p)' /\ Durable(p)'
  <2>1. obj'[p] = obj[p]
    BY <1>1, <1>4
  <2>2. Born(p)'
    BY <2>1, <1>4 DEF FilesInv, Born, FilesGrow, OthersKeepBytes
  <2>3. Complete(p)'
    BY <2>1, <1>4 DEF FilesInv, Born, Complete, BytesInFile, OthersKeepBytes
  <2>4. Durable(p)'
    <3>1. CASE obj[p].synced > 0
      <4>1. obj[p].name \in Names
        BY <3>1 DEF FilesInv, Born, NoObject
      <4>2. GetFileSize(obj[p].name) \in Nat /\ disk[obj[p].name] <= GetFileSize(obj[p].name)
        BY <4>1, SizeOfFile DEF FilesInv, FilesTypeOK
      <4>3. \A i \in 1..disk[obj[p].name] : kernel'[obj[p].name][i] = kernel[obj[p].name][i]
        <5>1. disk[obj[p].name] \in Nat
          BY <4>1 DEF FilesInv, FilesTypeOK
        <5>2. \A i \in 1..GetFileSize(obj[p].name) :
                kernel'[obj[p].name][i] = kernel[obj[p].name][i]
          BY <4>1 DEF FilesGrow
        <5>3. QED
          BY <4>2, <5>1, <5>2
      <4>4. /\ disk'[obj[p].name] \in Nat
            /\ disk[obj[p].name] <= disk'[obj[p].name]
        BY <4>1 DEF FilesGrow
      <4>5. QED
        BY <2>1, <4>1, <4>3, <4>4, DurableKept DEF FilesInv
    <3>2. CASE ~(obj[p].synced > 0)
      BY <2>1, <3>2 DEF Durable
    <3>3. QED
      BY <3>1, <3>2
  <2>5. QED
    BY <2>2, <2>3, <2>4
<1>5. QED
  BY <1>2, <1>3, <1>4 DEF FilesInv

OpenStreams == {o \in Objects : obj[o].stream = "open"}

\* How a step of one object changes the number of open streams.
LEMMA StreamsOpen ==
  ASSUME FilesInv, NEW o \in Objects, NEW new \in ObjectType, obj' = [obj EXCEPT ![o] = new]
  PROVE  /\ Cardinality(OpenStreams) \in Nat
         /\ fds = leaked + Cardinality(OpenStreams)
         /\ (new.stream = "open") = (obj[o].stream = "open")
              => Cardinality(OpenStreams') = Cardinality(OpenStreams)
         /\ new.stream = "open" /\ obj[o].stream # "open"
              => Cardinality(OpenStreams') = Cardinality(OpenStreams) + 1
         /\ new.stream # "open" /\ obj[o].stream = "open"
              => /\ Cardinality(OpenStreams) > 0
                 /\ Cardinality(OpenStreams') = Cardinality(OpenStreams) - 1
<1>1. IsFiniteSet(OpenStreams)
  BY ObjectsFinite, FS_Subset DEF OpenStreams
<1>2. Cardinality(OpenStreams) \in Nat
  BY <1>1, FS_CardinalityType
<1>3. obj \in [Objects -> ObjectType]
  BY DEF FilesInv, FilesTypeOK
<1>4. fds = leaked + Cardinality(OpenStreams)
  BY DEF FilesInv, DescriptorsAccounted, OpenStreams
<1>5. ASSUME (new.stream = "open") = (obj[o].stream = "open")
      PROVE  OpenStreams' = OpenStreams
  BY <1>3, <1>5 DEF OpenStreams
<1>6. ASSUME new.stream = "open", obj[o].stream # "open"
      PROVE  Cardinality(OpenStreams') = Cardinality(OpenStreams) + 1
  <2>1. OpenStreams' = OpenStreams \cup {o} /\ o \notin OpenStreams
    BY <1>3, <1>6 DEF OpenStreams
  <2>2. QED
    BY <1>1, <2>1, FS_AddElement
<1>7. ASSUME new.stream # "open", obj[o].stream = "open"
      PROVE  /\ Cardinality(OpenStreams) > 0
             /\ Cardinality(OpenStreams') = Cardinality(OpenStreams) - 1
  <2>1. OpenStreams' = OpenStreams \ {o} /\ o \in OpenStreams
    BY <1>3, <1>7 DEF OpenStreams
  <2>2. Cardinality(OpenStreams') = Cardinality(OpenStreams) - 1
    BY <1>1, <2>1, FS_RemoveElement
  <2>3. Cardinality(OpenStreams) # 0
    BY <1>1, <2>1, FS_EmptySet
  <2>4. QED
    BY <1>2, <2>2, <2>3
<1>8. QED
  BY <1>2, <1>4, <1>5, <1>6, <1>7

-----------------------------------------------------------------------------
(* The appender.                                                             *)

\* k bytes of o go to the kernel, and what o becomes accounts for them unless a write
\* has failed; it stays durable, or no more is vouched for than is on the disk.
LEMMA AppenderStep ==
  ASSUME FilesInv, NEW o \in Objects, Appends(o), NEW k \in Nat, Written(o, k),
         NEW new \in ObjectType, obj' = [obj EXCEPT ![o] = new],
         new.kind = "appender", new.name = obj[o].name, new.buffer <= new.appended,
         ~new.broken => /\ ~obj[o].broken
                        /\ new.appended - new.buffer = obj[o].appended - obj[o].buffer + k,
         disk' \in [Names -> Nat],
         \A f \in Names : disk[f] <= disk'[f] /\ disk'[f] <= GetFileSize(f)',
         \/ new.synced = obj[o].synced
         \/ /\ disk'[obj[o].name] = Len(kernel'[obj[o].name])
            /\ ~new.broken /\ new.synced = new.appended /\ new.buffer = 0,
         fds' = IF new.stream = "open" THEN fds ELSE fds - 1,
         result' \in {"SUCCESS", "SYS_ERROR"}
  PROVE  FilesInv'
<1> DEFINE g == obj[o].name
<1>1. obj[o] \in ObjectType /\ g \in Names /\ Exists(g) /\ FilesTypeOK
  BY DEF FilesInv, FilesTypeOK, Born, Appends, Uses
<1>2. obj'[o] = new
  BY DEF FilesInv, FilesTypeOK
<1>3. FilesGrow
  BY <1>1, WrittenGrows, SizeOfFile DEF FilesGrow
<1>4. OthersKeepBytes(o)
  BY <1>1, WrittenCounts DEF OthersKeepBytes
<1>5. /\ BytesOf(o, kernel'[g], GetFileSize(g)') = BytesOf(o, kernel[g], GetFileSize(g)) + k
      /\ BytesOf(o, kernel[g], GetFileSize(g)) \in Nat
  BY <1>1, WrittenCounts, SizeOfFile, BytesOfMonotone
<1>6. Born(o)'
  BY <1>1, <1>2, <1>3 DEF Born, FilesGrow
<1>7. Complete(o)'
  <2>1. /\ obj[o].appended \in Nat /\ obj[o].buffer \in Nat
        /\ new.appended \in Nat /\ new.buffer \in Nat
    BY <1>1, Bounds DEF ObjectType, Counts
  <2>2. ~obj[o].broken => obj[o].appended = obj[o].buffer + BytesOf(o, kernel[g], GetFileSize(g))
    BY DEF FilesInv, Complete, BytesInFile, Appends, Uses
  <2>3. ~new.broken => new.appended = new.buffer + BytesOf(o, kernel'[g], GetFileSize(g)')
    BY <1>5, <2>1, <2>2
  <2>4. BytesInFile(o)' = BytesOf(o, kernel'[g], GetFileSize(g)')
    BY <1>2 DEF BytesInFile
  <2>5. QED
    BY <1>2, <2>3, <2>4 DEF Complete
<1>8. Durable(o)'
  <2>1. CASE new.synced = obj[o].synced
    <3>1. disk[g] \in Nat /\ disk[g] <= GetFileSize(g) /\ GetFileSize(g) \in Nat
      BY <1>1, SizeOfFile DEF FilesTypeOK
    <3>2. \A i \in 1..GetFileSize(g) : kernel'[g][i] = kernel[g][i]
      BY <1>1, <1>3 DEF FilesGrow
    <3>3. disk'[g] \in Nat /\ disk[g] <= disk'[g]
      BY <1>1
    <3>4. \A i \in 1..disk[g] : kernel'[g][i] = kernel[g][i]
      BY <3>1, <3>2
    <3>5. QED
      BY <1>1, <1>2, <2>1, <3>3, <3>4, DurableKept DEF FilesInv
  <2>2. CASE /\ disk'[g] = Len(kernel'[g])
             /\ ~new.broken /\ new.synced = new.appended /\ new.buffer = 0
    <3>1. GetFileSize(g)' = disk'[g]
      BY <1>1, <1>3, <2>2 DEF FilesGrow, GetFileSize
    <3>2. new.appended = BytesOf(o, kernel'[g], GetFileSize(g)')
      BY <1>2, <1>7, <2>2, <1>5 DEF Complete, BytesInFile, ObjectType, Counts
    <3>3. QED
      BY <1>2, <1>5, <2>2, <3>1, <3>2 DEF Durable, ObjectType, Counts
  <2>3. QED
    BY <2>1, <2>2
<1>9. DescriptorsAccounted' /\ fds' \in 0..MaxFds /\ leaked' \in 0..MaxFds
  <2>1. obj[o].stream = "open" /\ leaked' = leaked
    BY DEF Appends, Uses
  <2>2. fds \in 0..MaxFds /\ leaked \in 0..MaxFds
    BY <1>1 DEF FilesTypeOK
  <2>3. /\ Cardinality(OpenStreams) \in Nat
        /\ fds = leaked + Cardinality(OpenStreams)
        /\ new.stream = "open" => Cardinality(OpenStreams') = Cardinality(OpenStreams)
        /\ new.stream # "open" => /\ Cardinality(OpenStreams) > 0
                                  /\ Cardinality(OpenStreams') = Cardinality(OpenStreams) - 1
    BY <2>1, StreamsOpen
  <2>4. fds' = leaked' + Cardinality(OpenStreams') /\ fds' \in 0..MaxFds
    <3>1. CASE new.stream = "open"
      BY <2>1, <2>2, <2>3, <3>1
    <3>2. CASE new.stream # "open"
      <4>1. Cardinality(OpenStreams') = Cardinality(OpenStreams) - 1 /\ fds' = fds - 1
        BY <2>3, <3>2
      <4>2. Cardinality(OpenStreams) > 0
        BY <2>3, <3>2
      <4>3. QED
        BY <2>1, <2>2, <2>3, <4>1, <4>2, Bounds
    <3>3. QED
      BY <3>1, <3>2
  <2>5. QED
    BY <2>1, <2>2, <2>4 DEF DescriptorsAccounted, OpenStreams
<1>10. QED
  BY <1>3, <1>4, <1>6, <1>7, <1>8, <1>9, OneObjectStep DEF Appends, Uses

\* When the files grow, what is on the disk remains a part of them.
LEMMA DiskBelow ==
  ASSUME FilesInv, NEW o \in Objects, Appends(o), NEW k \in Nat, Written(o, k),
         UNCHANGED disk
  PROVE  /\ disk' \in [Names -> Nat]
         /\ \A f \in Names : disk[f] <= disk'[f] /\ disk'[f] <= GetFileSize(f)'
<1>1. FilesTypeOK /\ obj[o].name \in Names /\ Exists(obj[o].name)
  BY DEF FilesInv, Born, Appends, Uses
<1>2. \A f \in Names : GetFileSize(f) <= GetFileSize(f)' /\ GetFileSize(f)' \in Nat
  BY <1>1, WrittenGrows
<1>3. \A f \in Names : GetFileSize(f) \in Nat
  BY <1>1, SizeOfFile
<1>4. QED
  BY <1>1, <1>2, <1>3 DEF FilesTypeOK

\* What the calls of an appender find.
LEMMA AppenderFound ==
  ASSUME FilesInv, NEW o \in Objects, Appends(o)
  PROVE  /\ obj[o] \in ObjectType
         /\ obj[o].kind = "appender" /\ obj[o].stream = "open"
         /\ obj[o].name \in Names /\ Exists(obj[o].name)
         /\ obj[o].buffer \in Counts /\ obj[o].appended \in Counts /\ obj[o].synced \in Counts
         /\ obj[o].buffer <= obj[o].appended
         /\ Counts \subseteq Nat
BY Bounds DEF FilesInv, FilesTypeOK, ObjectType, Born, Appends, Uses, Counts

\* A write that fails, whether the stream is kept or closed, and however many of the
\* new bytes fwrite counted before it did.
LEMMA WriteFailsStep ==
  ASSUME FilesInv, NEW o \in Objects, Appends(o), NEW stream \in {"open", "stale"},
         NEW m \in Nat, obj[o].appended + m <= MaxBytes,
         WriteFails(o, m, stream), fds' = IF stream = "open" THEN fds ELSE fds - 1
  PROVE  FilesInv'
<1>1. /\ obj[o] \in ObjectType /\ obj[o].kind = "appender" /\ obj[o].buffer <= obj[o].appended
      /\ obj[o].buffer \in Nat /\ obj[o].appended \in Nat /\ MaxBytes \in Nat
  BY AppenderFound, Bounds
<1>2. PICK k \in 0..(obj[o].buffer + m) :
        /\ Written(o, k)
        /\ \E rest \in 0..(obj[o].buffer + m - k) :
             obj' = [obj EXCEPT ![o].buffer = rest, ![o].appended = @ + m,
                                ![o].broken = TRUE, ![o].stream = stream]
  BY DEF WriteFails
<1>3. PICK rest \in 0..(obj[o].buffer + m - k) :
        obj' = [obj EXCEPT ![o].buffer = rest, ![o].appended = @ + m,
                           ![o].broken = TRUE, ![o].stream = stream]
  BY <1>2
<1>4. PICK appended \in Nat : appended = obj[o].appended + m
  BY <1>1
<1> DEFINE new == [obj[o] EXCEPT !.buffer = rest, !.appended = appended,
                                 !.broken = TRUE, !.stream = stream]
<1>5. obj' = [obj EXCEPT ![o] = new]
  BY <1>3, <1>4 DEF FilesInv, FilesTypeOK
<1>6. /\ k \in Nat /\ rest \in Counts /\ appended \in Counts /\ rest <= appended
  BY <1>1, <1>2, <1>3, <1>4 DEF Counts
<1>7. /\ new \in ObjectType
      /\ new.kind = "appender" /\ new.name = obj[o].name /\ new.buffer <= new.appended
      /\ new.broken /\ new.synced = obj[o].synced /\ new.stream = stream
  <2>1. new \in ObjectType
    BY <1>1, <1>6 DEF ObjectType
  <2>2. /\ new.buffer = rest /\ new.broken /\ new.stream = stream
        /\ new.kind = obj[o].kind /\ new.name = obj[o].name
        /\ new.appended = appended /\ new.synced = obj[o].synced
    BY <1>1 DEF ObjectType
  <2>3. QED
    BY <1>1, <1>6, <2>1, <2>2, Zenon
<1>8. /\ disk' \in [Names -> Nat]
      /\ \A f \in Names : disk[f] <= disk'[f] /\ disk'[f] <= GetFileSize(f)'
  BY <1>2, <1>6, DiskBelow DEF WriteFails
<1>9. result' \in {"SUCCESS", "SYS_ERROR"}
  BY DEF WriteFails
<1> HIDE DEF new
<1>10. QED
  BY <1>2, <1>5, <1>6, <1>7, <1>8, <1>9, AppenderStep

\* One that accepts no new byte: the calls that write the buffer.
LEMMA BufferFailsStep ==
  ASSUME FilesInv, NEW o \in Objects, Appends(o), NEW stream \in {"open", "stale"},
         WriteFails(o, 0, stream), fds' = IF stream = "open" THEN fds ELSE fds - 1
  PROVE  FilesInv'
<1>1. PICK m \in Nat : m = 0
  OBVIOUS
<1>2. obj[o].appended \in 0..MaxBytes
  BY AppenderFound DEF Counts
<1>3. WriteFails(o, m, stream)
  BY <1>1
<1>4. obj[o].appended + m <= MaxBytes
  BY <1>1, <1>2, Bounds
<1>5. QED
  BY <1>3, <1>4, WriteFailsStep

\* Append: any part of the buffer may go to the file at once.
LEMMA AppendFileStep ==
  ASSUME FilesInv, NEW o \in Objects, NEW n \in 1..MaxBytes, AppendFile(o, n)
  PROVE  FilesInv'
<1>1. Appends(o) /\ fds' = fds /\ n \in Nat /\ obj[o].appended + n <= MaxBytes
  BY Bounds DEF AppendFile
<1>2. ASSUME NEW m \in 0..(n - 1), WriteFails(o, m, "open")
      PROVE  FilesInv'
  <2>1. obj[o].appended \in Nat /\ m \in Nat /\ m < n /\ MaxBytes \in Nat
    BY <1>1, AppenderFound, Bounds
  <2>2. obj[o].appended + m <= MaxBytes
    BY <1>1, <2>1
  <2>3. QED
    BY <1>1, <1>2, <2>1, <2>2, WriteFailsStep
<1>3. ASSUME NEW k \in 0..(obj[o].buffer + n), Written(o, k),
             obj' = [obj EXCEPT ![o].buffer = @ + n - k, ![o].appended = @ + n],
             result' = "SUCCESS", UNCHANGED disk
      PROVE  FilesInv'
  <2> DEFINE new == [obj[o] EXCEPT !.buffer = @ + n - k, !.appended = @ + n]
  <2>1. obj' = [obj EXCEPT ![o] = new]
    BY <1>3 DEF FilesInv, FilesTypeOK
  <2>2. k \in Nat /\ k <= obj[o].buffer + n
    BY <1>1, AppenderFound
  <2>3. /\ obj[o].buffer + n - k \in Counts /\ obj[o].appended + n \in Counts
        /\ obj[o].buffer + n - k <= obj[o].appended + n
    <3>1. /\ obj[o].buffer \in Nat /\ obj[o].appended \in Nat
          /\ obj[o].buffer <= obj[o].appended
      BY <1>1, AppenderFound
    <3>2. QED
      BY <1>1, <2>2, <3>1, Bounds DEF Counts
  <2>4. new \in ObjectType
    BY <1>1, <2>3, AppenderFound DEF ObjectType
  <2>5. /\ new.buffer = obj[o].buffer + n - k /\ new.appended = obj[o].appended + n
        /\ new.kind = obj[o].kind /\ new.name = obj[o].name /\ new.stream = obj[o].stream
        /\ new.broken = obj[o].broken /\ new.synced = obj[o].synced
    BY <1>1, AppenderFound DEF ObjectType
  <2>6. /\ disk' \in [Names -> Nat]
        /\ \A f \in Names : disk[f] <= disk'[f] /\ disk'[f] <= GetFileSize(f)'
    BY <1>1, <1>3, <2>2, DiskBelow
  <2> HIDE DEF new
  <2>7. new.appended - new.buffer = obj[o].appended - obj[o].buffer + k
    BY <1>1, <2>2, <2>5, AppenderFound
  <2>8. new.kind = "appender" /\ new.stream = "open" /\ new.buffer <= new.appended
    BY <1>1, <2>3, <2>5, AppenderFound
  <2>9. /\ ~new.broken => /\ ~obj[o].broken
                           /\ new.appended - new.buffer = obj[o].appended - obj[o].buffer + k
        /\ fds' = IF new.stream = "open" THEN fds ELSE fds - 1
        /\ result' \in {"SUCCESS", "SYS_ERROR"}
    BY <1>1, <1>3, <2>5, <2>7, <2>8
  <2>10. QED
    BY <1>1, <1>3, <2>1, <2>2, <2>4, <2>5, <2>6, <2>8, <2>9, AppenderStep
<1>4. QED
  BY <1>2, <1>3 DEF AppendFile

\* Flush: the whole buffer goes to the file.
LEMMA FlushStep ==
  ASSUME FilesInv, NEW o \in Objects, Flush(o)
  PROVE  FilesInv'
<1>1. Appends(o) /\ fds' = fds
  BY DEF Flush
<1>2. CASE WriteFails(o, 0, "open")
  BY <1>1, <1>2, BufferFailsStep
<1>3. ASSUME Written(o, obj[o].buffer), obj' = [obj EXCEPT ![o].buffer = 0],
             result' = "SUCCESS", UNCHANGED disk
      PROVE  FilesInv'
  <2> DEFINE new == [obj[o] EXCEPT !.buffer = 0]
  <2>1. obj' = [obj EXCEPT ![o] = new]
    BY <1>3 DEF FilesInv, FilesTypeOK
  <2>2. new \in ObjectType
    <3>1. 0 \in Counts
      BY Bounds DEF Counts
    <3>2. QED
      BY <1>1, <3>1, AppenderFound DEF ObjectType
  <2>3. /\ new.buffer = 0 /\ new.appended = obj[o].appended
        /\ new.kind = obj[o].kind /\ new.name = obj[o].name /\ new.stream = obj[o].stream
        /\ new.broken = obj[o].broken /\ new.synced = obj[o].synced
    BY <1>1, AppenderFound DEF ObjectType
  <2>4. PICK k \in Nat : k = obj[o].buffer /\ Written(o, k)
    BY <1>1, <1>3, AppenderFound
  <2>5. /\ disk' \in [Names -> Nat]
        /\ \A f \in Names : disk[f] <= disk'[f] /\ disk'[f] <= GetFileSize(f)'
    BY <1>1, <1>3, <2>4, DiskBelow
  <2> HIDE DEF new
  <2>6. new.appended - new.buffer = obj[o].appended - obj[o].buffer + k
    BY <1>1, <2>3, <2>4, AppenderFound
  <2>7. new.kind = "appender" /\ new.stream = "open" /\ new.buffer <= new.appended
    BY <1>1, <2>3, AppenderFound
  <2>8. /\ ~new.broken => /\ ~obj[o].broken
                           /\ new.appended - new.buffer = obj[o].appended - obj[o].buffer + k
        /\ fds' = IF new.stream = "open" THEN fds ELSE fds - 1
        /\ result' \in {"SUCCESS", "SYS_ERROR"}
    BY <1>1, <1>3, <2>3, <2>6, <2>7
  <2>9. QED
    BY <1>1, <2>1, <2>2, <2>3, <2>4, <2>5, <2>7, <2>8, AppenderStep
<1>4. QED
  BY <1>2, <1>3 DEF Flush

\* Close: the buffer goes to the file and the descriptor is given back.
LEMMA CloseStep ==
  ASSUME FilesInv, NEW o \in Objects, Close(o)
  PROVE  FilesInv'
<1>1. Appends(o) /\ fds' = fds - 1
  BY DEF Close
<1>2. CASE WriteFails(o, 0, "stale")
  BY <1>1, <1>2, BufferFailsStep
<1>3. ASSUME Written(o, obj[o].buffer),
             obj' = [obj EXCEPT ![o].buffer = 0, ![o].stream = "NULL"],
             result' = "SUCCESS", UNCHANGED disk
      PROVE  FilesInv'
  <2> DEFINE new == [obj[o] EXCEPT !.buffer = 0, !.stream = "NULL"]
  <2>1. obj' = [obj EXCEPT ![o] = new]
    BY <1>3 DEF FilesInv, FilesTypeOK
  <2>2. new \in ObjectType
    <3>1. 0 \in Counts
      BY Bounds DEF Counts
    <3>2. QED
      BY <1>1, <3>1, AppenderFound DEF ObjectType
  <2>3. /\ new.buffer = 0 /\ new.appended = obj[o].appended
        /\ new.kind = obj[o].kind /\ new.name = obj[o].name /\ new.stream = "NULL"
        /\ new.broken = obj[o].broken /\ new.synced = obj[o].synced
    BY <1>1, AppenderFound DEF ObjectType
  <2>4. PICK k \in Nat : k = obj[o].buffer /\ Written(o, k)
    BY <1>1, <1>3, AppenderFound
  <2>5. /\ disk' \in [Names -> Nat]
        /\ \A f \in Names : disk[f] <= disk'[f] /\ disk'[f] <= GetFileSize(f)'
    BY <1>1, <1>3, <2>4, DiskBelow
  <2> HIDE DEF new
  <2>6. new.appended - new.buffer = obj[o].appended - obj[o].buffer + k
    BY <1>1, <2>3, <2>4, AppenderFound
  <2>7. new.kind = "appender" /\ new.stream # "open" /\ new.buffer <= new.appended
    BY <1>1, <2>3, AppenderFound
  <2>8. /\ ~new.broken => /\ ~obj[o].broken
                           /\ new.appended - new.buffer = obj[o].appended - obj[o].buffer + k
        /\ fds' = IF new.stream = "open" THEN fds ELSE fds - 1
        /\ result' \in {"SUCCESS", "SYS_ERROR"}
    BY <1>1, <1>3, <2>3, <2>6, <2>7
  <2>9. QED
    BY <1>1, <2>1, <2>2, <2>3, <2>4, <2>5, <2>7, <2>8, AppenderStep
<1>4. QED
  BY <1>2, <1>3 DEF Close, ClosedWritten

\* Sync: the buffer goes to the file, and the file to the disk unless fsync fails.
LEMMA SyncStep ==
  ASSUME FilesInv, NEW o \in Objects, Sync(o)
  PROVE  FilesInv'
<1>1. Appends(o) /\ fds' = fds
  BY DEF Sync
<1>2. CASE WriteFails(o, 0, "open")
  BY <1>1, <1>2, BufferFailsStep
<1>3. ASSUME Written(o, obj[o].buffer), NEW synced \in {obj[o].synced, obj[o].appended},
             obj' = [obj EXCEPT ![o].buffer = @ - obj[o].buffer, ![o].synced = synced],
             \/ synced = obj[o].synced /\ UNCHANGED disk
             \/ /\ synced = obj[o].synced \/ (~obj[o].broken /\ synced = obj[o].appended)
                /\ disk' = [disk EXCEPT ![obj[o].name] = Len(kernel'[obj[o].name])],
             result' \in {"SUCCESS", "SYS_ERROR"}
      PROVE  FilesInv'
  <2> DEFINE new == [obj[o] EXCEPT !.buffer = @ - obj[o].buffer, !.synced = synced]
             g == obj[o].name
  <2>1. obj' = [obj EXCEPT ![o] = new]
    BY <1>3 DEF FilesInv, FilesTypeOK
  <2>2. new \in ObjectType
    <3>1. obj[o].buffer - obj[o].buffer \in Counts
      BY <1>1, AppenderFound, Bounds DEF Counts
    <3>2. synced \in Counts
      BY <1>1, <1>3, AppenderFound
    <3>3. QED
      BY <1>1, <3>1, <3>2, AppenderFound DEF ObjectType
  <2>3. /\ new.buffer = 0 /\ new.appended = obj[o].appended
        /\ new.kind = obj[o].kind /\ new.name = obj[o].name /\ new.stream = obj[o].stream
        /\ new.broken = obj[o].broken /\ new.synced = synced
    <3>1. obj[o].buffer - obj[o].buffer = 0
      BY <1>1, AppenderFound
    <3>2. QED
      BY <1>1, <3>1, AppenderFound DEF ObjectType
  <2>4. PICK k \in Nat : k = obj[o].buffer /\ Written(o, k)
    BY <1>1, <1>3, AppenderFound
  <2>5. /\ disk' \in [Names -> Nat]
        /\ \A f \in Names : disk[f] <= disk'[f] /\ disk'[f] <= GetFileSize(f)'
    <3>1. CASE UNCHANGED disk
      BY <1>1, <2>4, <3>1, DiskBelow
    <3>2. CASE disk' = [disk EXCEPT ![g] = Len(kernel'[g])]
      <4> PICK h \in Names : h = g
        BY <1>1, AppenderFound
      <4>1. FilesTypeOK /\ h = obj[o].name /\ Exists(h)
        BY <1>1, AppenderFound DEF FilesInv
      <4>2. \A f \in Names : GetFileSize(f) <= GetFileSize(f)' /\ GetFileSize(f)' \in Nat
        BY <2>4, <4>1, WrittenGrows
      <4>3. Exists(h)'
        BY <2>4, <4>1, WrittenGrows
      <4>4. \A f \in Names : disk[f] \in Nat /\ disk[f] <= GetFileSize(f) /\ GetFileSize(f) \in Nat
        BY <4>1, SizeOfFile DEF FilesTypeOK
      <4>5. Len(kernel'[h]) \in Nat
        BY <2>4, <4>1, WrittenFile DEF GrowsBy
      <4>6. disk'[h] = Len(kernel'[h]) /\ \A f \in Names \ {h} : disk'[f] = disk[f]
        BY <3>2, <4>1 DEF FilesTypeOK
      <4>7. disk' \in [Names -> Nat]
        BY <3>2, <4>1, <4>5 DEF FilesTypeOK
      <4>8. ASSUME NEW f \in Names
            PROVE  disk[f] <= disk'[f] /\ disk'[f] <= GetFileSize(f)'
        <5>1. CASE f = h
          <6>1. GetFileSize(h)' = Len(kernel'[h])
            BY <4>3 DEF GetFileSize, Exists
          <6>2. QED
            BY <4>1, <4>2, <4>4, <4>6, <5>1, <6>1
        <5>2. CASE f # h
          BY <4>2, <4>4, <4>6, <5>2
        <5>3. QED
          BY <5>1, <5>2
      <4>9. QED
        BY <4>7, <4>8
    <3>3. QED
      BY <1>3, <3>1, <3>2
  <2>6. \/ new.synced = obj[o].synced
        \/ /\ disk'[g] = Len(kernel'[g])
           /\ ~new.broken /\ new.synced = new.appended /\ new.buffer = 0
    <3>1. g \in Names /\ disk \in [Names -> Nat]
      BY <1>1, AppenderFound DEF FilesInv, FilesTypeOK
    <3>2. QED
      BY <1>3, <2>3, <3>1
  <2> HIDE DEF new
  <2>7. new.appended - new.buffer = obj[o].appended - obj[o].buffer + k
    BY <1>1, <2>3, <2>4, AppenderFound
  <2>8. new.kind = "appender" /\ new.stream = "open" /\ new.buffer <= new.appended
    BY <1>1, <2>3, AppenderFound
  <2>9. /\ ~new.broken => /\ ~obj[o].broken
                          /\ new.appended - new.buffer = obj[o].appended - obj[o].buffer + k
        /\ fds' = IF new.stream = "open" THEN fds ELSE fds - 1
        /\ result' \in {"SUCCESS", "SYS_ERROR"}
    BY <1>1, <1>3, <2>3, <2>7, <2>8
  <2>10. QED
    BY <1>1, <2>1, <2>2, <2>3, <2>4, <2>5, <2>6, <2>8, <2>9, AppenderStep
<1>4. CASE /\ Written(o, obj[o].buffer)
           /\ disk' = [disk EXCEPT ![obj[o].name] = Len(kernel'[obj[o].name])]
           /\ obj' = [obj EXCEPT ![o].buffer = @ - obj[o].buffer,
                                 ![o].synced = IF obj[o].broken THEN @ ELSE obj[o].appended]
           /\ result' = "SUCCESS"
  <2>1. CASE obj[o].broken
    <3>1. obj' = [obj EXCEPT ![o].buffer = @ - obj[o].buffer, ![o].synced = obj[o].synced]
      BY <1>4, <2>1
    <3>2. QED
      BY <1>3, <1>4, <3>1
  <2>2. CASE ~obj[o].broken
    <3>1. obj' = [obj EXCEPT ![o].buffer = @ - obj[o].buffer, ![o].synced = obj[o].appended]
      BY <1>4, <2>2
    <3>2. QED
      BY <1>3, <1>4, <2>2, <3>1
  <2>3. QED
    BY <2>1, <2>2
<1>5. CASE /\ Written(o, obj[o].buffer)
           /\ obj' = [obj EXCEPT ![o].buffer = @ - obj[o].buffer]
           /\ result' = "SYS_ERROR"
           /\ UNCHANGED disk
  <2>1. obj' = [obj EXCEPT ![o].buffer = @ - obj[o].buffer, ![o].synced = obj[o].synced]
    BY <1>1, <1>5, AppenderFound DEF FilesInv, FilesTypeOK, ObjectType
  <2>2. QED
    BY <1>3, <1>5, <2>1
<1>6. QED
  BY <1>2, <1>4, <1>5 DEF Sync, Flushed

-----------------------------------------------------------------------------
(* Steps that leave the files alone, and those that make an object.          *)

\* A step that leaves objects and files as they are.
LEMMA NoObjectStep ==
  ASSUME FilesInv, UNCHANGED <<obj, kernel, disk>>,
         once' \in {"init", "running", "done"}, default_env' \in Nat,
         env' \in [Clients -> Nat], Once',
         fds' \in 0..MaxFds, leaked' \in 0..MaxFds, fds' - leaked' = fds - leaked,
         result' \in {"SUCCESS", "SYS_ERROR"}
  PROVE  FilesInv'
<1>1. FilesTypeOK'
  BY DEF FilesInv, FilesTypeOK, GetFileSize, Exists
<1>2. ASSUME NEW o \in Objects
      PROVE  Born(o)' /\ Complete(o)' /\ Durable(o)'
  <2>1. Born(o)'
    BY DEF FilesInv, Born, Absent, Exists, GetFileSize
  <2>2. Complete(o)'
    BY DEF FilesInv, Complete, BytesInFile, GetFileSize, Exists
  <2>3. Durable(o)'
    BY DEF FilesInv, Durable
  <2>4. QED
    BY <2>1, <2>2, <2>3
<1>3. DescriptorsAccounted'
  <2>1. Cardinality(OpenStreams) \in Nat
    BY ObjectsFinite, FS_Subset, FS_CardinalityType DEF OpenStreams
  <2>2. fds \in Nat /\ leaked \in Nat /\ fds' \in Nat /\ leaked' \in Nat
    BY Bounds DEF FilesInv, FilesTypeOK
  <2>3. fds = leaked + Cardinality(OpenStreams)
    BY DEF FilesInv, DescriptorsAccounted, OpenStreams
  <2>4. fds' = leaked' + Cardinality(OpenStreams)
    BY <2>1, <2>2, <2>3
  <2>5. QED
    BY <2>4 DEF DescriptorsAccounted, OpenStreams
<1>4. QED
  BY <1>1, <1>2, <1>3 DEF FilesInv

\* Unless it changes, a file keeps everybody's bytes.
LEMMA FilesStay ==
  ASSUME FilesInv, UNCHANGED <<kernel, disk>>, NEW o \in Objects
  PROVE  FilesGrow /\ OthersKeepBytes(o)
<1>1. FilesTypeOK
  BY DEF FilesInv
<1>2. FilesGrow
  BY <1>1 DEF FilesTypeOK, FilesGrow, Exists, GetFileSize
<1>3. OthersKeepBytes(o)
  BY DEF OthersKeepBytes, Absent, Exists, GetFileSize, BytesOf
<1>4. QED
  BY <1>2, <1>3

\* A call that only moves the position of an object or marks it as deleted.
LEMMA TouchStep ==
  ASSUME FilesInv, NEW o \in Objects, obj[o].kind # "none",
         NEW pos \in Nat, NEW deleted \in BOOLEAN,
         obj' = [obj EXCEPT ![o].pos = pos, ![o].deleted = deleted],
         UNCHANGED <<onceVars, fds, leaked, kernel, disk>>,
         result' \in {"SUCCESS", "SYS_ERROR"}
  PROVE  FilesInv'
<1> DEFINE new == [obj[o] EXCEPT !.pos = pos, !.deleted = deleted]
<1>1. obj[o] \in ObjectType /\ obj \in [Objects -> ObjectType]
  BY DEF FilesInv, FilesTypeOK
<1>2. obj' = [obj EXCEPT ![o] = new] /\ obj'[o] = new
  BY <1>1
<1>3. new \in ObjectType
  BY <1>1 DEF ObjectType
<1>4. /\ new.kind = obj[o].kind /\ new.name = obj[o].name /\ new.stream = obj[o].stream
      /\ new.buffer = obj[o].buffer /\ new.appended = obj[o].appended
      /\ new.synced = obj[o].synced /\ new.broken = obj[o].broken
  BY <1>1 DEF ObjectType
<1> HIDE DEF new
<1>5. Born(o)'
  BY <1>2, <1>4 DEF FilesInv, Born, Exists
<1>6. Complete(o)'
  BY <1>2, <1>4 DEF FilesInv, Complete, BytesInFile, GetFileSize, Exists
<1>7. Durable(o)'
  BY <1>2, <1>4 DEF FilesInv, Durable
<1>8. DescriptorsAccounted'
  BY <1>2, <1>3, <1>4, StreamsOpen DEF DescriptorsAccounted, OpenStreams
<1>9. fds' \in 0..MaxFds /\ leaked' \in 0..MaxFds /\ UNCHANGED onceVars
  BY DEF FilesInv, FilesTypeOK
<1>10. FilesGrow /\ OthersKeepBytes(o)
  BY FilesStay
<1>11. QED
  BY <1>2, <1>3, <1>5, <1>6, <1>7, <1>8, <1>9, <1>10, OneObjectStep

\* Read moves the position, at most to the end.
LEMMA ReadStep ==
  ASSUME FilesInv, NEW o \in Objects, NEW n \in 1..MaxBytes, Read(o, n)
  PROVE  FilesInv'
<1>1. obj[o] \in ObjectType /\ obj \in [Objects -> ObjectType] /\ obj[o].kind # "none"
  BY DEF FilesInv, FilesTypeOK, Read, Uses
<1>2. obj[o].name \in Names
  BY <1>1 DEF FilesInv, Born
<1>3. obj[o].pos \in Nat /\ n \in Nat /\ Ahead(o) \in Nat
  BY <1>1, <1>2, SizeOfFile, Bounds DEF ObjectType, Ahead, FilesInv
<1>4. PICK k \in 0..(IF n < Ahead(o) THEN n ELSE Ahead(o)) :
        obj' = [obj EXCEPT ![o].pos = @ + k]
  BY DEF Read
<1>5. PICK pos \in Nat : obj' = [obj EXCEPT ![o].pos = pos, ![o].deleted = obj[o].deleted]
  <2>1. obj[o].pos + k \in Nat
    BY <1>3
  <2>2. obj' = [obj EXCEPT ![o].pos = obj[o].pos + k, ![o].deleted = obj[o].deleted]
    BY <1>1, <1>4 DEF ObjectType
  <2>3. QED
    BY <2>1, <2>2
<1>6. obj[o].deleted \in BOOLEAN
  BY <1>1 DEF ObjectType
<1>7. QED
  BY <1>1, <1>5, <1>6, TouchStep DEF Read, Uses, FilesInv, FilesTypeOK

\* Skip moves it, or fails.
LEMMA SkipStep ==
  ASSUME FilesInv, NEW o \in Objects, NEW n \in 1..MaxBytes, Skip(o, n)
  PROVE  FilesInv'
<1>1. obj[o] \in ObjectType /\ obj \in [Objects -> ObjectType] /\ obj[o].kind # "none"
  BY DEF FilesInv, FilesTypeOK, Skip, Uses
<1>2. obj[o].pos \in Nat /\ obj[o].pos + n \in Nat /\ obj[o].deleted \in BOOLEAN
  BY <1>1, Bounds DEF ObjectType
<1>3. PICK pos \in Nat : obj' = [obj EXCEPT ![o].pos = pos, ![o].deleted = obj[o].deleted]
  <2>1. CASE obj' = [obj EXCEPT ![o].pos = @ + n]
    <3>1. obj' = [obj EXCEPT ![o].pos = obj[o].pos + n, ![o].deleted = obj[o].deleted]
      BY <1>1, <2>1 DEF ObjectType
    <3>2. QED
      BY <1>2, <3>1
  <2>2. CASE UNCHANGED obj
    <3>1. obj' = [obj EXCEPT ![o].pos = obj[o].pos, ![o].deleted = obj[o].deleted]
      BY <1>1, <2>2 DEF ObjectType
    <3>2. QED
      BY <1>2, <3>1
  <2>3. QED
    BY <2>1, <2>2 DEF Skip
<1>4. result' \in {"SUCCESS", "SYS_ERROR"}
  BY DEF Skip
<1>5. QED
  BY <1>1, <1>2, <1>3, <1>4, TouchStep DEF Skip, Uses

\* delete frees the object and leaves its stream open.
LEMMA DeleteStep ==
  ASSUME FilesInv, NEW o \in Objects, Delete(o)
  PROVE  FilesInv'
<1>1. obj[o] \in ObjectType /\ obj \in [Objects -> ObjectType] /\ obj[o].kind # "none"
  BY DEF FilesInv, FilesTypeOK, Delete
<1>2. obj[o].pos \in Nat
  BY <1>1 DEF ObjectType
<1>3. obj' = [obj EXCEPT ![o].pos = obj[o].pos, ![o].deleted = TRUE]
  BY <1>1 DEF Delete, ObjectType
<1>4. QED
  BY <1>1, <1>2, <1>3, TouchStep DEF Delete, FilesInv, FilesTypeOK

\* A call that makes an object, for a file that is there or, if it has to, by making
\* an empty one.
LEMMA MadeStep ==
  ASSUME FilesInv, NEW o \in Objects, NEW f \in Names, Creates(o),
         NEW new \in ObjectType, obj' = [obj EXCEPT ![o] = new],
         new.kind \in {"reader", "appender", "mapping"}, new.name = f,
         new.buffer = 0, new.appended = 0, new.synced = 0,
         \/ Exists(f) /\ UNCHANGED kernel
         \/ ~Exists(f) /\ kernel' = [kernel EXCEPT ![f] = << >>],
         UNCHANGED leaked, FreeFd,
         fds' = IF new.stream = "open" THEN fds + 1 ELSE fds,
         result' \in {"SUCCESS", "SYS_ERROR"}
  PROVE  FilesInv'
<1>1. FilesTypeOK /\ obj[o].kind = "none" /\ obj[o] = NoObject /\ UNCHANGED <<onceVars, disk>>
  BY DEF FilesInv, Born, Creates
<1>2. obj'[o] = new
  BY <1>1 DEF FilesTypeOK
<1>3. << >> \in Seq(Objects) /\ << >> # NoFile /\ Len(<< >>) = 0
  <2>1. << >> \in Seq(Objects) /\ Len(<< >>) = 0
    OBVIOUS
  <2>2. NoFile \notin Seq(Objects)
    BY NoFileIsNone
  <2>3. QED
    BY <2>1, <2>2
<1>4. /\ Exists(f)'
      /\ \A h \in Names : /\ Exists(h) => kernel'[h] = kernel[h] /\ Exists(h)'
                          /\ kernel'[h] = kernel[h] \/ kernel'[h] = << >>
                          /\ GetFileSize(h)' = GetFileSize(h)
  <2>1. CASE Exists(f) /\ UNCHANGED kernel
    BY <2>1 DEF Exists, GetFileSize
  <2>2. CASE ~Exists(f) /\ kernel' = [kernel EXCEPT ![f] = << >>]
    <3>1. kernel'[f] = << >> /\ \A h \in Names \ {f} : kernel'[h] = kernel[h]
      BY <1>1, <2>2 DEF FilesTypeOK
    <3>2. Exists(f)' /\ GetFileSize(f)' = 0 /\ GetFileSize(f) = 0
      BY <1>3, <2>2, <3>1 DEF Exists, GetFileSize
    <3>3. QED
      BY <2>2, <3>1, <3>2 DEF Exists, GetFileSize
  <2>3. QED
    BY <2>1, <2>2
<1>5. kernel' \in [Names -> {NoFile} \cup Seq(Objects)]
  BY <1>1, <1>3 DEF FilesTypeOK
<1>6. \A h \in Names : \A i \in 1..GetFileSize(h) : kernel'[h][i] = kernel[h][i]
  <2>1. ASSUME NEW h \in Names, NEW i \in 1..GetFileSize(h)
        PROVE  kernel'[h][i] = kernel[h][i]
    <3>1. Exists(h)
      BY <2>1 DEF GetFileSize
    <3>2. QED
      BY <1>4, <3>1
  <2>2. QED
    BY <2>1
<1>7. FilesGrow
  BY <1>1, <1>4, <1>5, <1>6 DEF FilesGrow, FilesTypeOK
<1>8. \A p \in Objects, h \in Names : Absent(p, h) => Absent(p, h)'
  BY <1>4, <1>6 DEF Absent
<1>9. OthersKeepBytes(o)
  BY <1>4, <1>8 DEF OthersKeepBytes
<1>10. Born(o)'
  BY <1>2, <1>4 DEF Born
<1>11. Complete(o)'
  <2>1. Absent(o, f)'
    BY <1>1, <1>8 DEF FilesInv, Born
  <2>2. GetFileSize(f)' \in Nat
    BY <1>1, <1>4, SizeOfFile
  <2>3. BytesOf(o, kernel'[f], GetFileSize(f)') = 0
    BY <2>1, <2>2, BytesOfNone DEF Absent
  <2>4. BytesInFile(o)' = BytesOf(o, kernel'[f], GetFileSize(f)')
    BY <1>2 DEF BytesInFile
  <2>5. QED
    BY <1>2, <2>3, <2>4 DEF Complete
<1>12. Durable(o)'
  BY <1>2 DEF Durable
<1>13. DescriptorsAccounted' /\ fds' \in 0..MaxFds /\ leaked' \in 0..MaxFds
  <2>1. fds \in 0..MaxFds /\ leaked \in 0..MaxFds /\ fds < MaxFds
    BY <1>1 DEF FilesTypeOK, FreeFd
  <2>2. /\ Cardinality(OpenStreams) \in Nat
        /\ fds = leaked + Cardinality(OpenStreams)
        /\ Cardinality(OpenStreams') = IF new.stream = "open" THEN Cardinality(OpenStreams) + 1
                                       ELSE Cardinality(OpenStreams)
    <3>1. obj[o].stream # "open"
      BY <1>1 DEF NoObject
    <3>2. CASE new.stream = "open"
      BY <3>1, <3>2, StreamsOpen
    <3>3. CASE new.stream # "open"
      BY <3>1, <3>3, StreamsOpen
    <3>4. QED
      BY <3>2, <3>3
  <2>3. fds' = leaked' + Cardinality(OpenStreams') /\ fds' \in 0..MaxFds
    BY <2>1, <2>2, Bounds
  <2>4. QED
    BY <2>1, <2>3 DEF DescriptorsAccounted, OpenStreams
<1>14. QED
  BY <1>1, <1>7, <1>9, <1>10, <1>11, <1>12, <1>13, OneObjectStep

\* A call that makes none, with the descriptor it may have lost.
LEMMA FailsStep ==
  ASSUME FilesInv, NEW o \in Objects, Creates(o), UNCHANGED <<obj, kernel>>,
         \/ UNCHANGED <<fds, leaked>>
         \/ FreeFd /\ fds' = fds + 1 /\ leaked' = leaked + 1,
         result' \in {"SUCCESS", "SYS_ERROR"}
  PROVE  FilesInv'
<1>1. fds \in 0..MaxFds /\ leaked \in 0..MaxFds
  BY DEF FilesInv, FilesTypeOK
<1>2. Cardinality(OpenStreams) \in Nat /\ fds = leaked + Cardinality(OpenStreams)
  BY ObjectsFinite, FS_Subset, FS_CardinalityType
     DEF OpenStreams, FilesInv, DescriptorsAccounted
<1>3. fds' \in 0..MaxFds /\ leaked' \in 0..MaxFds /\ fds' - leaked' = fds - leaked
  BY <1>1, <1>2, Bounds DEF FreeFd
<1>4. /\ once' \in {"init", "running", "done"} /\ default_env' \in Nat
      /\ env' \in [Clients -> Nat] /\ Once'
  BY DEF FilesInv, FilesTypeOK, Creates, onceVars, Once
<1>5. QED
  BY <1>3, <1>4, NoObjectStep DEF Creates

\* The objects that are made have their type.
LEMMA MadeTypes ==
  ASSUME NEW f \in Names, NEW size \in Nat
  PROVE  /\ ReaderOf(f) \in ObjectType
         /\ AppenderOf(f) \in ObjectType
         /\ MappingOf(f, size) \in ObjectType
<1>1. 0 \in Counts
  BY Bounds DEF Counts
<1>2. QED
  BY <1>1 DEF ReaderOf, AppenderOf, MappingOf, NoObject, ObjectType

\* A reader is made for a file that exists.
LEMMA NewSequentialReadFileStep ==
  ASSUME FilesInv, NEW o \in Objects, NEW f \in Names, NewSequentialReadFile(o, f)
  PROVE  FilesInv'
<1>1. Creates(o)
  BY DEF NewSequentialReadFile
<1>2. CASE Fails
  BY <1>1, <1>2, FailsStep DEF Fails
<1>3. CASE /\ FreeFd /\ Exists(f) /\ Made(o, ReaderOf(f))
           /\ fds' = fds + 1 /\ UNCHANGED <<leaked, kernel>>
  <2>1. PICK new \in ObjectType : new = ReaderOf(f)
    BY MadeTypes
  <2>2. /\ new.kind = "reader" /\ new.name = f /\ new.stream = "open"
        /\ new.buffer = 0 /\ new.appended = 0 /\ new.synced = 0
    BY <2>1 DEF ReaderOf, NoObject
  <2>3. obj' = [obj EXCEPT ![o] = new] /\ result' = "SUCCESS"
    BY <1>3, <2>1 DEF Made
  <2>4. QED
    BY <1>1, <1>3, <2>2, <2>3, MadeStep
<1>4. QED
  BY <1>2, <1>3 DEF NewSequentialReadFile

\* An appender makes the file when there is none.
LEMMA NewSequentialAppendFileStep ==
  ASSUME FilesInv, NEW o \in Objects, NEW f \in Names, NewSequentialAppendFile(o, f)
  PROVE  FilesInv'
<1>1. Creates(o)
  BY DEF NewSequentialAppendFile
<1>2. CASE Fails
  BY <1>1, <1>2, FailsStep DEF Fails
<1>3. CASE /\ FreeFd /\ Made(o, AppenderOf(f))
           /\ kernel' = [kernel EXCEPT ![f] = Opened(f)]
           /\ fds' = fds + 1 /\ UNCHANGED leaked
  <2>1. PICK new \in ObjectType : new = AppenderOf(f)
    BY MadeTypes
  <2>2. /\ new.kind = "appender" /\ new.name = f /\ new.stream = "open"
        /\ new.buffer = 0 /\ new.appended = 0 /\ new.synced = 0
    BY <2>1 DEF AppenderOf, NoObject
  <2>3. obj' = [obj EXCEPT ![o] = new] /\ result' = "SUCCESS"
    BY <1>3, <2>1 DEF Made
  <2>4. \/ Exists(f) /\ UNCHANGED kernel
        \/ ~Exists(f) /\ kernel' = [kernel EXCEPT ![f] = << >>]
    <3>1. kernel \in [Names -> {NoFile} \cup Seq(Objects)]
      BY DEF FilesInv, FilesTypeOK
    <3>2. CASE Exists(f)
      <4>1. kernel' = [kernel EXCEPT ![f] = kernel[f]]
        BY <1>3, <3>2 DEF Opened
      <4>2. QED
        BY <3>1, <3>2, <4>1, Zenon
    <3>3. CASE ~Exists(f)
      BY <1>3, <3>3 DEF Opened
    <3>4. QED
      BY <3>2, <3>3
  <2>5. QED
    BY <1>1, <1>3, <2>2, <2>3, <2>4, MadeStep
<1>4. QED
  BY <1>2, <1>3 DEF NewSequentialAppendFile

\* A mapping takes no descriptor, but a mapping that fails loses one.
LEMMA NewRandomReadFileStep ==
  ASSUME FilesInv, NEW o \in Objects, NEW f \in Names, NewRandomReadFile(o, f)
  PROVE  FilesInv'
<1>1. Creates(o)
  BY DEF NewRandomReadFile
<1>2. CASE Fails
  BY <1>1, <1>2, FailsStep DEF Fails
<1>3. CASE FreeFd /\ Exists(f) /\ fds' = fds + 1 /\ leaked' = leaked + 1
           /\ result' = "SYS_ERROR" /\ UNCHANGED <<obj, kernel>>
  BY <1>1, <1>3, FailsStep
<1>4. CASE /\ FreeFd /\ Exists(f) /\ Made(o, MappingOf(f, GetFileSize(f)))
           /\ fds' = AfterMapping /\ UNCHANGED <<leaked, kernel>>
  <2>1. PICK new \in ObjectType : new = MappingOf(f, GetFileSize(f))
    BY MadeTypes, SizeOfFile DEF FilesInv
  <2>2. /\ new.kind = "mapping" /\ new.name = f /\ new.stream # "open"
        /\ new.buffer = 0 /\ new.appended = 0 /\ new.synced = 0
    BY <2>1 DEF MappingOf, NoObject
  <2>3. obj' = [obj EXCEPT ![o] = new] /\ result' = "SUCCESS" /\ fds' = fds
    BY <1>4, <2>1 DEF Made, AfterMapping
  <2>4. QED
    BY <1>1, <1>4, <2>2, <2>3, MadeStep
<1>5. QED
  BY <1>2, <1>3, <1>4 DEF NewRandomReadFile

-----------------------------------------------------------------------------
(* The environment, the crash, and the theorems.                             *)

\* However many ask for it, it is built once.
LEMMA OnceStep ==
  ASSUME FilesInv,
         \/ OnceRuns \/ InitDefault_PosixEnv \/ \E c \in Clients : EnvDepend_Default(c)
         \/ UNCHANGED filesVars
  PROVE  FilesInv'
<1>1. FilesTypeOK /\ Once
  BY DEF FilesInv
<1>2. UNCHANGED fileVars
  BY DEF OnceRuns, InitDefault_PosixEnv, EnvDepend_Default, filesVars
<1>3. /\ once' \in {"init", "running", "done"} /\ default_env' \in Nat
      /\ env' \in [Clients -> Nat] /\ Once'
  <2>1. CASE OnceRuns
    BY <1>1, <2>1 DEF FilesTypeOK, Once, OnceRuns, FirstCaller
  <2>2. CASE InitDefault_PosixEnv
    BY <1>1, <2>2 DEF FilesTypeOK, Once, InitDefault_PosixEnv
  <2>3. CASE \E c \in Clients : EnvDepend_Default(c)
    BY <1>1, <2>3 DEF FilesTypeOK, Once, EnvDepend_Default
  <2>4. CASE UNCHANGED filesVars
    BY <1>1, <2>4 DEF FilesTypeOK, Once, filesVars, onceVars
  <2>5. QED
    BY <2>1, <2>2, <2>3, <2>4
<1>4. QED
  BY <1>1, <1>2, <1>3, NoObjectStep DEF FilesTypeOK, fileVars

\* A crash takes nothing that is on the disk.
LEMMA CrashStep ==
  ASSUME FilesInv, Crash
  PROVE  FilesInv'
<1>1. FilesTypeOK
  BY DEF FilesInv
<1>2. PICK kept \in [Names -> 0..(MaxBytes * Cardinality(Objects))] :
        /\ \A f \in Names : kept[f] \in disk[f]..GetFileSize(f)
        /\ kernel' = [f \in Names |-> IF Exists(f) THEN SubSeq(kernel[f], 1, kept[f]) ELSE NoFile]
  BY DEF Crash
<1>3. ASSUME NEW f \in Names
      PROVE  /\ kernel'[f] \in {NoFile} \cup Seq(Objects)
             /\ Exists(f)' <=> Exists(f)
             /\ GetFileSize(f)' \in Nat /\ GetFileSize(f)' <= GetFileSize(f)
             /\ disk[f] \in Nat /\ disk[f] <= GetFileSize(f)'
             /\ \A i \in 1..GetFileSize(f)' : kernel'[f][i] = kernel[f][i]
  <2>1. /\ disk[f] \in Nat /\ GetFileSize(f) \in Nat
        /\ Exists(f) => kernel[f] \in Seq(Objects) /\ GetFileSize(f) = Len(kernel[f])
    BY <1>1, SizeOfFile DEF FilesTypeOK
  <2>2. kept[f] \in Nat /\ disk[f] <= kept[f] /\ kept[f] <= GetFileSize(f)
    <3>1. kept[f] \in disk[f]..GetFileSize(f)
      BY <1>2
    <3>2. QED
      BY <2>1, <3>1
  <2>3. CASE Exists(f)
    <3>1. kernel'[f] = SubSeq(kernel[f], 1, kept[f])
      BY <1>2, <2>3
    <3>2. PICK s \in Seq(Objects) : s = kernel[f] /\ GetFileSize(f) = Len(s)
      BY <2>1, <2>3
    <3>3. /\ SubSeq(s, 1, kept[f]) \in Seq(Objects)
          /\ Len(SubSeq(s, 1, kept[f])) = kept[f]
          /\ \A i \in 1..kept[f] : SubSeq(s, 1, kept[f])[i] = s[i]
      BY <2>2, <3>2
    <3>4. /\ kernel'[f] \in Seq(Objects) /\ Len(kernel'[f]) = kept[f]
          /\ \A i \in 1..kept[f] : kernel'[f][i] = kernel[f][i]
      BY <3>1, <3>2, <3>3
    <3>5. kernel'[f] # NoFile
      BY <3>4, NoFileIsNone
    <3>6. Exists(f)' /\ GetFileSize(f)' = kept[f]
      BY <3>4, <3>5 DEF Exists, GetFileSize
    <3>7. QED
      BY <2>1, <2>2, <2>3, <3>4, <3>6
  <2>4. CASE ~Exists(f)
    <3>1. kernel'[f] = NoFile
      BY <1>2, <2>4
    <3>2. ~Exists(f)' /\ GetFileSize(f)' = 0 /\ GetFileSize(f) = 0
      BY <2>4, <3>1 DEF Exists, GetFileSize
    <3>3. QED
      BY <2>1, <2>2, <2>4, <3>1, <3>2
  <2>5. QED
    BY <2>3, <2>4
<1>4. /\ obj' = [o \in Objects |-> IF obj[o].kind = "none" THEN obj[o]
                                   ELSE [obj[o] EXCEPT !.kind = "past", !.stream = "NULL"]]
      /\ once' = "init" /\ default_env' = 0 /\ env' = [c \in Clients |-> 0]
      /\ result' = "SUCCESS"
  BY DEF Crash
<1>5. fds' = 0 /\ leaked' = 0 /\ disk' = disk
  BY DEF Crash
<1>6. kernel' \in [Names -> {NoFile} \cup Seq(Objects)]
  BY <1>2, <1>3
<1>7. ASSUME NEW o \in Objects
      PROVE  /\ obj'[o] \in ObjectType
             /\ obj[o].kind = "none" => obj'[o] = NoObject /\ obj[o] = NoObject
             /\ obj[o].kind # "none" => obj'[o].kind = "past"
             /\ obj'[o].stream # "open"
             /\ obj'[o].name = obj[o].name /\ obj'[o].synced = obj[o].synced
             /\ obj'[o].buffer = obj[o].buffer /\ obj'[o].appended = obj[o].appended
  <2>1. obj[o] \in ObjectType
    BY <1>1 DEF FilesTypeOK
  <2>2. CASE obj[o].kind = "none"
    <3>1. obj[o] = NoObject /\ obj'[o] = obj[o]
      BY <1>4, <2>2 DEF FilesInv, Born
    <3>2. QED
      BY <2>1, <2>2, <3>1 DEF NoObject
  <2>3. CASE obj[o].kind # "none"
    <3>1. obj'[o] = [obj[o] EXCEPT !.kind = "past", !.stream = "NULL"]
      BY <1>4, <2>3
    <3>2. QED
      BY <2>1, <2>3, <3>1 DEF ObjectType
  <2>4. QED
    BY <2>2, <2>3
<1>8. FilesTypeOK'
  <2>1. obj' \in [Objects -> ObjectType]
    BY <1>4, <1>7
  <2>2. \A f \in Names : disk'[f] <= GetFileSize(f)'
    BY <1>3, <1>5
  <2>3. fds' \in 0..MaxFds /\ leaked' \in 0..MaxFds
    BY <1>5, Bounds
  <2>4. QED
    BY <1>1, <1>4, <1>5, <1>6, <2>1, <2>2, <2>3 DEF FilesTypeOK
<1>9. Once'
  BY <1>4 DEF Once
<1>10. ASSUME NEW o \in Objects
      PROVE  Born(o)' /\ Complete(o)' /\ Durable(o)'
  <2>1. Born(o)'
    <3>1. CASE obj[o].kind = "none"
      <4>1. \A f \in Names : Absent(o, f)
        BY <3>1 DEF FilesInv, Born
      <4>2. ASSUME NEW f \in Names
            PROVE  Absent(o, f)'
        <5>1. \A i \in 1..GetFileSize(f)' : i \in 1..GetFileSize(f) /\ kernel'[f][i] = kernel[f][i]
          BY <1>1, <1>3, SizeOfFile
        <5>2. QED
          BY <4>1, <5>1 DEF Absent
      <4>3. QED
        <5>1. obj'[o] = NoObject /\ NoObject.kind = "none" /\ NoObject.buffer = NoObject.appended
          BY <1>7, <3>1 DEF NoObject
        <5>2. NoObject.buffer \in Nat
          BY DEF NoObject
        <5>3. QED
          BY <4>2, <5>1, <5>2 DEF Born
    <3>2. CASE obj[o].kind # "none"
      BY <1>3, <1>7, <3>2 DEF FilesInv, Born
    <3>3. QED
      BY <3>1, <3>2
  <2>2. Complete(o)'
    BY <1>7 DEF Complete, NoObject
  <2>3. Durable(o)'
    <3>1. CASE obj[o].synced > 0
      <4>1. PICK g \in Names : g = obj[o].name
        BY <3>1 DEF FilesInv, Born, NoObject
      <4>2. \A i \in 1..disk[g] : kernel'[g][i] = kernel[g][i]
        <5>1. disk[g] \in Nat /\ GetFileSize(g)' \in Nat /\ disk[g] <= GetFileSize(g)'
          BY <1>3
        <5>2. \A i \in 1..GetFileSize(g)' : kernel'[g][i] = kernel[g][i]
          BY <1>3
        <5>3. QED
          BY <5>1, <5>2
      <4>3. disk'[g] \in Nat /\ disk[g] <= disk'[g]
        <5>1. disk[g] \in Nat
          BY <1>3
        <5>2. QED
          BY <1>5, <5>1
      <4>4. QED
        BY <1>7, <4>1, <4>2, <4>3, DurableKept DEF FilesInv
    <3>2. CASE ~(obj[o].synced > 0)
      BY <1>7, <3>2 DEF Durable
    <3>3. QED
      BY <3>1, <3>2
  <2>4. QED
    BY <2>1, <2>2, <2>3
<1>11. DescriptorsAccounted'
  <2>1. OpenStreams' = {}
    BY <1>7 DEF OpenStreams
  <2>2. Cardinality(OpenStreams') = 0
    BY <2>1, FS_EmptySet
  <2>3. QED
    BY <1>5, <2>2 DEF DescriptorsAccounted, OpenStreams
<1>12. QED
  BY <1>8, <1>9, <1>10, <1>11 DEF FilesInv

\* Blank objects, no files: the invariant holds initially.
LEMMA FilesInitInv == FilesInit => FilesInv
<1> SUFFICES ASSUME FilesInit PROVE FilesInv
  OBVIOUS
<1>1. \A f \in Names : ~Exists(f) /\ GetFileSize(f) = 0 /\ disk[f] = 0
  BY DEF FilesInit, Exists, GetFileSize
<1>2. \A o \in Objects : obj[o] = NoObject
  BY DEF FilesInit
<1>3. 0 \in Counts /\ 0 \in 0..MaxFds
  BY Bounds DEF Counts
<1>4. obj \in [Objects -> ObjectType]
  BY <1>3 DEF FilesInit, NoObject, ObjectType
<1>5. FilesTypeOK
  BY <1>1, <1>3, <1>4 DEF FilesInit, FilesTypeOK
<1>6. Once
  BY DEF FilesInit, Once
<1>7. \A o \in Objects : Born(o) /\ Complete(o) /\ Durable(o)
  <2>1. /\ NoObject.kind = "none" /\ NoObject.buffer = 0 /\ NoObject.appended = 0
        /\ ~(NoObject.synced > 0)
    BY DEF NoObject
  <2>2. \A o \in Objects, f \in Names : Absent(o, f)
    BY <1>1 DEF Absent
  <2>3. QED
    BY <1>2, <2>1, <2>2 DEF Born, Complete, Durable
<1>8. DescriptorsAccounted
  <2>1. OpenStreams = {}
    BY <1>2 DEF OpenStreams, NoObject
  <2>2. QED
    BY <2>1, FS_EmptySet DEF FilesInit, DescriptorsAccounted, OpenStreams
<1>9. QED
  BY <1>5, <1>6, <1>7, <1>8 DEF FilesInv

\* Every call, failure and crash keeps it.
LEMMA FilesNextInv == FilesInv /\ [FilesNext]_filesVars => FilesInv'
<1> SUFFICES ASSUME FilesInv, [FilesNext]_filesVars PROVE FilesInv'
  OBVIOUS
<1>1. CASE \/ OnceRuns \/ InitDefault_PosixEnv \/ \E c \in Clients : EnvDepend_Default(c)
           \/ UNCHANGED filesVars
  BY <1>1, OnceStep
<1>2. ASSUME NEW o \in Objects, NEW f \in Names,
             \/ NewSequentialReadFile(o, f)
             \/ NewSequentialAppendFile(o, f)
             \/ NewRandomReadFile(o, f)
      PROVE  FilesInv'
  BY <1>2, NewSequentialReadFileStep, NewSequentialAppendFileStep, NewRandomReadFileStep
<1>3. ASSUME NEW o \in Objects, NEW n \in 1..MaxBytes,
             Read(o, n) \/ Skip(o, n) \/ AppendFile(o, n)
      PROVE  FilesInv'
  BY <1>3, ReadStep, SkipStep, AppendFileStep
<1>4. ASSUME NEW o \in Objects, Flush(o) \/ Sync(o) \/ Close(o) \/ Delete(o)
      PROVE  FilesInv'
  BY <1>4, FlushStep, SyncStep, CloseStep, DeleteStep
<1>5. CASE Crash
  BY <1>5, CrashStep
<1>6. QED
  BY <1>1, <1>2, <1>3, <1>4, <1>5 DEF FilesNext

\* The inductive invariant holds in every state.
THEOREM FilesInvariant == FilesSpec => []FilesInv
BY FilesInitInv, FilesNextInv, PTL DEF FilesSpec

\* The environment and its objects have their types, and no file is shorter than what
\* a Sync has put on the disk.
THEOREM FilesTypeCorrect == FilesSpec => []FilesTypeOK
<1>1. FilesInv => FilesTypeOK
  BY DEF FilesInv
<1>2. QED
  BY <1>1, FilesInvariant, PTL

\* Every caller of EnvDepend_Default is given the same environment.
THEOREM OneEnvironmentCorrect == FilesSpec => []OneEnvironment
<1>1. FilesInv => OneEnvironment
  BY DEF FilesInv, Once, OneEnvironment
<1>2. QED
  BY <1>1, FilesInvariant, PTL

\* Every descriptor in use has an open stream or was lost by a failed call.
THEOREM DescriptorsCorrect == FilesSpec => []DescriptorsAccounted
<1>1. FilesInv => DescriptorsAccounted
  BY DEF FilesInv
<1>2. QED
  BY <1>1, FilesInvariant, PTL

\* While no write failed, what was appended is in the buffer or in the file.
THEOREM NothingLostCorrect == FilesSpec => []NothingLost
<1>1. FilesInv => NothingLost
  BY DEF FilesInv, NothingLost, Complete, BytesInFile
<1>2. QED
  BY <1>1, FilesInvariant, PTL

\* What Sync vouched for is on the disk, through any failures and crashes.
THEOREM SyncedIsDurableCorrect == FilesSpec => []SyncedIsDurable
<1>1. FilesInv => SyncedIsDurable
  BY DEF FilesInv, SyncedIsDurable, Durable
<1>2. QED
  BY <1>1, FilesInvariant, PTL

=============================================================================

------------------------------ MODULE EnvFiles ------------------------------
(***************************************************************************)
(* The one environment of a process and its file objects                   *)
(* (dbimpl/envdepend_posix.cpp; the interfaces are in include/qenvdepend.h). *)
(* A byte appended goes from the buffer of stdio to the kernel and from    *)
(* there to the disk; a crash of the process loses the first, a loss of    *)
(* power the first two.  Any system call may fail.                         *)
(*                                                                         *)
(* The content of a file is the sequence of the objects that appended its  *)
(* bytes.  What stdio and the kernel do is modelled as POSIX says; of a    *)
(* write that fails, stdio may keep or drop what is left in the buffer.    *)
(***************************************************************************)
EXTENDS Naturals, Sequences, FiniteSets

CONSTANTS
  Clients, Names,
  Objects,      \* the file objects; each is made once
  NoFile, NULL,
  MaxFds,       \* descriptors a process may have open
  MaxBytes,     \* bound on the bytes appended through an object, and on a file
  SizeModulus   \* 2^w for the w bits of size_t

ASSUME FilesAssumption ==
  /\ NoFile \notin Seq(Objects)
  /\ IsFiniteSet(Objects)
  /\ MaxFds \in Nat /\ MaxBytes \in Nat
  /\ SizeModulus \in Nat /\ SizeModulus > Cardinality(Objects) * MaxBytes

VARIABLES
  once,         \* the pthread_once_t: "init", "running" or "done"
  default_env,  \* the pointer: the number of the instance built last, 0 for NULL
  env,          \* client -> what EnvDepend_Default returned to it
  obj,          \* object -> its fields and its stream
  fds,          \* descriptors in use
  leaked,       \* history: those of failed calls that nobody can close
  kernel,       \* name -> content, as read() sees it
  disk,         \* name -> how much of it is on disk for certain
  result        \* of the last call

onceVars == <<once, default_env, env>>
fileVars == <<obj, fds, leaked, kernel, disk, result>>
filesVars == <<onceVars, fileVars>>

\* kind: what the object is, "none" before it is made, "past" after its process.
\* stream: its FILE*; "stale" when fclose failed and the pointer was kept.
\* broken: a write through it failed; synced: history, what Sync vouched for.
NoObject ==
  [kind |-> "none", name |-> NULL, stream |-> "NULL", deleted |-> FALSE, pos |-> 0, length |-> 0,
   buffer |-> 0, appended |-> 0, synced |-> 0, broken |-> FALSE]

FilesInit ==
  /\ once = "init"
  /\ default_env = 0
  /\ env = [c \in Clients |-> 0]
  /\ obj = [o \in Objects |-> NoObject]
  /\ fds = 0
  /\ leaked = 0
  /\ kernel = [f \in Names |-> NoFile]
  /\ disk = [f \in Names |-> 0]
  /\ result = "SUCCESS"

(***************************************************************************)
(* EnvDepend_Default(): pthread_once lets one caller build the instance    *)
(* and makes the others wait for it.                                       *)
(***************************************************************************)
Unguarded == TRUE                        \* mutant: without pthread_once
FirstCaller == once = "init"

OnceRuns ==
  /\ FirstCaller
  /\ \E c \in Clients : env[c] = 0
  /\ once' = "running"
  /\ UNCHANGED <<default_env, env, fileVars>>

InitDefault_PosixEnv ==
  /\ once = "running"
  /\ once' = "done"
  /\ default_env' = default_env + 1
  /\ UNCHANGED <<env, fileVars>>

EnvDepend_Default(c) ==
  /\ once = "done"
  /\ env' = [env EXCEPT ![c] = default_env]
  /\ UNCHANGED <<once, default_env, fileVars>>

-----------------------------------------------------------------------------
(***************************************************************************)
(* The calls that make an object.  Those that fail hand back NULL.         *)
(***************************************************************************)
Exists(f) == kernel[f] # NoFile
HasEnv == \E c \in Clients : env[c] # 0
Creates(o) == HasEnv /\ obj[o].kind = "none" /\ UNCHANGED <<onceVars, disk>>
AlwaysFree == TRUE                       \* mutant: a failed open goes unnoticed
FreeFd == fds < MaxFds

Fails == result' = "SYS_ERROR" /\ UNCHANGED <<obj, fds, leaked, kernel>>

Made(o, object) == obj' = [obj EXCEPT ![o] = object] /\ result' = "SUCCESS"

ReaderOf(f) == [NoObject EXCEPT !.kind = "reader", !.name = f, !.stream = "open"]
AppenderOf(f) == [NoObject EXCEPT !.kind = "appender", !.name = f, !.stream = "open"]
MappingOfPages(f, size) ==               \* mutant: whole pages, here of two bytes, are mapped
  [NoObject EXCEPT !.kind = "mapping", !.name = f, !.length = 2 * ((size + 1) \div 2)]
MappingOf(f, size) == [NoObject EXCEPT !.kind = "mapping", !.name = f, !.length = size]

NewSequentialReadFile(o, f) ==
  /\ Creates(o)
  /\ \/ FreeFd /\ Exists(f) /\ Made(o, ReaderOf(f))
        /\ fds' = fds + 1 /\ UNCHANGED <<leaked, kernel>>
     \/ Fails

\* fopen(, "a") creates a file that does not exist, and leaves one that does as it is.
Opened(f) == IF Exists(f) THEN kernel[f] ELSE << >>

NewSequentialAppendFile(o, f) ==
  /\ Creates(o)
  /\ \/ /\ FreeFd
        /\ Made(o, AppenderOf(f))
        /\ kernel' = [kernel EXCEPT ![f] = Opened(f)]
        /\ fds' = fds + 1
        /\ UNCHANGED leaked
     \/ Fails

GetFileSize(f) == IF Exists(f) THEN Len(kernel[f]) ELSE 0

StaysOpen == fds + 1                     \* mutant: close(fd) is missing
AfterMapping == fds

\* open, stat, mmap, close.  When stat or mmap fails, as mmap does for an empty
\* file, the descriptor stays open.
NewRandomReadFile(o, f) ==
  /\ Creates(o)
  /\ \/ /\ FreeFd /\ Exists(f) /\ GetFileSize(f) > 0
        /\ Made(o, MappingOf(f, GetFileSize(f)))
        /\ fds' = AfterMapping
        /\ UNCHANGED <<leaked, kernel>>
     \/ /\ FreeFd /\ Exists(f)
        /\ fds' = fds + 1
        /\ leaked' = leaked + 1
        /\ result' = "SYS_ERROR"
        /\ UNCHANGED <<obj, kernel>>
     \/ Fails

-----------------------------------------------------------------------------
(***************************************************************************)
(* Calls on an object.  SequentialReadFile: fread and fseek.               *)
(***************************************************************************)
Uses(o, kind) == obj[o].kind = kind /\ ~obj[o].deleted /\ UNCHANGED <<onceVars, leaked>>

Ahead(o) ==
  LET size == GetFileSize(obj[o].name) IN IF size > obj[o].pos THEN size - obj[o].pos ELSE 0

\* fread reads what there is, or less when a system call under it fails.
Read(o, n) ==
  /\ Uses(o, "reader")
  /\ \E k \in 0..(IF n < Ahead(o) THEN n ELSE Ahead(o)) : obj' = [obj EXCEPT ![o].pos = @ + k]
  /\ UNCHANGED <<fds, kernel, disk, result>>

\* The two results are the wrong way round; fseek may go beyond the end.
Skip(o, n) ==
  /\ Uses(o, "reader")
  /\ obj[o].pos + n <= MaxBytes
  /\ \/ obj' = [obj EXCEPT ![o].pos = @ + n] /\ result' = "SYS_ERROR"
     \/ UNCHANGED obj /\ result' = "SUCCESS"
  /\ UNCHANGED <<fds, kernel, disk>>

(***************************************************************************)
(* SequentialAppendFile, until Close: fwrite, fflush, fsync, fclose.       *)
(* Written(o, k): the first k bytes of the buffer of o go to the file.     *)
(* WriteFails(o, m, stream): of the buffer and m new bytes that fwrite     *)
(* counted, some go to the file, and some of the rest may be dropped.      *)
(***************************************************************************)
Copies(o, k) == [i \in 1..k |-> o]

Appends(o) == Uses(o, "appender") /\ obj[o].stream = "open"

Written(o, k) == kernel' = [kernel EXCEPT ![obj[o].name] = @ \o Copies(o, k)]

WriteFails(o, m, stream) ==
  /\ \E k \in 0..(obj[o].buffer + m) :
       /\ Written(o, k)
       /\ \E rest \in 0..(obj[o].buffer + m - k) :
            obj' = [obj EXCEPT ![o].buffer = rest, ![o].appended = @ + m,
                               ![o].broken = TRUE, ![o].stream = stream]
  /\ result' = "SYS_ERROR"
  /\ UNCHANGED disk

AppendFile(o, n) ==
  /\ Appends(o)
  /\ obj[o].appended + n <= MaxBytes
  /\ \/ /\ \E k \in 0..(obj[o].buffer + n) :
             /\ Written(o, k)
             /\ obj' = [obj EXCEPT ![o].buffer = @ + n - k, ![o].appended = @ + n]
        /\ result' = "SUCCESS"
        /\ UNCHANGED disk
     \/ \E m \in 0..(n - 1) : WriteFails(o, m, "open")
  /\ UNCHANGED fds

Flush(o) ==
  /\ Appends(o)
  /\ \/ /\ Written(o, obj[o].buffer)
        /\ obj' = [obj EXCEPT ![o].buffer = 0]
        /\ result' = "SUCCESS"
        /\ UNCHANGED disk
     \/ WriteFails(o, 0, "open")
  /\ UNCHANGED fds

NotFlushed(o) == 0                       \* mutant: fsync without fflush
Flushed(o) == obj[o].buffer

Sync(o) ==
  /\ Appends(o)
  /\ \/ /\ Written(o, Flushed(o))
        /\ \/ /\ disk' = [disk EXCEPT ![obj[o].name] = Len(kernel'[obj[o].name])]
              /\ obj' = [obj EXCEPT ![o].buffer = @ - Flushed(o),
                                    ![o].synced = IF obj[o].broken THEN @ ELSE obj[o].appended]
              /\ result' = "SUCCESS"
           \/ /\ obj' = [obj EXCEPT ![o].buffer = @ - Flushed(o)]
              /\ result' = "SYS_ERROR"
              /\ UNCHANGED disk
     \/ WriteFails(o, 0, "open")
  /\ UNCHANGED fds

ClosedUnwritten(o) == 0                  \* mutant: close() instead of fclose()
ClosedWritten(o) == obj[o].buffer

\* A Close that fails keeps the FILE*, which fclose has freed all the same.
Close(o) ==
  /\ Appends(o)
  /\ \/ /\ Written(o, ClosedWritten(o))
        /\ obj' = [obj EXCEPT ![o].buffer = 0, ![o].stream = "NULL"]
        /\ result' = "SUCCESS"
        /\ UNCHANGED disk
     \/ WriteFails(o, 0, "stale")
  /\ fds' = fds - 1

\* RandomReadFile::Read: how many bytes memcpy copies, from the start of the mapping
\* whatever the offset is.
Unclamped(length, n, offset) == n        \* mutant: n is not cut
Copied(length, n, offset) ==
  IF (offset + n) % SizeModulus > length THEN (length + SizeModulus - offset) % SizeModulus ELSE n

(***************************************************************************)
(* delete through the pointers the environment returns: the destructors of *)
(* the interfaces are not virtual, so nothing is closed or unmapped.       *)
(***************************************************************************)
Delete(o) ==
  /\ obj[o].kind \in {"reader", "appender", "mapping"}
  /\ ~obj[o].deleted
  /\ obj' = [obj EXCEPT ![o].deleted = TRUE]
  /\ UNCHANGED <<onceVars, fds, leaked, kernel, disk, result>>

-----------------------------------------------------------------------------
(***************************************************************************)
(* The process ends and is started again; a loss of power takes from each  *)
(* file some of what is not on disk for certain.                           *)
(***************************************************************************)
Crash ==
  /\ \E kept \in [Names -> 0..(MaxBytes * Cardinality(Objects))] :
       /\ \A f \in Names : kept[f] \in disk[f]..GetFileSize(f)
       /\ kernel' = [f \in Names |-> IF Exists(f) THEN SubSeq(kernel[f], 1, kept[f]) ELSE NoFile]
  /\ obj' = [o \in Objects |-> IF obj[o].kind = "none" THEN obj[o]
                               ELSE [obj[o] EXCEPT !.kind = "past", !.stream = "NULL"]]
  /\ once' = "init" /\ default_env' = 0 /\ env' = [c \in Clients |-> 0]
  /\ fds' = 0 /\ leaked' = 0 /\ result' = "SUCCESS"
  /\ UNCHANGED disk

FilesNext ==
  \/ OnceRuns \/ InitDefault_PosixEnv \/ \E c \in Clients : EnvDepend_Default(c)
  \/ \E o \in Objects, f \in Names :
       NewSequentialReadFile(o, f) \/ NewSequentialAppendFile(o, f) \/ NewRandomReadFile(o, f)
  \/ \E o \in Objects, n \in 1..MaxBytes : Read(o, n) \/ Skip(o, n) \/ AppendFile(o, n)
  \/ \E o \in Objects : Flush(o) \/ Sync(o) \/ Close(o) \/ Delete(o)
  \/ Crash

FilesSpec == FilesInit /\ [][FilesNext]_filesVars

-----------------------------------------------------------------------------
Counts == 0..MaxBytes

ObjectType ==
  [kind : {"none", "reader", "appender", "mapping", "past"}, name : Names \cup {NULL},
   stream : {"open", "NULL", "stale"}, deleted : BOOLEAN, pos : Nat, length : Nat,
   buffer : Counts, appended : Counts, synced : Counts, broken : BOOLEAN]

FilesTypeOK ==
  /\ once \in {"init", "running", "done"}
  /\ default_env \in Nat
  /\ env \in [Clients -> Nat]
  /\ obj \in [Objects -> ObjectType]
  /\ fds \in 0..MaxFds
  /\ leaked \in 0..MaxFds
  /\ kernel \in [Names -> {NoFile} \cup Seq(Objects)]
  /\ disk \in [Names -> Nat]
  /\ \A f \in Names : disk[f] <= GetFileSize(f)
  /\ result \in {"SUCCESS", "SYS_ERROR"}

\* However many threads ask first, all are given the same environment, and so share
\* one task queue and one background thread (envdepend_posix.cpp:248).
OneEnvironment == \A c, d \in Clients : env[c] # 0 /\ env[d] # 0 => env[c] = env[d]

\* How many of the first n bytes of s object o appended.
BytesOf(o, s, n) == Cardinality({i \in 1..n : s[i] = o})

\* What a Sync vouched for survives any crash: the bytes appended through the object
\* before it are on disk, also when other objects append to the file, and whatever
\* calls fail or crashes happen later.
SyncedIsDurable ==
  \A o \in Objects : obj[o].synced > 0 =>
    obj[o].synced <= BytesOf(o, kernel[obj[o].name], disk[obj[o].name])

\* While no write failed, every byte appended is in the buffer or in the file, once;
\* after Flush and Close, which leave no buffer, in the file.
NothingLost ==
  \A o \in Objects : obj[o].kind = "appender" /\ ~obj[o].broken =>
    obj[o].appended = obj[o].buffer + BytesOf(o, kernel[obj[o].name], GetFileSize(obj[o].name))

\* Every descriptor in use belongs to an open stream, of a deleted object or not,
\* or was lost by a NewRandomReadFile that failed; a mapped file needs none.
DescriptorsAccounted ==
  fds = leaked + Cardinality({o \in Objects : obj[o].stream = "open"})

\* A mapping never reaches beyond the end of its file, which appenders may open and
\* write to at any time (envdepend_posix.cpp:166, 180-182).
MappingsStayInFile ==
  \A o \in Objects : obj[o].kind = "mapping" => obj[o].length <= GetFileSize(obj[o].name)

\* What the test of envdepend_posix.cpp:97 protects, for all arguments size_t can hold.
\* A sum that does not wrap round is cut at the end of the mapping, and the copy stays
\* in the mapping if and only if the offset does.  A sum that wraps round to at most the
\* length is taken for a short read, and n is not cut; one that wraps to more is cut.
ReadsOfMappings ==
  \A o \in Objects : obj[o].kind = "mapping" =>
    \A n, offset \in 0..(SizeModulus - 1) :
      LET length == obj[o].length
          inside == Copied(length, n, offset) <= length
      IN  IF offset + n < SizeModulus
          THEN /\ inside <=> offset <= length
               /\ offset + n <= length => Copied(length, n, offset) = n
               /\ offset <= length /\ offset + n > length =>
                    Copied(length, n, offset) = length - offset
          ELSE inside <=> IF offset + n - SizeModulus <= length
                          THEN n <= length ELSE offset <= length

=============================================================================

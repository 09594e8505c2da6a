---------------------------- MODULE MCGrepProofs ----------------------------
(***************************************************************************)
(* For every set of command lines, first: main puts the output together    *)
(* from files that are complete and, where no '%' is printed, stays inside *)
(* the mapping of the -o file.  No chunk is longer than ChunkSize, grep    *)
(* then writes no more than it reads, and as many chunks as there are      *)
(* threads fit the file.  With a '%' a line is a format that may write     *)
(* anything or end the program, and all that is left is the order of main  *)
(* and the threads.                                                        *)
(* Second, for text without '%': the output is the grep of the chunks, as  *)
(* a thread always stands where a piece begins and has kept what matches   *)
(* before; and where the chunks are lines, it is the grep of the file.     *)
(***************************************************************************)
EXTENDS MCGrep, ListLemmas, SequenceTheorems, WellFoundedInduction, TLAPS

(* the bytes of which no '%' is printed *)
Clean == {b \in Bytes : (IF b = "hit" /\ job.replace THEN "new" ELSE b) # job.percent}

Fits(f) == f \in Seq(Bytes) /\ Len(f) <= ChunkSize

FitsPlain(f) == f \in Seq(Clean) /\ Len(f) <= ChunkSize

Sized == FileSize > 0 /\ PlainText

(* the main thread's phases and what they mean for the threads *)
Phases ==
  /\ pc = "parse" => k <= MaxFiles /\ DOMAIN thr = {}
  /\ pc = "create" => k \in Threads /\ DOMAIN thr = 1..k - 1
  /\ pc = "join" => /\ k \in Threads
                    /\ DOMAIN thr = Threads
                    /\ \A t \in 1..k - 1 : thr[t].pc = "done"
  /\ pc = "wrap" => k \in 1..job.threads + 1
  /\ pc \in {"parse", "create", "join"} => result = << >>
  /\ JoinedBeforeWrap

Parsed == pc \in {"create", "join", "wrap"}

(* a thread has read, and keeps in its buffer, no more than its chunk *)
ThreadFits(t) ==
  /\ thr[t].pc = "open" => thr[t].buf = << >>
  /\ thr[t].pc = "read" =>
       /\ t \in DOMAIN out /\ out[t] = << >>
       /\ thr[t].rest \in Seq(Clean) /\ thr[t].buf \in Seq(Bytes)
       /\ Len(thr[t].rest) + Len(thr[t].buf) <= ChunkSize
  /\ thr[t].pc = "done" => t \in DOMAIN out /\ Fits(out[t])

Sizes ==
  /\ pc = "parse" /\ ChunkSize > 0 =>
       \A m \in 1..k - 1 : m \in DOMAIN tmp /\ FitsPlain(tmp[m])
  /\ Parsed => \A t \in Threads : t \in DOMAIN tmp /\ FitsPlain(tmp[t])
  /\ Parsed => \A t \in DOMAIN thr : ThreadFits(t)
  /\ pc = "wrap" => result \in Seq(Bytes) /\ Len(result) <= (k - 1) * ChunkSize

ThreadShape ==
  \A t \in DOMAIN thr :
    thr[t] = [pc |-> thr[t].pc, rest |-> thr[t].rest, buf |-> thr[t].buf]

IInv ==
  /\ TypeOK
  /\ ThreadShape
  /\ Phases
  /\ Sized => Sizes
-----------------------------------------------------------------------------
(* As many chunks as threads are no longer than the file (line 153).       *)
LEMMA ChunkFacts ==
  ASSUME job \in Jobs
  PROVE  /\ job.threads \in Nat \ {0} /\ job.threads <= MaxFiles - 1
         /\ MaxFiles \in Nat
         /\ job.file \in Seq(Bytes) /\ FileSize \in Nat
         /\ ChunkSize \in Nat /\ job.threads * ChunkSize <= FileSize
<1>1. /\ job.threads \in Nat \ {0} /\ job.threads <= MaxFiles - 1
      /\ MaxFiles \in Nat /\ job.file \in Seq(Bytes)
  BY MCGrepAssumption
<1>2. FileSize \in Nat
  BY <1>1, LenProperties DEF FileSize
<1>3. \A a \in Nat, b \in Nat \ {0} : a \div b \in Nat /\ b * (a \div b) <= a
  BY SMT
<1>4. QED
  BY <1>1, <1>2, <1>3 DEF ChunkSize

(* Multiples of the chunk size are in the order of their factors.          *)
LEMMA Multiples ==
  ASSUME NEW c \in Nat, NEW m \in Nat, NEW n \in Nat
  PROVE  /\ m <= n => m * c <= n * c
         /\ c > 0 /\ m * c <= n * c => m <= n
         /\ (m + 1) * c = m * c + c
BY SMT

LEMMA LeastNat ==
  ASSUME NEW S, S \subseteq Nat, S # {}
  PROVE  Min(S) \in S
BY LeastOf DEF Min

(* Cutting at the first NUL does not make a line longer (line 211).        *)
LEMMA UpToNulFits ==
  ASSUME NEW S, NEW s \in Seq(S)
  PROVE  UpToNul(s) \in Seq(S) /\ Len(UpToNul(s)) <= Len(s)
<1> DEFINE nuls == {i \in 1..Len(s) : s[i] = "nul"}
           first == IF nuls # {} THEN Min(nuls) ELSE 0
<1>1. Len(s) \in Nat
  BY LenProperties
<1>2. UpToNul(s) = IF first = 0 THEN s ELSE SubSeq(s, 1, first - 1)
  BY Zenon DEF UpToNul, SelectInSeq
<1>3. first \in 0..Len(s)
  <2>1. nuls \subseteq Nat /\ nuls \subseteq 0..Len(s)
    BY <1>1
  <2>2. nuls # {} => Min(nuls) \in nuls
    BY <2>1, LeastNat, Zenon
  <2>3. first = 0 \/ (nuls # {} /\ first = Min(nuls))
    BY Zenon
  <2>4. first = 0 \/ first \in 1..Len(s)
    BY <2>2, <2>3, Zenon
  <2> HIDE DEF first
  <2>5. QED
    BY <1>1, <2>4
<1> HIDE DEF first
<1>4. CASE first = 0
  BY <1>1, <1>2, <1>4
<1>5. CASE first # 0
  <2>1. \A j \in 1..first - 1 : s[j] \in S
    BY <1>1, <1>3, ElementOfSeq
  <2>2. /\ SubSeq(s, 1, first - 1) \in Seq(S)
        /\ Len(SubSeq(s, 1, first - 1)) =
             IF 1 <= first - 1 THEN first - 1 - 1 + 1 ELSE 0
    BY <1>3, <2>1, SubSeqProperties
  <2>3. QED
    BY <1>1, <1>2, <1>3, <1>5, <2>2
<1>6. QED
  BY <1>4, <1>5

(* Replacing bytes keeps the length (lines 213-230).                       *)
LEMMA PrintedFits ==
  ASSUME NEW s \in Seq(Bytes)
  PROVE  Printed(s) \in Seq(Bytes) /\ Len(Printed(s)) = Len(s)
<1>1. Len(s) \in Nat /\ DOMAIN s = 1..Len(s) /\ \A i \in 1..Len(s) : s[i] \in Bytes
  BY LenProperties, ElementOfSeq
<1>2. Printed(s) \in [1..Len(s) -> Bytes]
  BY <1>1 DEF Printed, Bytes
<1>3. QED
  BY <1>1, <1>2

(* Clean bytes are printed as what is no '%', and fprintf then writes them *)
(* as they are (line 229).                                                 *)
LEMMA PlainClean ==
  ASSUME NEW s \in Seq(Bytes), Plain(s)
  PROVE  s \in Seq(Clean)
<1>1. Len(s) \in Nat /\ DOMAIN s = 1..Len(s) /\ \A i \in 1..Len(s) : s[i] \in Bytes
  BY LenProperties, ElementOfSeq
<1>2. Len(Printed(s)) = Len(s)
  BY PrintedFits
<1>3. \A i \in 1..Len(s) : Printed(s)[i] # job.percent
  BY <1>2 DEF Plain, Contains
<1>4. \A i \in 1..Len(s) : s[i] \in Clean
  BY <1>1, <1>3 DEF Printed, Clean
<1>5. s \in [1..Len(s) -> Clean]
  BY <1>1, <1>4
<1>6. QED
  BY <1>1, <1>5

LEMMA CleanBytes ==
  ASSUME NEW s \in Seq(Clean)
  PROVE  s \in Seq(Bytes)
<1>1. Len(s) \in Nat /\ s \in [1..Len(s) -> Clean]
  BY LenProperties
<1>2. s \in [1..Len(s) -> Bytes]
  BY <1>1 DEF Clean
<1>3. QED
  BY <1>1, <1>2

LEMMA CleanPrinted ==
  ASSUME NEW s \in Seq(Clean)
  PROVE  /\ Fprintf(Printed(s)) = {Printed(s)}
         /\ Conversions(Printed(s)) = {}
<1>1. /\ Len(s) \in Nat /\ DOMAIN s = 1..Len(s)
      /\ \A i \in 1..Len(s) : s[i] \in Clean
  BY LenProperties, ElementOfSeq
<1>2. Len(Printed(s)) = Len(s) /\ DOMAIN Printed(s) = 1..Len(s)
  BY <1>1, CleanBytes, PrintedFits DEF Printed
<1>3. \A i \in 1..Len(s) : Printed(s)[i] # job.percent
  BY <1>1 DEF Printed, Clean
<1>4. QED
  BY <1>2, <1>3, Zenon DEF Fprintf, Conversions, Begins, Contains

(* A chunk is as long as its name says (lines 165-178).                    *)
LEMMA ChunkBytesFit ==
  ASSUME job \in Jobs, NEW n \in Nat
  PROVE  PlainText => FitsPlain(ChunkBytes(n))
<1> SUFFICES ASSUME PlainText PROVE FitsPlain(ChunkBytes(n))
  OBVIOUS
<1>1. /\ ChunkSize \in Nat /\ FileSize \in Nat /\ MappingEnd \in Int
      /\ \A m \in 1..FileSize : job.file[m] \in Clean
  BY ChunkFacts, PlainClean, ElementOfSeq, MCGrepAssumption
     DEF FileSize, MappingEnd, PlainText
<1>2. ChunkBytes(n) \in [1..ChunkSize -> Clean]
  <2>1. ASSUME NEW j \in 1..ChunkSize
        PROVE  (CASE n + j <= FileSize  -> job.file[n + j]
                  [] n + j > MappingEnd -> "junk"
                  [] OTHER              -> "nul") \in Clean
    <3>1. "junk" \in Clean /\ "nul" \in Clean
      BY MCGrepAssumption DEF Clean, Bytes
    <3>2. QED
      BY <1>1, <3>1
  <2>2. QED
    BY <2>1 DEF ChunkBytes
<1>3. QED
  BY <1>1, <1>2 DEF FitsPlain
-----------------------------------------------------------------------------
(***************************************************************************)
(* Each action keeps the invariant.                                        *)
(***************************************************************************)
LEMMA InitHolds == Init => IInv
<1> SUFFICES ASSUME Init PROVE IInv
  OBVIOUS
<1>1. job \in Jobs /\ MaxFiles \in Nat /\ job.threads \in Nat \ {0} /\ MaxRuns \in Nat \ {0}
  BY ChunkFacts, MCGrepAssumption DEF Init
<1>2. pc = "parse" /\ k = 1 /\ DOMAIN thr = {} /\ DOMAIN tmp = {} /\ DOMAIN out = {}
  BY DEF Init
<1>3. TypeOK /\ ThreadShape
  BY <1>1, <1>2 DEF Init, TypeOK, ThreadShape
<1>4. Phases
  BY <1>1, <1>2, ChunkFacts DEF Init, Phases, JoinedBeforeWrap
<1>5. Sizes
  BY <1>2 DEF Sizes, Parsed
<1>6. QED
  BY <1>3, <1>4, <1>5 DEF IInv

LEMMA NextRunKeeps == IInv /\ NextRun => IInv'
<1> SUFFICES ASSUME IInv, NextRun PROVE IInv'
  OBVIOUS
<1>1. /\ job' \in Jobs /\ MaxFiles \in Nat /\ MaxRuns \in Nat
      /\ runs \in Nat
  BY MCGrepAssumption DEF IInv, TypeOK, NextRun
<1>2. QED
  BY <1>1, MCGrepAssumption
     DEF NextRun, IInv, TypeOK, ThreadShape, Phases, JoinedBeforeWrap, Sizes,
         Parsed

(* The sizes hang on the command line alone.                               *)
LEMMA SameJob ==
  ASSUME job' = job
  PROVE  /\ Threads' = Threads /\ FileSize' = FileSize /\ ChunkSize' = ChunkSize
         /\ PlainText' = PlainText /\ Sized' = Sized /\ Clean' = Clean
         /\ \A f : Fits(f)' <=> Fits(f)
         /\ \A f : FitsPlain(f)' <=> FitsPlain(f)
<1>1. /\ Threads' = Threads /\ FileSize' = FileSize /\ ChunkSize' = ChunkSize
      /\ PlainText' = PlainText /\ Clean' = Clean
  BY DEF Threads, FileSize, ChunkSize, PlainText, Plain, Printed, Clean
<1>2. QED
  BY <1>1 DEF Fits, FitsPlain, Sized

(* A round of parse leaves one more chunk behind (lines 153-186).          *)
LEMMA ParseChunkKeeps == IInv /\ ParseChunk => IInv'
<1> SUFFICES ASSUME IInv, ParseChunk PROVE IInv'
  OBVIOUS
<1>1. /\ job \in Jobs /\ job' = job /\ pc = "parse" /\ pc' = "parse"
      /\ UNCHANGED <<thr, out, result, runs>>
      /\ DOMAIN thr = {} /\ k \in 1..MaxFiles /\ runs \in 1..MaxRuns
      /\ DOMAIN tmp \subseteq 1..MaxFiles /\ DOMAIN out \subseteq 1..MaxFiles
      /\ MaxFiles \in Nat
  BY MCGrepAssumption DEF IInv, TypeOK, Phases, ParseChunk
<1>2. k' \in 1..MaxFiles /\ k \in Nat /\ (k' = k \/ k' = k + 1)
  BY <1>1 DEF ParseChunk
<1>3. /\ DOMAIN tmp' = DOMAIN tmp \cup {k}
      /\ \A m \in DOMAIN tmp : m # k => tmp'[m] = tmp[m]
  BY DEF ParseChunk, Overwrite
<1>4. PlainText /\ ChunkSize > 0 => FitsPlain(tmp'[k])
  <2>1. Offset \in Nat
    BY <1>1, ChunkFacts DEF Offset
  <2>2. ChunkSize > 0 => tmp'[k] = ChunkBytes(Offset)
    BY DEF ParseChunk, Overwrite
  <2>3. QED
    BY <1>1, <2>1, <2>2, ChunkBytesFit
<1>5. (Sized => Sizes)'
  <2>1. ASSUME Sized, ChunkSize > 0, NEW m, m \in 1..k' - 1
        PROVE  m \in DOMAIN tmp' /\ FitsPlain(tmp'[m])
    <3>1. m = k \/ (m \in 1..k - 1 /\ m # k)
      <4>1. CASE k' = k
        BY <1>2, <2>1, <4>1
      <4>2. CASE k' = k + 1
        BY <1>2, <2>1, <4>2
      <4>3. QED
        BY <1>2, <4>1, <4>2
    <3>2. QED
      BY <1>1, <1>3, <1>4, <2>1, <3>1 DEF IInv, Sizes, Sized
  <2>2. QED
    BY <1>1, <2>1, SameJob DEF Sizes, Parsed
<1>6. QED
  BY <1>1, <1>2, <1>3, <1>5, SameJob
     DEF IInv, TypeOK, ThreadShape, Phases, JoinedBeforeWrap

LEMMA ParseFaultsKeeps == IInv /\ ParseFaults => IInv'
<1> SUFFICES ASSUME IInv, ParseFaults PROVE IInv'
  OBVIOUS
<1>1. /\ k \in 1..MaxFiles /\ MaxFiles \in Nat
      /\ DOMAIN tmp' = DOMAIN tmp \cup {k} /\ job' = job
  BY MCGrepAssumption DEF IInv, TypeOK, Phases, ParseFaults, Overwrite
<1>2. QED
  BY <1>1, SameJob
     DEF ParseFaults, IInv, TypeOK, ThreadShape, Phases, JoinedBeforeWrap, Sizes,
         Parsed

(* When parse is through, every thread has a chunk (lines 154 and 187).    *)
LEMMA AllParsed ==
  ASSUME IInv, ParseDone, FileSize > 0
  PROVE  ChunkSize > 0 /\ job.threads <= k - 1
<1>1. /\ job \in Jobs /\ k \in 1..MaxFiles /\ MaxFiles \in Nat
      /\ Offset >= FileSize
  BY MCGrepAssumption DEF IInv, TypeOK, Phases, ParseDone
<1>2. /\ job.threads \in Nat \ {0} /\ job.threads <= MaxFiles - 1
      /\ FileSize \in Nat /\ ChunkSize \in Nat
      /\ job.threads * ChunkSize <= FileSize
  BY <1>1, ChunkFacts
<1>3. (k - 1) * ChunkSize >= FileSize
  BY <1>1 DEF Offset
<1>4. ChunkSize > 0
  BY <1>1, <1>2, <1>3
<1>5. job.threads * ChunkSize <= (k - 1) * ChunkSize
  BY <1>1, <1>2, <1>3
<1>6. QED
  BY <1>1, <1>2, <1>4, <1>5, Multiples

LEMMA ParseDoneKeeps == IInv /\ ParseDone => IInv'
<1> SUFFICES ASSUME IInv, ParseDone PROVE IInv'
  OBVIOUS
<1>1. /\ job \in Jobs /\ job' = job /\ pc = "parse" /\ pc' = "create" /\ k' = 1
      /\ UNCHANGED <<thr, tmp, out, result, runs>>
      /\ DOMAIN thr = {} /\ k \in 1..MaxFiles /\ MaxFiles \in Nat
  BY MCGrepAssumption DEF IInv, TypeOK, Phases, ParseDone
<1>2. /\ job.threads \in Nat \ {0} /\ job.threads <= MaxFiles - 1
      /\ FileSize \in Nat /\ ChunkSize \in Nat
  BY <1>1, ChunkFacts
<1>3. FileSize > 0 => ChunkSize > 0 /\ job.threads <= k - 1
  BY AllParsed
<1>4. (Sized => Sizes)'
  BY <1>1, <1>2, <1>3, SameJob DEF IInv, Sizes, Sized, Parsed, Threads
<1>5. QED
  BY <1>1, <1>2, <1>4, SameJob
     DEF IInv, TypeOK, ThreadShape, Phases, JoinedBeforeWrap, Threads

LEMMA CreateThreadKeeps == IInv /\ CreateThread => IInv'
<1> SUFFICES ASSUME IInv, CreateThread PROVE IInv'
  OBVIOUS
<1>1. /\ job \in Jobs /\ job' = job /\ pc = "create"
      /\ UNCHANGED <<tmp, out, result, runs>>
      /\ k \in 1..job.threads /\ DOMAIN thr = 1..k - 1
      /\ job.threads \in Nat \ {0} /\ job.threads <= MaxFiles - 1 /\ MaxFiles \in Nat
  BY ChunkFacts DEF IInv, TypeOK, Phases, CreateThread, Threads
<1>2. /\ DOMAIN thr' = 1..k
      /\ \A t \in DOMAIN thr : thr'[t] = thr[t]
      /\ thr'[k] = NewThread
  BY <1>1 DEF CreateThread, Overwrite
<1>3. \/ k < job.threads /\ k' = k + 1 /\ pc' = "create"
      \/ k = job.threads /\ k' = 1 /\ pc' = "join"
  BY <1>1 DEF CreateThread
<1>4. TypeOK' /\ ThreadShape'
  <2>1. ASSUME NEW t \in DOMAIN thr'
        PROVE  /\ thr'[t] = [pc |-> thr'[t].pc, rest |-> thr'[t].rest,
                             buf |-> thr'[t].buf]
               /\ thr'[t].pc \in {"open", "read", "done"}
    <3>1. t = k \/ t \in DOMAIN thr
      BY <1>1, <1>2
    <3>2. QED
      BY <1>2, <3>1 DEF IInv, ThreadShape, TypeOK, NewThread
  <2>2. DOMAIN thr' \subseteq Threads
    BY <1>1, <1>2 DEF Threads
  <2>3. k' \in 1..MaxFiles + 1 /\ pc' \in {"create", "join"}
    BY <1>1, <1>3
  <2>4. QED
    BY <1>1, <2>1, <2>2, <2>3, SameJob DEF IInv, TypeOK, ThreadShape
<1>5. Phases'
  BY <1>1, <1>2, <1>3 DEF IInv, Phases, JoinedBeforeWrap, Threads
<1>6. (Sized => Sizes)'
  <2>1. ASSUME Sized, NEW t \in DOMAIN thr'
        PROVE  ThreadFits(t)'
    <3>1. t = k \/ t \in DOMAIN thr
      BY <1>1, <1>2
    <3>2. CASE t = k
      BY <1>2, <3>2 DEF ThreadFits, NewThread
    <3>3. CASE t \in DOMAIN thr
      <4>1. ThreadFits(t)
        BY <1>1, <2>1, <3>3 DEF IInv, Sizes, Parsed
      <4>2. QED
        BY <1>1, <1>2, <3>3, <4>1, SameJob DEF ThreadFits
    <3>4. QED
      BY <3>1, <3>2, <3>3
  <2>2. QED
    BY <1>1, <1>3, <2>1, SameJob DEF IInv, Sizes, Parsed
<1>7. QED
  BY <1>4, <1>5, <1>6 DEF IInv

(* What fits a thread, fits it until the thread or its file changes.      *)
LEMMA ThreadFitsStays ==
  ASSUME UNCHANGED <<job, thr, out>>
  PROVE  \A t : ThreadFits(t)' <=> ThreadFits(t)
BY SameJob DEF ThreadFits

(* The last join leaves every thread done (lines 109-116).                 *)
LEMMA JoinThreadKeeps == IInv /\ JoinThread => IInv'
<1> SUFFICES ASSUME IInv, JoinThread PROVE IInv'
  OBVIOUS
<1>1. /\ job \in Jobs /\ job' = job /\ pc = "join"
      /\ UNCHANGED <<thr, tmp, out, result, runs>>
      /\ k \in 1..job.threads /\ DOMAIN thr = 1..job.threads
      /\ \A t \in 1..k : thr[t].pc = "done"
      /\ result = << >>
      /\ job.threads \in Nat \ {0} /\ job.threads <= MaxFiles - 1 /\ MaxFiles \in Nat
  BY ChunkFacts DEF IInv, TypeOK, Phases, JoinThread, Threads
<1>2. \/ k < job.threads /\ k' = k + 1 /\ pc' = "join"
      \/ k = job.threads /\ k' = 1 /\ pc' = "wrap"
  BY <1>1 DEF JoinThread
<1>3. Phases'
  BY <1>1, <1>2 DEF Phases, JoinedBeforeWrap, Threads
<1>4. (Sized => Sizes)'
  <2>1. CASE ~Sized
    BY <1>1, <2>1, SameJob
  <2>2. CASE Sized
    <3>1. ChunkSize \in Nat
      BY <1>1, ChunkFacts
    <3>2. pc' = "wrap" => /\ result' \in Seq(Bytes)
                          /\ Len(result') <= (k' - 1) * ChunkSize
      BY <1>1, <1>2, <3>1
    <3>3. QED
      BY <1>1, <1>2, <2>2, <3>2, SameJob, ThreadFitsStays DEF IInv, Sizes, Parsed
  <2>3. QED
    BY <2>1, <2>2
<1>5. QED
  BY <1>1, <1>2, <1>3, <1>4, SameJob DEF IInv, TypeOK, ThreadShape

(* A complete .out file is appended to the output (lines 256-281, 297-326).*)
LEMMA WrapFileKeeps == IInv /\ WrapFile => IInv'
<1> SUFFICES ASSUME IInv, WrapFile PROVE IInv'
  OBVIOUS
<1>1. /\ job \in Jobs /\ job' = job /\ pc = "wrap"
      /\ UNCHANGED <<thr, tmp, out, runs>>
      /\ k \in 1..job.threads
      /\ \A t \in Threads : t \in DOMAIN thr /\ thr[t].pc = "done"
      /\ job.threads \in Nat \ {0} /\ job.threads <= MaxFiles - 1 /\ MaxFiles \in Nat
      /\ FileSize \in Nat /\ ChunkSize \in Nat
  BY ChunkFacts DEF IInv, TypeOK, Phases, JoinedBeforeWrap, WrapFile, Threads
<1>2. result' = result \o out[k] /\ k' = k + 1 /\ pc' = "wrap"
  BY <1>1 DEF WrapFile
<1>3. QED
  <2>1. Sized => /\ result' \in Seq(Bytes)
                 /\ Len(result') <= (k' - 1) * ChunkSize
    <3>1. SUFFICES ASSUME Sized
                   PROVE  /\ result' \in Seq(Bytes)
                          /\ Len(result') <= (k' - 1) * ChunkSize
      OBVIOUS
    <3>2. /\ result \in Seq(Bytes) /\ Len(result) <= (k - 1) * ChunkSize
          /\ out[k] \in Seq(Bytes) /\ Len(out[k]) <= ChunkSize
      BY <1>1, <3>1 DEF IInv, Sizes, Parsed, ThreadFits, Fits, Threads
    <3>3. /\ result \o out[k] \in Seq(Bytes)
          /\ Len(result \o out[k]) = Len(result) + Len(out[k])
          /\ Len(result) \in Nat /\ Len(out[k]) \in Nat
      BY <3>2, ConcatProperties, LenProperties
    <3>4. k \in Nat /\ k - 1 \in Nat /\ (k - 1 + 1) * ChunkSize = (k - 1) * ChunkSize + ChunkSize
      BY <1>1, Multiples
    <3>5. k' - 1 = k - 1 + 1 /\ (k - 1) * ChunkSize \in Nat
      BY <1>1, <1>2, <3>4
    <3>6. QED
      BY <1>1, <1>2, <3>2, <3>3, <3>4, <3>5
  <2>2. (Sized => Sizes)'
    BY <1>1, <1>2, <2>1, SameJob, ThreadFitsStays DEF IInv, Sizes, Parsed
  <2>3. QED
    BY <1>1, <1>2, <2>2, SameJob
       DEF IInv, TypeOK, ThreadShape, Phases, JoinedBeforeWrap

(* The copy behind the mapping ends the program (line 273).                *)
LEMMA WrapFaultsKeeps == IInv /\ WrapFaults => IInv'
<1> SUFFICES ASSUME IInv, WrapFaults PROVE IInv'
  OBVIOUS
<1>1. job' = job /\ pc' = "crashed" /\ UNCHANGED <<k, thr, tmp, out, result, runs>>
  BY DEF WrapFaults
<1>2. QED
  BY <1>1, SameJob
     DEF IInv, TypeOK, ThreadShape, Phases, JoinedBeforeWrap, Sizes, Parsed

LEMMA WrapDoneKeeps == IInv /\ WrapDone => IInv'
<1> SUFFICES ASSUME IInv, WrapDone PROVE IInv'
  OBVIOUS
<1>1. /\ job' = job /\ pc = "wrap" /\ pc' = "done"
      /\ UNCHANGED <<k, thr, tmp, out, runs>>
  BY DEF WrapDone
<1>2. QED
  BY <1>1, SameJob
     DEF IInv, TypeOK, ThreadShape, Phases, JoinedBeforeWrap, Sizes, Parsed

(* A step of one thread touches the thread and its own .out file, and is   *)
(* taken only while main creates or joins threads.                         *)
LEMMA GrepStepKeeps ==
  ASSUME IInv, Running, NEW t \in DOMAIN thr, thr[t].pc # "done",
         DOMAIN thr' = DOMAIN thr,
         \A u \in DOMAIN thr : u # t => thr'[u] = thr[u],
         thr'[t] = [pc |-> thr'[t].pc, rest |-> thr'[t].rest, buf |-> thr'[t].buf],
         thr'[t].pc \in {"open", "read", "done"},
         pc' \in {pc, "crashed"}, UNCHANGED <<job, k, tmp, result, runs>>,
         DOMAIN out' \in {DOMAIN out, DOMAIN out \cup {t}},
         \A u \in DOMAIN out : u # t => out'[u] = out[u],
         Sized /\ pc' # "crashed" => ThreadFits(t)'
  PROVE  IInv'
<1>1. /\ job \in Jobs /\ pc \in {"create", "join"} /\ job' = job
      /\ DOMAIN thr \subseteq 1..job.threads
      /\ job.threads \in Nat \ {0} /\ job.threads <= MaxFiles - 1 /\ MaxFiles \in Nat
  BY ChunkFacts DEF IInv, TypeOK, Phases, JoinedBeforeWrap, Running, Threads
<1>2. \A u \in DOMAIN thr : u # t /\ ThreadFits(u) => ThreadFits(u)'
  BY <1>1, SameJob DEF ThreadFits
<1>3. (Sized => Sizes)'
  BY <1>1, <1>2, SameJob DEF IInv, Sizes, Parsed
<1>4. TypeOK' /\ ThreadShape'
  <2>1. DOMAIN out' \subseteq 1..MaxFiles
    BY <1>1 DEF IInv, TypeOK
  <2>2. \A u \in DOMAIN thr' :
          /\ thr'[u].pc \in {"open", "read", "done"}
          /\ thr'[u] = [pc |-> thr'[u].pc, rest |-> thr'[u].rest,
                        buf |-> thr'[u].buf]
    BY DEF IInv, TypeOK, ThreadShape
  <2>3. QED
    BY <1>1, <2>1, <2>2, SameJob DEF IInv, TypeOK, ThreadShape
<1>5. Phases'
  <2>1. CASE pc = "create"
    BY <1>1, <2>1, SameJob DEF IInv, Phases, JoinedBeforeWrap
  <2>2. CASE pc = "join"
    <3>1. /\ k \in 1..job.threads /\ DOMAIN thr = 1..job.threads
          /\ \A u \in 1..k - 1 : thr[u].pc = "done"
          /\ result = << >>
      BY <2>2 DEF IInv, Phases, Threads
    <3>2. \A u \in 1..k - 1 : u \in DOMAIN thr /\ u # t
      BY <1>1, <3>1
    <3>3. \A u \in 1..k - 1 : thr'[u].pc = "done"
      BY <3>1, <3>2
    <3>4. QED
      BY <1>1, <2>2, <3>1, <3>3, SameJob DEF Phases, JoinedBeforeWrap, Threads
  <2>3. QED
    BY <1>1, <2>1, <2>2
<1>6. QED
  BY <1>3, <1>4, <1>5 DEF IInv

LEMMA OpenKeeps ==
  ASSUME IInv, NEW t \in Threads, Open(t)
  PROVE  IInv'
<1>1. /\ Running /\ t \in DOMAIN thr /\ thr[t].pc = "open"
      /\ DOMAIN thr' = DOMAIN thr
      /\ \A u \in DOMAIN thr : u # t => thr'[u] = thr[u]
      /\ pc' \in {pc, "crashed"} /\ UNCHANGED <<job, k, tmp, result, runs>>
  BY DEF Open
<1>2. /\ DOMAIN out' = DOMAIN out \cup {t} /\ out'[t] = << >>
      /\ \A u \in DOMAIN out : u # t => out'[u] = out[u]
  BY DEF Open, Overwrite
<1>3. thr[t] = [pc |-> thr[t].pc, rest |-> thr[t].rest, buf |-> thr[t].buf]
  BY <1>1 DEF IInv, ThreadShape
<1>4. CASE t \notin DOMAIN tmp
  <2>1. pc' = "crashed" /\ thr' = thr
    BY <1>4 DEF Open
  <2>2. QED
    BY <1>1, <1>2, <1>3, <2>1, GrepStepKeeps
<1>5. CASE t \in DOMAIN tmp
  <2>1. thr'[t] = [pc |-> "read", rest |-> tmp[t], buf |-> thr[t].buf]
    BY <1>1, <1>3, <1>5 DEF Open
  <2>2. ASSUME Sized
        PROVE  ThreadFits(t)'
    <3>1. Parsed
      BY <1>1 DEF IInv, TypeOK, Parsed, Phases, Running
    <3>2. FitsPlain(tmp[t]) /\ thr[t].buf = << >>
      BY <1>1, <2>2, <3>1 DEF IInv, Sizes, ThreadFits
    <3>3. /\ tmp[t] \in Seq(Clean) /\ Len(tmp[t]) \in Nat
          /\ Len(tmp[t]) + Len(<< >>) <= ChunkSize
      BY <3>2, LenProperties, EmptySeq, ChunkFacts DEF FitsPlain, IInv, TypeOK
    <3>4. << >> \in Seq(Bytes)
      OBVIOUS
    <3>5. QED
      BY <1>1, <1>2, <2>1, <3>2, <3>3, <3>4, SameJob DEF ThreadFits
  <2>3. QED
    BY <1>1, <1>2, <1>3, <2>1, <2>2, GrepStepKeeps
<1>6. QED
  BY <1>4, <1>5

(* Where no '%' is printed, the line is written as it is (lines 206-230).  *)
LEMMA ReadsOn ==
  ASSUME IInv, NEW t \in Threads, ReadLine(t)
  PROVE  \E n \in 1..Len(thr[t].rest) :
           /\ PieceEnd(thr[t].rest, n)
           /\ \E text \in IF Contains(Line(t, n), "hit")
                            THEN Fprintf(Printed(Line(t, n))) ELSE {<< >>} :
                thr'[t] = [pc |-> "read",
                           rest |-> SubSeq(thr[t].rest, n + 1, Len(thr[t].rest)),
                           buf |-> thr[t].buf \o text]
<1>1. t \in DOMAIN thr /\ thr[t].pc = "read"
  BY DEF ReadLine
<1>2. thr[t] = [pc |-> "read", rest |-> thr[t].rest, buf |-> thr[t].buf]
  BY <1>1 DEF IInv, ThreadShape
<1>3. PICK n \in 1..Len(thr[t].rest) :
        /\ PieceEnd(thr[t].rest, n)
        /\ \E text \in IF Contains(Line(t, n), "hit")
                         THEN Fprintf(Printed(Line(t, n))) ELSE {<< >>} :
             thr' = [thr EXCEPT ![t].rest = SubSeq(@, n + 1, Len(@)),
                                ![t].buf = @ \o text]
  BY Zenon DEF ReadLine
<1>4. ASSUME NEW text, thr' = [thr EXCEPT ![t].rest = SubSeq(@, n + 1, Len(@)),
                                          ![t].buf = @ \o text]
      PROVE  thr'[t] = [pc |-> "read",
                        rest |-> SubSeq(thr[t].rest, n + 1, Len(thr[t].rest)),
                        buf |-> thr[t].buf \o text]
  BY <1>1, <1>2, <1>4
<1>5. QED
  BY <1>3, <1>4, Zenon

LEMMA ReadsPlainly ==
  ASSUME IInv, NEW t \in Threads, ReadLine(t), Sized
  PROVE  \E n \in 1..Len(thr[t].rest) :
           /\ PieceEnd(thr[t].rest, n)
           /\ thr'[t] = [pc |-> "read",
                         rest |-> SubSeq(thr[t].rest, n + 1, Len(thr[t].rest)),
                         buf |-> IF Contains(Line(t, n), "hit")
                                 THEN thr[t].buf \o Printed(Line(t, n))
                                 ELSE thr[t].buf]
<1>1. Running /\ t \in DOMAIN thr /\ thr[t].pc = "read"
  BY DEF ReadLine
<1>2. thr[t].rest \in Seq(Clean) /\ thr[t].buf \in Seq(Bytes)
  BY <1>1 DEF IInv, TypeOK, Parsed, Phases, Running, Sizes, ThreadFits
<1>3. PICK n \in 1..Len(thr[t].rest) :
        /\ PieceEnd(thr[t].rest, n)
        /\ \E text \in IF Contains(Line(t, n), "hit")
                         THEN Fprintf(Printed(Line(t, n))) ELSE {<< >>} :
             thr'[t] = [pc |-> "read",
                        rest |-> SubSeq(thr[t].rest, n + 1, Len(thr[t].rest)),
                        buf |-> thr[t].buf \o text]
  BY ReadsOn, Zenon
<1>4. PICK text \in IF Contains(Line(t, n), "hit")
                    THEN Fprintf(Printed(Line(t, n))) ELSE {<< >>} :
        thr'[t] = [pc |-> "read",
                   rest |-> SubSeq(thr[t].rest, n + 1, Len(thr[t].rest)),
                   buf |-> thr[t].buf \o text]
  BY <1>3, Zenon
<1>5. Line(t, n) \in Seq(Clean)
  <2>1. /\ Len(thr[t].rest) \in Nat
        /\ \A i \in 1..Len(thr[t].rest) : thr[t].rest[i] \in Clean
    BY <1>2, LenProperties, ElementOfSeq
  <2>2. \A i \in 1..n : thr[t].rest[i] \in Clean
    BY <2>1
  <2>3. SubSeq(thr[t].rest, 1, n) \in Seq(Clean)
    BY <2>1, <2>2, SubSeqProperties
  <2>4. QED
    BY <2>3, UpToNulFits DEF Line
<1>6. Fprintf(Printed(Line(t, n))) = {Printed(Line(t, n))}
  BY <1>5, CleanPrinted
<1>7. text = IF Contains(Line(t, n), "hit") THEN Printed(Line(t, n)) ELSE << >>
  BY <1>4, <1>6, Zenon
<1>8. thr[t].buf \o << >> = thr[t].buf
  BY <1>2, ConcatEmptySeq
<1>9. thr[t].buf \o text = IF Contains(Line(t, n), "hit")
                           THEN thr[t].buf \o Printed(Line(t, n)) ELSE thr[t].buf
  BY <1>7, <1>8, Zenon
<1>10. QED
  BY <1>3, <1>4, <1>9

(* What is kept of a piece is not longer than the piece (lines 206-230).   *)
LEMMA ReadLineKeeps ==
  ASSUME IInv, NEW t \in Threads, ReadLine(t)
  PROVE  IInv'
<1>1. /\ Running /\ t \in DOMAIN thr /\ thr[t].pc = "read"
      /\ DOMAIN thr' = DOMAIN thr
      /\ \A u \in DOMAIN thr : u # t => thr'[u] = thr[u]
      /\ UNCHANGED <<job, pc, k, tmp, out, result, runs>>
  BY DEF ReadLine
<1>2. thr[t] = [pc |-> "read", rest |-> thr[t].rest, buf |-> thr[t].buf]
  BY <1>1 DEF IInv, ThreadShape
<1> DEFINE rest == thr[t].rest
           buf == thr[t].buf
           line(n) == Line(t, n)
<1>3. /\ thr'[t] = [pc |-> thr'[t].pc, rest |-> thr'[t].rest, buf |-> thr'[t].buf]
      /\ thr'[t].pc = "read"
  <2>1. PICK n, text :
          thr'[t] = [pc |-> "read",
                     rest |-> SubSeq(thr[t].rest, n + 1, Len(thr[t].rest)),
                     buf |-> thr[t].buf \o text]
    BY ReadsOn, Zenon
  <2>2. QED
    BY <2>1
<1>4. ASSUME Sized
      PROVE  ThreadFits(t)'
  <2>a. PICK n \in 1..Len(rest) :
          thr'[t] = [pc |-> "read", rest |-> SubSeq(rest, n + 1, Len(rest)),
                     buf |-> IF Contains(line(n), "hit")
                             THEN buf \o Printed(line(n)) ELSE buf]
    BY <1>4, ReadsPlainly, Zenon
  <2> HIDE DEF rest, buf, line
  <2>0. /\ thr'[t] = [pc |-> "read", rest |-> SubSeq(rest, n + 1, Len(rest)),
                      buf |-> thr'[t].buf]
        /\ thr'[t].buf \in {buf, buf \o Printed(line(n))}
    BY <2>a
  <2>1. Parsed /\ ChunkSize \in Nat
    BY <1>1, ChunkFacts DEF IInv, TypeOK, Parsed, Phases, Running
  <2>2. /\ t \in DOMAIN out /\ out[t] = << >>
        /\ rest \in Seq(Clean) /\ buf \in Seq(Bytes)
        /\ Len(rest) + Len(buf) <= ChunkSize
    BY <1>1, <1>4, <2>1 DEF IInv, Sizes, ThreadFits, rest, buf
  <2>3. Len(rest) \in Nat /\ Len(buf) \in Nat /\ n \in 1..Len(rest)
    BY <2>2, LenProperties
  <2>4. \A i \in 1..Len(rest) : rest[i] \in Clean
    BY <2>2, ElementOfSeq
  <2>5. /\ SubSeq(rest, 1, n) \in Seq(Clean)
        /\ Len(SubSeq(rest, 1, n)) = n
    <3>1. \A i \in 1..n : rest[i] \in Clean
      BY <2>3, <2>4
    <3>2. /\ SubSeq(rest, 1, n) \in Seq(Clean)
          /\ Len(SubSeq(rest, 1, n)) = IF 1 <= n THEN n - 1 + 1 ELSE 0
      BY <2>3, <3>1, SubSeqProperties
    <3>3. QED
      BY <2>3, <3>2
  <2>6. /\ SubSeq(rest, n + 1, Len(rest)) \in Seq(Clean)
        /\ Len(SubSeq(rest, n + 1, Len(rest))) = Len(rest) - n
    <3>1. \A i \in n + 1..Len(rest) : rest[i] \in Clean
      BY <2>3, <2>4
    <3>2. /\ SubSeq(rest, n + 1, Len(rest)) \in Seq(Clean)
          /\ Len(SubSeq(rest, n + 1, Len(rest))) =
               IF n + 1 <= Len(rest) THEN Len(rest) - (n + 1) + 1 ELSE 0
      BY <2>3, <3>1, SubSeqProperties
    <3>3. QED
      BY <2>3, <3>2
  <2>7. /\ line(n) \in Seq(Bytes) /\ Len(line(n)) <= n
        /\ Printed(line(n)) \in Seq(Bytes)
        /\ Len(Printed(line(n))) = Len(line(n))
    <3>1. line(n) \in Seq(Clean) /\ Len(line(n)) <= n
      BY <2>5, UpToNulFits DEF Line, line, rest
    <3>2. QED
      BY <3>1, CleanBytes, PrintedFits
  <2>8. /\ buf \o Printed(line(n)) \in Seq(Bytes)
        /\ Len(buf \o Printed(line(n))) = Len(buf) + Len(line(n))
        /\ Len(line(n)) \in Nat
    <3>1. Len(line(n)) \in Nat
      BY <2>7, LenProperties
    <3>2. /\ buf \o Printed(line(n)) \in Seq(Bytes)
          /\ Len(buf \o Printed(line(n))) = Len(buf) + Len(Printed(line(n)))
      BY <2>2, <2>7, ConcatProperties, Zenon
    <3>3. QED
      BY <2>7, <3>1, <3>2, Zenon
  <2>9. /\ thr'[t].buf \in Seq(Bytes)
        /\ Len(thr'[t].buf) <= Len(buf) + n
    <3>1. CASE thr'[t].buf = buf
      BY <2>2, <2>3, <3>1
    <3>2. CASE thr'[t].buf = buf \o Printed(line(n))
      <4>1. Len(thr'[t].buf) = Len(buf) + Len(line(n))
        BY <2>8, <3>2
      <4>2. QED
        BY <2>3, <2>7, <2>8, <3>2, <4>1
    <3>3. QED
      BY <2>0, <3>1, <3>2
  <2>10. /\ thr'[t].pc = "read" /\ thr'[t].rest \in Seq(Clean)
         /\ Len(thr'[t].rest) = Len(rest) - n
    <3>1. /\ thr'[t].pc = "read"
          /\ thr'[t].rest = SubSeq(rest, n + 1, Len(rest))
      BY <2>0
    <3>2. QED
      BY <2>6, <3>1
  <2>11. Len(thr'[t].rest) + Len(thr'[t].buf) <= ChunkSize
    <3>1. Len(thr'[t].buf) \in Nat
      BY <2>9, LenProperties
    <3>2. QED
      BY <2>1, <2>2, <2>3, <2>9, <2>10, <3>1
  <2>12. QED
    BY <1>1, <2>2, <2>9, <2>10, <2>11, SameJob DEF ThreadFits
<1>5. QED
  BY <1>1, <1>3, <1>4, GrepStepKeeps

(* A conversion may end the program instead (line 229).                    *)
LEMMA FprintfFaultsKeeps ==
  ASSUME IInv, NEW t \in Threads, FprintfFaults(t)
  PROVE  IInv'
<1>1. /\ Running /\ t \in DOMAIN thr /\ thr[t].pc = "read" /\ pc' = "crashed"
      /\ UNCHANGED <<job, k, thr, tmp, out, result, runs>>
  BY DEF FprintfFaults
<1>2. thr[t] = [pc |-> thr[t].pc, rest |-> thr[t].rest, buf |-> thr[t].buf]
  BY <1>1 DEF IInv, ThreadShape
<1>3. QED
  BY <1>1, <1>2, GrepStepKeeps

(* fclose leaves a file no longer than the chunk (line 231).               *)
LEMMA CloseKeeps ==
  ASSUME IInv, NEW t \in Threads, Close(t)
  PROVE  IInv'
<1>1. /\ Running /\ t \in DOMAIN thr /\ thr[t].pc = "read"
      /\ thr[t].rest = << >>
      /\ DOMAIN thr' = DOMAIN thr
      /\ \A u \in DOMAIN thr : u # t => thr'[u] = thr[u]
      /\ UNCHANGED <<job, pc, k, tmp, result, runs>>
  BY DEF Close
<1>2. thr[t] = [pc |-> thr[t].pc, rest |-> thr[t].rest, buf |-> thr[t].buf]
  BY <1>1 DEF IInv, ThreadShape
<1>3. thr'[t] = [pc |-> "done", rest |-> thr[t].rest, buf |-> << >>]
  BY <1>1, <1>2 DEF Close
<1>4. /\ DOMAIN out' = DOMAIN out \cup {t}
      /\ out'[t] = out[t] \o thr[t].buf
      /\ \A u \in DOMAIN out : u # t => out'[u] = out[u]
  BY DEF Close, Overwrite
<1>5. ASSUME Sized
      PROVE  ThreadFits(t)'
  <2>1. Parsed /\ ChunkSize \in Nat
    BY <1>1, ChunkFacts DEF IInv, TypeOK, Parsed, Phases, Running
  <2>2. /\ out[t] = << >> /\ thr[t].buf \in Seq(Bytes)
        /\ Len(thr[t].rest) + Len(thr[t].buf) <= ChunkSize
    BY <1>1, <1>5, <2>1 DEF IInv, Sizes, ThreadFits
  <2>3. out'[t] = thr[t].buf
    BY <1>4, <2>2, ConcatEmptySeq
  <2>4. Len(thr[t].rest) = 0 /\ Len(thr[t].buf) \in Nat
    BY <1>1, <2>2, LenProperties, EmptySeq
  <2>5. Fits(out'[t])
    BY <2>1, <2>2, <2>3, <2>4 DEF Fits
  <2>6. QED
    BY <1>1, <1>3, <1>4, <2>5, SameJob DEF ThreadFits
<1>6. QED
  BY <1>1, <1>3, <1>4, <1>5, GrepStepKeeps
-----------------------------------------------------------------------------
LEMMA StepKeeps == IInv /\ [Next]_vars => IInv'
<1> SUFFICES ASSUME IInv, [Next]_vars PROVE IInv'
  OBVIOUS
<1>1. ASSUME NEW t \in Threads, Grep(t)
      PROVE  IInv'
  BY <1>1, OpenKeeps, ReadLineKeeps, FprintfFaultsKeeps, CloseKeeps DEF Grep
<1>2. CASE Main
  BY <1>2, ParseChunkKeeps, ParseFaultsKeeps, ParseDoneKeeps, CreateThreadKeeps,
     JoinThreadKeeps, WrapFileKeeps, WrapFaultsKeeps, WrapDoneKeeps DEF Main
<1>3. CASE UNCHANGED vars
  BY <1>3, SameJob, ThreadFitsStays
     DEF vars, IInv, TypeOK, ThreadShape, Phases, JoinedBeforeWrap, Sizes, Parsed
<1>4. QED
  BY <1>1, <1>2, <1>3, NextRunKeeps DEF Next

(* memcpy(dst+i, src, chunkSize) of line 273: what is there and what comes *)
(* are k multiples of the chunk size, and those fit the file.              *)
LEMMA InvInBounds == IInv => WrapInBounds
<1> SUFFICES ASSUME IInv, pc = "wrap", Sized, k <= job.threads
             PROVE  Len(result) + Len(out[k]) <= FileSize
  BY DEF WrapInBounds, Sized
<1>1. /\ job \in Jobs /\ k \in 1..job.threads /\ job.threads \in Nat
      /\ FileSize \in Nat /\ ChunkSize \in Nat
      /\ job.threads * ChunkSize <= FileSize
  BY ChunkFacts DEF IInv, TypeOK, Phases
<1>2. k \in DOMAIN thr /\ thr[k].pc = "done"
  BY <1>1 DEF IInv, Phases, JoinedBeforeWrap, Threads
<1>3. /\ result \in Seq(Bytes) /\ Len(result) <= (k - 1) * ChunkSize
      /\ out[k] \in Seq(Bytes) /\ Len(out[k]) <= ChunkSize
  BY <1>1, <1>2 DEF IInv, Sizes, Parsed, ThreadFits, Fits, Threads
<1>4. Len(result) \in Nat /\ Len(out[k]) \in Nat
  BY <1>3, LenProperties
<1>5. /\ k \in Nat /\ k - 1 \in Nat
      /\ (k - 1 + 1) * ChunkSize = (k - 1) * ChunkSize + ChunkSize
      /\ k * ChunkSize <= job.threads * ChunkSize
  BY <1>1, Multiples
<1>6. k - 1 + 1 = k /\ (k - 1) * ChunkSize \in Nat
  BY <1>1, <1>5
<1>7. k * ChunkSize = (k - 1) * ChunkSize + ChunkSize
  BY <1>5, <1>6
<1>8. QED
  BY <1>1, <1>3, <1>4, <1>5, <1>6, <1>7

(* Whatever the file, the number of threads, their interleaving and the    *)
(* files an earlier run has left: main wraps only what is complete, and,   *)
(* if no '%' is printed, every memcpy of wrapToFile stays inside the       *)
(* mapping (lines 109-116 and 235-290).                                    *)
THEOREM WrapSafe == Spec => []WrapIsSafe
<1>1. IInv => WrapIsSafe
  BY InvInBounds DEF IInv, Phases, WrapIsSafe
<1>2. QED
  BY <1>1, InitHolds, StepKeeps, PTL DEF Spec

-----------------------------------------------------------------------------
(***************************************************************************)
(* The output is the grep of the chunks.  First, the pieces of a file: the *)
(* recursive function in Pieces exists, as there is no least length        *)
(* without one.                                                            *)
(***************************************************************************)
Nothing == [kept |-> << >>, start |-> 0]

RunsOver(s, n, f) ==
  f = [m \in 0..n |-> IF m = 0 THEN Nothing ELSE AfterByte(s, f[m - 1], m)]

LEMMA RunsOverFacts ==
  ASSUME NEW s, NEW n \in Nat, NEW f, RunsOver(s, n, f)
  PROVE  /\ DOMAIN f = 0..n /\ f[0] = Nothing
         /\ \A m \in 1..n : f[m] = AfterByte(s, f[m - 1], m)
<1> DEFINE g == [m \in 0..n |-> IF m = 0 THEN Nothing ELSE AfterByte(s, f[m - 1], m)]
<1>1. f = g
  BY Zenon DEF RunsOver
<1>2. DOMAIN g = 0..n /\ g[0] = Nothing
  OBVIOUS
<1>3. ASSUME NEW m \in 1..n
      PROVE  g[m] = AfterByte(s, f[m - 1], m)
  <2>1. m \in 0..n /\ m # 0
    OBVIOUS
  <2>2. QED
    BY <2>1, Zenon
<1> HIDE DEF g
<1>4. QED
  BY <1>1, <1>2, <1>3, Zenon

LEMMA RunsOverExists ==
  ASSUME NEW s, NEW n \in Nat
  PROVE  \E f : RunsOver(s, n, f)
<1> DEFINE Missing == {m \in Nat : ~ \E f : RunsOver(s, m, f)}
<1> SUFFICES ASSUME Missing # {} PROVE FALSE
  OBVIOUS
<1>1. PICK m \in Missing : \A i \in Missing : m <= i
  <2>1. Missing \subseteq Nat
    OBVIOUS
  <2> HIDE DEF Missing
  <2>2. QED
    BY <2>1, LeastOf
<1>2. m \in Nat /\ ~ \E f : RunsOver(s, m, f)
  OBVIOUS
<1>3. m # 0
  <2> DEFINE f == [i \in 0..0 |-> Nothing]
  <2>1. [i \in 0..0 |-> IF i = 0 THEN Nothing ELSE AfterByte(s, f[i - 1], i)] = f
    OBVIOUS
  <2>2. RunsOver(s, 0, f)
    BY <2>1, Zenon DEF RunsOver
  <2>3. QED
    BY <1>2, <2>2
<1>4. m - 1 \in Nat /\ m - 1 \notin Missing
  BY <1>1, <1>2, <1>3
<1>5. PICK g : RunsOver(s, m - 1, g)
  BY <1>4
<1>6. /\ DOMAIN g = 0..m - 1 /\ g[0] = Nothing
      /\ \A i \in 1..m - 1 : g[i] = AfterByte(s, g[i - 1], i)
  BY <1>4, <1>5, RunsOverFacts
<1> DEFINE f == [i \in 0..m |-> IF i = m THEN AfterByte(s, g[m - 1], m) ELSE g[i]]
           h == [i \in 0..m |-> IF i = 0 THEN Nothing ELSE AfterByte(s, f[i - 1], i)]
<1>7. ASSUME NEW i \in 0..m PROVE f[i] = h[i]
  <2>1. CASE i = 0
    BY <1>2, <1>3, <1>6, <2>1
  <2>2. CASE i = m
    <3>1. h[m] = AfterByte(s, f[m - 1], m) /\ m - 1 \in 0..m /\ m - 1 # m
      <4>1. m \in 0..m /\ m - 1 \in 0..m /\ m - 1 # m
        BY <1>2, <1>3
      <4>2. QED
        BY <1>3, <4>1, Zenon
    <3>2. f[m - 1] = g[m - 1]
      BY <3>1, Zenon
    <3>3. QED
      BY <2>2, <3>1, <3>2, Zenon
  <2>3. CASE i # 0 /\ i # m
    <3>1. /\ h[i] = AfterByte(s, f[i - 1], i) /\ i - 1 \in 0..m /\ i - 1 # m
          /\ i \in 1..m - 1 /\ f[i] = g[i]
      <4>1. i - 1 \in 0..m /\ i - 1 # m /\ i \in 1..m - 1
        BY <1>2, <2>3
      <4>2. QED
        BY <2>3, <4>1, Zenon
    <3>2. f[i - 1] = g[i - 1]
      BY <3>1, Zenon
    <3>3. QED
      BY <1>6, <3>1, <3>2, Zenon
  <2>4. QED
    BY <2>1, <2>2, <2>3
<1>8. f = h
  BY <1>7
<1>9. RunsOver(s, m, f)
  BY <1>8, Zenon DEF RunsOver
<1>10. QED
  BY <1>2, <1>9

(* A part of a sequence of bytes is one, and as long as its bounds say.    *)
LEMMA SubBytes ==
  ASSUME NEW s \in Seq(Bytes), NEW a \in Nat, NEW b \in 0..Len(s)
  PROVE  /\ SubSeq(s, a + 1, b) \in Seq(Bytes)
         /\ Len(SubSeq(s, a + 1, b)) = IF a <= b THEN b - a ELSE 0
         /\ \A i \in 1..b - a : SubSeq(s, a + 1, b)[i] = s[a + i]
<1>1. Len(s) \in Nat /\ \A i \in 1..Len(s) : s[i] \in Bytes
  BY LenProperties, ElementOfSeq
<1>2. \A i \in a + 1..b : s[i] \in Bytes
  BY <1>1
<1>3. /\ SubSeq(s, a + 1, b) \in Seq(Bytes)
      /\ Len(SubSeq(s, a + 1, b)) =
           IF a + 1 <= b THEN b - (a + 1) + 1 ELSE 0
      /\ \A i \in 1..b - (a + 1) + 1 : SubSeq(s, a + 1, b)[i] = s[(a + 1) + i - 1]
  BY <1>1, <1>2, SubSeqProperties
<1>4. \A i \in 1..b - a : SubSeq(s, a + 1, b)[i] = s[a + i]
  <2>1. ASSUME NEW i \in 1..b - a
        PROVE  i \in 1..b - (a + 1) + 1 /\ (a + 1) + i - 1 = a + i
    BY <1>1
  <2>2. QED
    BY <1>3, <2>1, Zenon
<1>5. QED
  BY <1>1, <1>3, <1>4

LEMMA KeptFits ==
  ASSUME NEW s \in Seq(Bytes)
  PROVE  Kept(s) \in Seq(Bytes)
<1>1. UpToNul(s) \in Seq(Bytes)
  BY UpToNulFits
<1>2. << >> \in Seq(Bytes)
  OBVIOUS
<1>3. QED
  BY <1>1, <1>2 DEF Kept

(* What is kept of the pieces before each byte (lines 206-230).            *)
LEMMA PiecesFacts ==
  ASSUME NEW s \in Seq(Bytes)
  PROVE  /\ Pieces(s)[0] = Nothing
         /\ \A n \in 1..Len(s) : Pieces(s)[n] = AfterByte(s, Pieces(s)[n - 1], n)
         /\ \A n \in 0..Len(s) : /\ Pieces(s)[n].kept \in Seq(Bytes)
                                 /\ Pieces(s)[n].start \in 0..n
<1> DEFINE f == CHOOSE g : RunsOver(s, Len(s), g)
<1>1. Len(s) \in Nat
  BY LenProperties
<1>2. Pieces(s) = f
  BY DEF Pieces, RunsOver, Nothing
<1>3. RunsOver(s, Len(s), f)
  BY <1>1, RunsOverExists
<1>4. /\ f[0] = Nothing
      /\ \A n \in 1..Len(s) : f[n] = AfterByte(s, f[n - 1], n)
  BY <1>1, <1>3, RunsOverFacts
<1> HIDE DEF f
<1> DEFINE Fine(n) == f[n].kept \in Seq(Bytes) /\ f[n].start \in 0..n
           Bad == {n \in 0..Len(s) : ~ Fine(n)}
<1>5. Bad = {}
  <2> SUFFICES ASSUME Bad # {} PROVE FALSE
    OBVIOUS
  <2>1. PICK n \in Bad : \A i \in Bad : n <= i
    <3>1. Bad \subseteq Nat
      OBVIOUS
    <3> HIDE DEF Bad
    <3>2. QED
      BY <3>1, LeastOf
  <2>2. n \in 0..Len(s) /\ ~ Fine(n)
    OBVIOUS
  <2>3. n # 0
    <3>1. Fine(0)
      BY <1>4 DEF Nothing
    <3>2. QED
      BY <2>2, <3>1
  <2>4. n - 1 \in 0..Len(s) /\ n \in 1..Len(s) /\ ~ (n <= n - 1)
    BY <1>1, <2>2, <2>3
  <2>5. n - 1 \notin Bad
    BY <2>1, <2>4, Zenon
  <2>6. /\ f[n - 1].kept \in Seq(Bytes) /\ f[n - 1].start \in 0..n - 1
        /\ f[n] = AfterByte(s, f[n - 1], n)
    BY <1>4, <2>4, <2>5
  <2> DEFINE piece == SubSeq(s, f[n - 1].start + 1, n)
  <2>7. piece \in Seq(Bytes)
    BY <2>4, <2>6, SubBytes
  <2> HIDE DEF piece
  <2>8. f[n - 1].kept \o Kept(piece) \in Seq(Bytes)
    BY <2>6, <2>7, KeptFits, ConcatProperties
  <2>9. f[n] \in {[kept |-> f[n - 1].kept \o Kept(piece), start |-> n], f[n - 1]}
    BY <2>6, Zenon DEF AfterByte, piece
  <2>10. n \in 0..n /\ f[n - 1].start \in 0..n
    BY <1>1, <2>4, <2>6
  <2>11. CASE f[n] = [kept |-> f[n - 1].kept \o Kept(piece), start |-> n]
    <3>1. f[n].kept = f[n - 1].kept \o Kept(piece) /\ f[n].start = n
      BY <2>11
    <3>2. QED
      BY <2>2, <2>8, <2>10, <3>1, Zenon
  <2>12. CASE f[n] = f[n - 1]
    BY <2>2, <2>6, <2>10, <2>12, Zenon
  <2>13. QED
    BY <2>9, <2>11, <2>12
<1>6. \A n \in 0..Len(s) : Fine(n)
  BY <1>5
<1>7. QED
  BY <1>2, <1>4, <1>6

EndsPiece(s, a, n) ==
  s[n] = "eol" \/ n - a.start = LineMax \/ n = Len(s)

PieceKept(s, a, n) ==
  /\ AfterByte(s, a, n).start = n
  /\ AfterByte(s, a, n).kept = a.kept \o Kept(SubSeq(s, a.start + 1, n))

LEMMA AfterByteCases ==
  ASSUME NEW s, NEW a, NEW n
  PROVE  /\ EndsPiece(s, a, n) => PieceKept(s, a, n)
         /\ ~ EndsPiece(s, a, n) => AfterByte(s, a, n) = a
<1> DEFINE kept == a.kept \o Kept(SubSeq(s, a.start + 1, n))
<1>1. AfterByte(s, a, n) =
        IF EndsPiece(s, a, n) THEN [kept |-> kept, start |-> n] ELSE a
  BY Zenon DEF AfterByte, EndsPiece
<1> HIDE DEF kept
<1>2. /\ EndsPiece(s, a, n) => /\ AfterByte(s, a, n).start = n
                               /\ AfterByte(s, a, n).kept = kept
      /\ ~ EndsPiece(s, a, n) => AfterByte(s, a, n) = a
  BY <1>1
<1>3. QED
  BY <1>2, Zenon DEF kept, PieceKept

(* fgets comes to the next piece: nothing is kept within it.               *)
LEMMA NextPiece ==
  ASSUME NEW s \in Seq(Bytes), NEW p \in 0..Len(s), NEW n \in 1..Len(s) - p,
         Pieces(s)[p].start = p,
         n = LineMax \/ p + n = Len(s) \/ s[p + n] = "eol",
         \A m \in 1..n - 1 : m # LineMax /\ s[p + m] # "eol"
  PROVE  /\ Pieces(s)[p + n].start = p + n
         /\ Pieces(s)[p + n].kept =
              Pieces(s)[p].kept \o Kept(SubSeq(s, p + 1, p + n))
<1> DEFINE f == Pieces(s)
           Bad == {m \in 0..n - 1 : f[p + m] # f[p]}
<1>1. Len(s) \in Nat /\ p + n \in 1..Len(s)
  BY LenProperties
<1>2. \A m \in 1..Len(s) : f[m] = AfterByte(s, f[m - 1], m)
  BY PiecesFacts, Zenon
<1>7. f[p].start = p
  OBVIOUS
<1> HIDE DEF f
<1>3. Bad = {}
  <2> SUFFICES ASSUME Bad # {} PROVE FALSE
    OBVIOUS
  <2>1. PICK m \in Bad : \A i \in Bad : m <= i
    <3>1. Bad \subseteq Nat
      OBVIOUS
    <3> HIDE DEF Bad
    <3>2. QED
      BY <3>1, LeastOf
  <2>2. m \in 0..n - 1 /\ f[p + m] # f[p]
    OBVIOUS
  <2>3. m # 0
    BY <2>2
  <2>4. m - 1 \in 0..n - 1 /\ ~ (m <= m - 1) /\ m \in 1..n - 1
    BY <2>2, <2>3
  <2>5. f[p + (m - 1)] = f[p]
    BY <2>1, <2>4, Zenon
  <2>6. /\ p + m \in 1..Len(s) /\ (p + m) - 1 = p + (m - 1)
        /\ p + m # Len(s) /\ p + m - p = m
    BY <1>1, <2>4
  <2>7. f[p + m] = AfterByte(s, f[p], p + m)
    BY <1>2, <2>5, <2>6, Zenon
  <2>8. s[p + m] # "eol" /\ m # LineMax
    BY <2>4
  <2>9. f[p + m] = f[p]
    <3>1. ~ EndsPiece(s, f[p], p + m)
      BY <1>7, <2>6, <2>8 DEF EndsPiece
    <3>2. QED
      BY <2>7, <3>1, AfterByteCases
  <2>10. QED
    BY <2>2, <2>9
<1>4. f[p + (n - 1)] = f[p]
  <2>1. n - 1 \in 0..n - 1
    OBVIOUS
  <2>2. QED
    BY <1>3, <2>1
<1>5. (p + n) - 1 = p + (n - 1) /\ p + n - p = n
  BY <1>1
<1>6. f[p + n] = AfterByte(s, f[p], p + n)
  BY <1>1, <1>2, <1>4, <1>5, Zenon
<1>8. EndsPiece(s, f[p], p + n)
  BY <1>5, <1>7 DEF EndsPiece
<1>9. /\ f[p + n].kept = f[p].kept \o Kept(SubSeq(s, p + 1, p + n))
      /\ f[p + n].start = p + n
  <2> DEFINE e == p + n
  <2>1. EndsPiece(s, f[p], e)
    BY <1>8
  <2> HIDE DEF e
  <2>2. /\ AfterByte(s, f[p], e).start = e
        /\ AfterByte(s, f[p], e).kept =
             f[p].kept \o Kept(SubSeq(s, f[p].start + 1, e))
    <3>1. PieceKept(s, f[p], e)
      BY <2>1, AfterByteCases
    <3>2. QED
      BY <3>1, Zenon DEF PieceKept
  <2>3. f[e] = AfterByte(s, f[p], e)
    BY <1>6 DEF e
  <2>4. /\ f[e].kept = f[p].kept \o Kept(SubSeq(s, p + 1, e))
        /\ f[e].start = e
    BY <1>7, <2>2, <2>3
  <2>5. QED
    BY <2>4 DEF e
<1>10. QED
  BY <1>9, Zenon DEF f

(* What is left of what is left of a chunk, and its first piece.           *)
LEMMA RestOfRest ==
  ASSUME NEW s \in Seq(Bytes), NEW p \in 0..Len(s), NEW n \in 0..Len(s) - p
  PROVE  LET rest == SubSeq(s, p + 1, Len(s))
         IN /\ rest \in Seq(Bytes) /\ Len(rest) = Len(s) - p
            /\ \A i \in 1..Len(s) - p : rest[i] = s[p + i]
            /\ SubSeq(rest, 1, n) = SubSeq(s, p + 1, p + n)
            /\ SubSeq(rest, n + 1, Len(rest)) = SubSeq(s, p + n + 1, Len(s))
<1> DEFINE rest == SubSeq(s, p + 1, Len(s))
<1>1. Len(s) \in Nat /\ p + n \in 0..Len(s)
  BY LenProperties
<1>2. /\ rest \in Seq(Bytes) /\ Len(rest) = Len(s) - p
      /\ \A i \in 1..Len(s) - p : rest[i] = s[p + i]
  BY <1>1, SubBytes
<1> HIDE DEF rest
<1>3. /\ SubSeq(s, p + 1, p + n) \in Seq(Bytes)
      /\ Len(SubSeq(s, p + 1, p + n)) = n
      /\ \A i \in 1..n : SubSeq(s, p + 1, p + n)[i] = s[p + i]
  <2>1. p + n - p = n /\ p <= p + n
    OBVIOUS
  <2>2. QED
    BY <1>1, <2>1, SubBytes
<1>4. /\ SubSeq(rest, 0 + 1, n) \in Seq(Bytes)
      /\ Len(SubSeq(rest, 0 + 1, n)) = n
      /\ \A i \in 1..n : SubSeq(rest, 0 + 1, n)[i] = rest[i]
  <2>1. n - 0 = n /\ 0 <= n /\ n \in 0..Len(rest) /\ 0 \in Nat
    BY <1>2
  <2>2. /\ SubSeq(rest, 0 + 1, n) \in Seq(Bytes)
        /\ Len(SubSeq(rest, 0 + 1, n)) = IF 0 <= n THEN n - 0 ELSE 0
        /\ \A i \in 1..n - 0 : SubSeq(rest, 0 + 1, n)[i] = rest[0 + i]
    BY <1>2, <2>1, SubBytes, Zenon
  <2>3. QED
    BY <2>1, <2>2
<1>5. SubSeq(rest, 1, n) = SubSeq(s, p + 1, p + n)
  <2>1. \A i \in 1..n : rest[i] = s[p + i]
    BY <1>1, <1>2
  <2>2. \A i \in 1..n : SubSeq(rest, 0 + 1, n)[i] = SubSeq(s, p + 1, p + n)[i]
    BY <1>3, <1>4, <2>1, Zenon
  <2>3. SubSeq(rest, 0 + 1, n) = SubSeq(s, p + 1, p + n)
    BY <1>3, <1>4, <2>2, SeqEqual
  <2>4. QED
    BY <2>3
<1> DEFINE c == SubSeq(rest, n + 1, Len(rest))
           d == SubSeq(s, p + n + 1, Len(s))
<1>6. /\ c \in Seq(Bytes) /\ Len(c) = Len(s) - p - n
      /\ \A i \in 1..Len(s) - p - n : c[i] = rest[n + i]
  <2>1. /\ n \in Nat /\ Len(rest) \in 0..Len(rest)
        /\ Len(rest) - n = Len(s) - p - n /\ n <= Len(rest)
    BY <1>1, <1>2
  <2>2. QED
    BY <1>2, <2>1, SubBytes
<1>7. /\ d \in Seq(Bytes) /\ Len(d) = Len(s) - p - n
      /\ \A i \in 1..Len(s) - p - n : d[i] = s[(p + n) + i]
  <2>1. /\ p + n \in Nat /\ Len(s) \in 0..Len(s)
        /\ Len(s) - (p + n) = Len(s) - p - n /\ p + n <= Len(s)
    BY <1>1
  <2>2. QED
    BY <2>1, SubBytes
<1> HIDE DEF c, d
<1>8. c = d
  <2>1. ASSUME NEW i \in 1..Len(s) - p - n
        PROVE  c[i] = d[i]
    <3>1. n + i \in 1..Len(s) - p /\ p + (n + i) = (p + n) + i
      BY <1>1
    <3>2. QED
      BY <1>2, <1>6, <1>7, <3>1, Zenon
  <2>2. QED
    BY <1>6, <1>7, <2>1, SeqEqual
<1>9. QED
  BY <1>2, <1>5, <1>8, Zenon DEF c, d, rest

(* Replacing the character goes byte by byte (lines 213-222).              *)
LEMMA PrintedConcat ==
  ASSUME NEW s \in Seq(Bytes), NEW t \in Seq(Bytes)
  PROVE  Printed(s \o t) = Printed(s) \o Printed(t)
<1> DEFINE P(b) == IF b = "hit" /\ job.replace THEN "new" ELSE b
<1>1. \A q \in Seq(Bytes) :
        /\ Len(q) \in Nat /\ DOMAIN q = 1..Len(q)
        /\ Printed(q) \in Seq(Bytes) /\ Len(Printed(q)) = Len(q)
  BY LenProperties, PrintedFits
<1>2. ASSUME NEW q \in Seq(Bytes), NEW i \in 1..Len(q)
      PROVE  Printed(q)[i] = P(q[i])
  BY <1>1 DEF Printed
<1> HIDE DEF P
<1>3. /\ s \o t \in Seq(Bytes) /\ Len(s \o t) = Len(s) + Len(t)
      /\ \A i \in 1..Len(s) + Len(t) :
           (s \o t)[i] = IF i <= Len(s) THEN s[i] ELSE t[i - Len(s)]
  BY ConcatProperties
<1> DEFINE a == Printed(s)
           b == Printed(t)
<1>4. a \in Seq(Bytes) /\ b \in Seq(Bytes) /\ Len(a) = Len(s) /\ Len(b) = Len(t)
  BY <1>1
<1> HIDE DEF a, b
<1>5. /\ a \o b \in Seq(Bytes) /\ Len(a \o b) = Len(s) + Len(t)
      /\ \A i \in 1..Len(s) + Len(t) :
           (a \o b)[i] = IF i <= Len(s) THEN a[i] ELSE b[i - Len(s)]
  <2>1. /\ a \o b \in Seq(Bytes) /\ Len(a \o b) = Len(a) + Len(b)
        /\ \A i \in 1..Len(a) + Len(b) :
             (a \o b)[i] = IF i <= Len(a) THEN a[i] ELSE b[i - Len(a)]
    BY <1>4, ConcatProperties
  <2>2. QED
    BY <1>4, <2>1
<1> DEFINE st == s \o t
           ab == a \o b
<1>6. ASSUME NEW i \in 1..Len(s) + Len(t)
      PROVE  Printed(st)[i] = ab[i]
  <2>1. Printed(st)[i] = P(st[i])
    BY <1>2, <1>3
  <2>2. CASE i <= Len(s)
    <3>1. i \in 1..Len(s)
      BY <1>1, <2>2
    <3>2. st[i] = s[i] /\ ab[i] = a[i]
      BY <1>3, <1>5, <2>2
    <3>3. QED
      BY <1>2, <2>1, <3>1, <3>2 DEF a
  <2>3. CASE ~ (i <= Len(s))
    <3>1. i - Len(s) \in 1..Len(t)
      BY <1>1, <2>3
    <3>2. st[i] = t[i - Len(s)] /\ ab[i] = b[i - Len(s)]
      BY <1>3, <1>5, <2>3
    <3>3. QED
      BY <1>2, <2>1, <3>1, <3>2 DEF b
  <2>4. QED
    BY <2>2, <2>3
<1>7. Printed(st) \in Seq(Bytes) /\ Len(Printed(st)) = Len(s) + Len(t)
  BY <1>1, <1>3
<1>8. ab \in Seq(Bytes) /\ Len(ab) = Len(s) + Len(t)
  BY <1>5
<1> HIDE DEF ab, st
<1>9. Printed(st) = ab
  BY <1>6, <1>7, <1>8, SeqEqual
<1>10. QED
  BY <1>9 DEF ab, st, a, b
-----------------------------------------------------------------------------
(***************************************************************************)
(* The invariant of the output.                                            *)
(***************************************************************************)
(* what a thread has found in the first p bytes of its chunk               *)
Found(t, p) == Pieces(Chunk(t))[p]

ChunkGreps == [t \in Threads |-> GrepOf(Chunk(t))]

(* a thread stands where a piece begins                                    *)
ReadUpTo(t, p) ==
  /\ thr[t].rest = SubSeq(Chunk(t), p + 1, ChunkSize)
  /\ Found(t, p).start = p
  /\ thr[t].buf = Printed(Found(t, p).kept)

Finds(t) ==
  /\ thr[t].pc = "read" => \E p \in 0..ChunkSize : ReadUpTo(t, p)
  /\ thr[t].pc = "done" => out[t] = Printed(GrepOf(Chunk(t)))

Wrapped(g) ==
  Flattening(Bytes, ChunkGreps, job.threads, g) /\ result = Printed(g[k - 1])

Greps ==
  /\ pc = "parse" => \A m \in 1..k - 1 : m <= job.threads => tmp[m] = Chunk(m)
  /\ Parsed => \A t \in Threads : tmp[t] = Chunk(t)
  /\ Parsed => \A t \in DOMAIN thr : Finds(t)
  /\ pc = "wrap" => \E g : Wrapped(g)
  /\ pc = "done" => result = Output(GrepOfChunks)

Regular == FileSize >= job.threads /\ PlainText

GInv == IInv /\ (Regular => Greps)

LEMMA RegularFacts ==
  ASSUME job \in Jobs, Regular
  PROVE  FileSize >= job.threads /\ PlainText /\ Sized /\ FileSize > 0
BY ChunkFacts DEF Regular, Sized

LEMMA SameGrep ==
  ASSUME job' = job
  PROVE  /\ \A t : Chunk(t)' = Chunk(t) /\ GrepOf(Chunk(t))' = GrepOf(Chunk(t))
         /\ \A t, p : Found(t, p)' = Found(t, p)
         /\ \A s : Printed(s)' = Printed(s)
         /\ \A s : Output(s)' = Output(s)
         /\ GrepOfChunks' = GrepOfChunks /\ ChunkGreps' = ChunkGreps
<1>1. Threads' = Threads /\ FileSize' = FileSize /\ ChunkSize' = ChunkSize
  BY SameJob
<1>2. \A t : Chunk(t)' = Chunk(t)
  BY <1>1 DEF Chunk
<1>3. \A t : GrepOf(Chunk(t))' = GrepOf(Chunk(t))
  BY <1>2
<1>4. \A t, p : Found(t, p)' = Found(t, p)
  BY <1>2 DEF Found
<1>5. \A s : Printed(s)' = Printed(s)
  BY DEF Printed
<1>6. \A s : Output(s)' = Output(s)
  BY <1>1, <1>5 DEF Output
<1>7. ChunkGreps' = ChunkGreps
  BY <1>1, <1>3 DEF ChunkGreps
<1>8. GrepOfChunks = FlattenSeq(ChunkGreps)
  BY DEF GrepOfChunks, ChunkGreps
<1>9. GrepOfChunks' = FlattenSeq(ChunkGreps')
  BY DEF GrepOfChunks, ChunkGreps
<1>10. QED
  BY <1>2, <1>3, <1>4, <1>5, <1>6, <1>7, <1>8, <1>9

(* With at least a byte per thread the chunks lie in the file.             *)
LEMMA ChunkLies ==
  ASSUME job \in Jobs, FileSize >= job.threads, NEW t \in Threads
  PROVE  /\ ChunkSize \in Nat \ {0} /\ (t - 1) * ChunkSize \in Nat
         /\ t * ChunkSize = (t - 1) * ChunkSize + ChunkSize
         /\ t * ChunkSize \in 1..FileSize
         /\ Chunk(t) \in Seq(Bytes) /\ Len(Chunk(t)) = ChunkSize
         /\ \A i \in 1..ChunkSize : Chunk(t)[i] = job.file[(t - 1) * ChunkSize + i]
<1>1. /\ job.threads \in Nat \ {0} /\ job.file \in Seq(Bytes)
      /\ FileSize \in Nat /\ ChunkSize \in Nat
      /\ job.threads * ChunkSize <= FileSize
      /\ t \in 1..job.threads /\ t - 1 \in Nat
  BY ChunkFacts DEF Threads
<1>2. ChunkSize > 0
  <2>1. \A a \in Nat, b \in Nat \ {0} : a >= b => a \div b > 0
    BY SMT
  <2>2. QED
    BY <1>1, <2>1 DEF ChunkSize
<1>3. (t - 1) * ChunkSize \in Nat
  <2>1. \A a, b \in Nat : a * b \in Nat
    BY SMT
  <2>2. QED
    BY <1>1, <2>1, Zenon
<1>4. t * ChunkSize = (t - 1) * ChunkSize + ChunkSize
  <2>1. ((t - 1) + 1) * ChunkSize = (t - 1) * ChunkSize + ChunkSize
    BY <1>1, Multiples, Zenon
  <2>2. (t - 1) + 1 = t
    BY <1>1
  <2>3. QED
    BY <2>1, <2>2
<1>5. t * ChunkSize <= job.threads * ChunkSize
  <2>1. t \in Nat /\ job.threads \in Nat /\ t <= job.threads
    BY <1>1
  <2>2. QED
    BY <1>1, <2>1, Multiples, Zenon
<1> DEFINE a == (t - 1) * ChunkSize
           b == t * ChunkSize
<1>6. a \in Nat /\ b = a + ChunkSize /\ b <= FileSize
  <2>1. b <= FileSize
    <3> DEFINE m == job.threads * ChunkSize
    <3>1. b <= m /\ m <= FileSize /\ b \in Int /\ m \in Int
      BY <1>1, <1>5
    <3> HIDE DEF b, m
    <3>2. QED
      BY <1>1, <3>1
  <2>2. QED
    BY <1>3, <1>4, <2>1
<1>7. Chunk(t) = SubSeq(job.file, a + 1, b)
  BY DEF Chunk
<1> HIDE DEF a, b
<1>8. b \in 0..Len(job.file) /\ b - a = ChunkSize /\ a <= b /\ b \in 1..FileSize
  BY <1>1, <1>2, <1>6 DEF FileSize
<1>9. /\ Chunk(t) \in Seq(Bytes) /\ Len(Chunk(t)) = ChunkSize
      /\ \A i \in 1..ChunkSize : Chunk(t)[i] = job.file[a + i]
  BY <1>1, <1>6, <1>7, <1>8, SubBytes
<1>10. QED
  BY <1>1, <1>2, <1>3, <1>4, <1>8, <1>9 DEF a, b

(* and parse copies what lies there (lines 165-178).                       *)
LEMMA ChunkIsCopied ==
  ASSUME job \in Jobs, Regular, NEW t \in Threads
  PROVE  ChunkBytes((t - 1) * ChunkSize) = Chunk(t)
<1> DEFINE a == (t - 1) * ChunkSize
<1>1. /\ ChunkSize \in Nat \ {0} /\ a \in Nat /\ FileSize \in Nat
      /\ t * ChunkSize = a + ChunkSize /\ t * ChunkSize \in 1..FileSize
      /\ Chunk(t) \in Seq(Bytes) /\ Len(Chunk(t)) = ChunkSize
      /\ \A i \in 1..ChunkSize : Chunk(t)[i] = job.file[a + i]
  BY ChunkLies, ChunkFacts DEF Regular
<1> DEFINE b == t * ChunkSize
<1> HIDE DEF a
<1>2. a + ChunkSize <= FileSize
  <2>1. b = a + ChunkSize /\ b \in 1..FileSize
    BY <1>1
  <2> HIDE DEF b
  <2>2. QED
    BY <1>1, <2>1
<1>3. \A j \in 1..ChunkSize : a + j <= FileSize
  BY <1>1, <1>2
<1> DEFINE c == ChunkBytes(a)
<1>4. DOMAIN c = 1..ChunkSize
  BY DEF ChunkBytes
<1>5. ASSUME NEW j \in 1..ChunkSize
      PROVE  c[j] = job.file[a + j]
  <2>1. c[j] = CASE a + j <= FileSize  -> job.file[a + j]
                 [] a + j > MappingEnd -> "junk"
                 [] OTHER              -> "nul"
    BY DEF ChunkBytes
  <2> HIDE DEF c
  <2>2. MappingEnd \in Int /\ FileSize <= MappingEnd
    <3>1. \A m \in Nat, n \in Nat \ {0} :
            /\ ((m + n - 1) \div n) * n \in Int
            /\ m <= ((m + n - 1) \div n) * n
      BY SMT
    <3>2. QED
      BY <1>1, <3>1, MCGrepAssumption DEF MappingEnd
  <2>3. a + j <= FileSize /\ ~ (a + j > MappingEnd)
    <3>1. a + j <= FileSize /\ a + j \in Nat
      BY <1>1, <1>3
    <3> DEFINE x == a + j
    <3> HIDE DEF x
    <3>2. x <= FileSize /\ x \in Nat
      BY <3>1 DEF x
    <3>3. ~ (x > MappingEnd)
      BY <1>1, <2>2, <3>2
    <3>4. QED
      BY <3>1, <3>3 DEF x
  <2>4. QED
    BY <2>1, <2>3, Zenon
<1> HIDE DEF c
<1>6. c \in Seq(Bytes)
  BY <1>1, ChunkBytesFit, CleanBytes DEF FitsPlain, Regular, c
<1>7. Len(c) = ChunkSize
  BY <1>1, <1>4, <1>6, LenProperties
<1>8. \A j \in 1..ChunkSize : c[j] = Chunk(t)[j]
  BY <1>1, <1>5
<1>9. c = Chunk(t)
  BY <1>1, <1>6, <1>7, <1>8, SeqEqual
<1>10. QED
  BY <1>9 DEF c, a

(* What grep finds in a chunk is bytes.                                    *)
LEMMA ChunkGrepsFit ==
  ASSUME job \in Jobs, FileSize >= job.threads
  PROVE  /\ \A t \in Threads, p \in 0..ChunkSize :
              Found(t, p).kept \in Seq(Bytes) /\ Found(t, p).start \in 0..p
         /\ \A t \in Threads : /\ GrepOf(Chunk(t)) \in Seq(Bytes)
                               /\ GrepOf(Chunk(t)) = Found(t, ChunkSize).kept
                               /\ Found(t, 0) = Nothing
         /\ ChunkGreps \in [1..job.threads -> Seq(Bytes)]
         /\ GrepOfChunks = FlattenSeq(ChunkGreps)
<1>1. ASSUME NEW t \in Threads
      PROVE  /\ \A p \in 0..ChunkSize :
                  Found(t, p).kept \in Seq(Bytes) /\ Found(t, p).start \in 0..p
             /\ GrepOf(Chunk(t)) = Found(t, ChunkSize).kept
             /\ GrepOf(Chunk(t)) \in Seq(Bytes)
             /\ Found(t, 0) = Nothing
  <2>1. Chunk(t) \in Seq(Bytes) /\ Len(Chunk(t)) = ChunkSize /\ ChunkSize \in Nat
    BY ChunkLies
  <2>2. /\ Pieces(Chunk(t))[0] = Nothing
        /\ \A n \in 0..Len(Chunk(t)) : /\ Pieces(Chunk(t))[n].kept \in Seq(Bytes)
                                       /\ Pieces(Chunk(t))[n].start \in 0..n
    BY <2>1, PiecesFacts, Zenon
  <2>3. /\ Found(t, 0) = Nothing
        /\ \A p \in 0..ChunkSize :
             Found(t, p).kept \in Seq(Bytes) /\ Found(t, p).start \in 0..p
    BY <2>1, <2>2 DEF Found
  <2>4. GrepOf(Chunk(t)) = Found(t, ChunkSize).kept
    BY <2>1 DEF GrepOf, Found
  <2>5. QED
    BY <2>1, <2>3, <2>4
<1>2. ChunkGreps \in [1..job.threads -> Seq(Bytes)]
  BY <1>1 DEF ChunkGreps, Threads
<1>3. QED
  BY <1>1, <1>2 DEF GrepOfChunks, ChunkGreps

LEMMA NothingPrinted == Printed(<< >>) = << >>
<1>1. << >> \in Seq(Bytes) /\ Len(<< >>) = 0
  OBVIOUS
<1>2. Printed(<< >>) \in Seq(Bytes) /\ Len(Printed(<< >>)) = Len(<< >>)
  BY <1>1, PrintedFits
<1>3. QED
  BY <1>1, <1>2, EmptySeq

(* parse writes each chunk file anew (lines 160-178).                      *)
LEMMA ParseChunkGreps == GInv /\ ParseChunk => (Regular => Greps)'
<1> SUFFICES ASSUME GInv, ParseChunk, Regular PROVE Greps'
  BY SameJob DEF Regular, ParseChunk
<1>1. /\ job \in Jobs /\ job' = job /\ pc = "parse" /\ pc' = "parse"
      /\ k \in 1..MaxFiles /\ MaxFiles \in Nat
      /\ k' = k \/ k' = k + 1
      /\ job.threads \in Nat \ {0} /\ FileSize \in Nat /\ Sized /\ FileSize > 0
  BY ChunkFacts, RegularFacts, MCGrepAssumption
     DEF GInv, IInv, TypeOK, Phases, ParseChunk
<1>2. /\ DOMAIN tmp' = DOMAIN tmp \cup {k}
      /\ \A m \in DOMAIN tmp : m # k => tmp'[m] = tmp[m]
  BY DEF ParseChunk, Overwrite
<1>3. ASSUME k <= job.threads
      PROVE  tmp'[k] = Chunk(k)
  <2>1. k \in Threads
    BY <1>1, <1>3 DEF Threads
  <2>2. ChunkSize # 0 /\ ChunkBytes(Offset) = Chunk(k)
    BY <1>1, <2>1, ChunkLies, RegularFacts, ChunkIsCopied DEF Offset
  <2>3. tmp'[k] = ChunkBytes(Offset)
    BY <2>2 DEF ParseChunk, Overwrite
  <2>4. QED
    BY <2>2, <2>3
<1>4. ASSUME NEW m \in 1..k' - 1, m <= job.threads
      PROVE  tmp'[m] = Chunk(m)
  <2>1. m = k \/ (m \in 1..k - 1 /\ m # k)
    BY <1>1
  <2>2. CASE m = k
    BY <1>3, <1>4, <2>2
  <2>3. CASE m \in 1..k - 1 /\ m # k
    <3>1. m \in Threads
      BY <1>1, <1>4, <2>3 DEF Threads
    <3>2. ChunkSize > 0
      BY <1>1, <3>1, ChunkLies, RegularFacts
    <3>3. m \in DOMAIN tmp
      BY <1>1, <2>3, <3>2 DEF GInv, IInv, Sizes
    <3>4. tmp[m] = Chunk(m)
      BY <1>1, <1>4, <2>3 DEF GInv, Greps
    <3>5. QED
      BY <1>2, <2>3, <3>3, <3>4
  <2>4. QED
    BY <2>1, <2>2, <2>3
<1>5. QED
  BY <1>1, <1>4, SameGrep DEF Greps, Parsed

LEMMA ParseFaultsGreps == GInv /\ ParseFaults => (Regular => Greps)'
BY DEF GInv, ParseFaults, Greps, Parsed

LEMMA ParseDoneGreps == GInv /\ ParseDone => (Regular => Greps)'
<1> SUFFICES ASSUME GInv, ParseDone, Regular PROVE Greps'
  BY SameJob DEF Regular, ParseDone
<1>1. /\ job \in Jobs /\ job' = job /\ pc = "parse" /\ pc' = "create"
      /\ thr' = thr /\ tmp' = tmp /\ DOMAIN thr = {}
      /\ k \in Nat
      /\ job.threads \in Nat \ {0} /\ FileSize \in Nat /\ Sized /\ FileSize > 0
  BY ChunkFacts, RegularFacts, MCGrepAssumption DEF GInv, IInv, TypeOK, Phases, ParseDone
<1>2. job.threads <= k - 1
  BY <1>1, AllParsed DEF GInv
<1>3. \A t \in Threads : tmp[t] = Chunk(t)
  BY <1>1, <1>2 DEF GInv, Greps, Threads
<1>4. QED
  BY <1>1, <1>3, SameGrep, SameJob DEF Greps, Parsed

LEMMA CreateThreadGreps ==
  GInv /\ CreateThread => (Regular => Greps)'
<1> SUFFICES ASSUME GInv, CreateThread, Regular PROVE Greps'
  BY SameJob DEF Regular, CreateThread
<1>1. /\ job' = job /\ pc = "create" /\ pc' \in {"create", "join"}
      /\ UNCHANGED <<tmp, out>>
  BY DEF CreateThread
<1>2. /\ DOMAIN thr' = DOMAIN thr \cup {k}
      /\ \A t \in DOMAIN thr : t # k => thr'[t] = thr[t]
      /\ thr'[k] = NewThread
  BY DEF CreateThread, Overwrite
<1>3. ASSUME NEW t \in DOMAIN thr'
      PROVE  Finds(t)'
  <2>1. CASE t = k
    BY <1>2, <2>1 DEF Finds, NewThread
  <2>2. CASE t # k
    <3>1. Finds(t) /\ thr'[t] = thr[t]
      BY <1>1, <1>2, <2>2 DEF GInv, Greps, Parsed
    <3>2. QED
      BY <1>1, <3>1, SameJob, SameGrep DEF Finds, ReadUpTo
  <2>3. QED
    BY <2>1, <2>2
<1>4. QED
  BY <1>1, <1>3, SameGrep, SameJob DEF GInv, Greps, Parsed

LEMMA FindsStays ==
  ASSUME UNCHANGED <<job, thr, out>>
  PROVE  \A t : Finds(t) => Finds(t)'
BY SameJob, SameGrep DEF Finds, ReadUpTo

LEMMA JoinThreadGreps == GInv /\ JoinThread => (Regular => Greps)'
<1> SUFFICES ASSUME GInv, JoinThread, Regular PROVE Greps'
  BY SameJob DEF Regular, JoinThread
<1>1. /\ job \in Jobs /\ job' = job /\ pc = "join"
      /\ \/ pc' = "join"
         \/ pc' = "wrap" /\ k' = 1
      /\ UNCHANGED <<thr, tmp, out, result>> /\ result = << >>
      /\ job.threads \in Nat \ {0}
  BY ChunkFacts, RegularFacts DEF GInv, IInv, TypeOK, Phases, JoinThread
<1>2. PICK g : Flattening(Bytes, ChunkGreps, job.threads, g)
  BY <1>1, ChunkGrepsFit, RegularFacts, FlattenSeqFacts
<1>3. ASSUME pc' = "wrap"
      PROVE  Wrapped(g)'
  <2>1. g[0] = << >> /\ k' - 1 = 0
    BY <1>1, <1>2, <1>3 DEF Flattening
  <2>2. result' = Printed(g[k' - 1])
    BY <1>1, <2>1, NothingPrinted
  <2>3. QED
    BY <1>1, <1>2, <2>2, SameGrep DEF Wrapped
<1>4. \A t \in DOMAIN thr' : Finds(t)'
  BY <1>1, FindsStays DEF GInv, Greps, Parsed
<1>5. QED
  BY <1>1, <1>3, <1>4, SameGrep, SameJob DEF GInv, Greps, Parsed

(* The .out files are put together in the order of the chunks.             *)
LEMMA WrapFileGreps == GInv /\ WrapFile => (Regular => Greps)'
<1> SUFFICES ASSUME GInv, WrapFile, Regular PROVE Greps'
  BY SameJob DEF Regular, WrapFile
<1>1. /\ job \in Jobs /\ job' = job /\ pc = "wrap"
      /\ UNCHANGED <<thr, tmp, out>>
      /\ k \in 1..job.threads /\ job.threads \in Nat \ {0} /\ Sized /\ FileSize > 0
      /\ \A t \in Threads : t \in DOMAIN thr /\ thr[t].pc = "done"
  BY ChunkFacts, RegularFacts DEF GInv, IInv, TypeOK, Phases, JoinedBeforeWrap, WrapFile, Threads
<1>2. result' = result \o out[k] /\ k' = k + 1 /\ pc' = "wrap"
  BY <1>1, ChunkFacts, RegularFacts DEF WrapFile
<1>3. PICK g : Wrapped(g)
  BY <1>1 DEF GInv, Greps
<1>4. out[k] = Printed(GrepOf(Chunk(k)))
  BY <1>1 DEF GInv, Greps, Parsed, Finds, Threads
<1>5. /\ g[k - 1] \in Seq(Bytes) /\ GrepOf(Chunk(k)) \in Seq(Bytes)
      /\ g[k] = g[k - 1] \o GrepOf(Chunk(k))
  <2>1. g[k] = g[k - 1] \o ChunkGreps[k] /\ g \in [0..job.threads -> Seq(Bytes)]
    BY <1>1, <1>3 DEF Wrapped, Flattening
  <2>2. ChunkGreps[k] = GrepOf(Chunk(k)) /\ GrepOf(Chunk(k)) \in Seq(Bytes)
    BY <1>1, ChunkGrepsFit, RegularFacts DEF ChunkGreps, Threads
  <2>3. k - 1 \in 0..job.threads
    BY <1>1
  <2>4. QED
    BY <2>1, <2>2, <2>3
<1>6. result' = Printed(g[k])
  <2>1. Printed(g[k - 1] \o GrepOf(Chunk(k))) =
          Printed(g[k - 1]) \o Printed(GrepOf(Chunk(k)))
    BY <1>5, PrintedConcat
  <2>2. QED
    BY <1>2, <1>3, <1>4, <1>5, <2>1, Zenon DEF Wrapped
<1>7. Wrapped(g)'
  <2>1. k' - 1 = k
    BY <1>1, <1>2
  <2>2. QED
    BY <1>1, <1>3, <1>6, <2>1, SameGrep DEF Wrapped
<1>8. \A t \in DOMAIN thr' : Finds(t)'
  BY <1>1, FindsStays DEF GInv, Greps, Parsed
<1>9. QED
  BY <1>1, <1>2, <1>7, <1>8, SameGrep, SameJob DEF GInv, Greps, Parsed

LEMMA WrapFaultsGreps == GInv /\ WrapFaults => (Regular => Greps)'
BY DEF GInv, WrapFaults, Greps, Parsed

LEMMA WrapDoneGreps == GInv /\ WrapDone => (Regular => Greps)'
<1> SUFFICES ASSUME GInv, WrapDone, Regular PROVE Greps'
  BY SameJob DEF Regular, WrapDone
<1>1. /\ job \in Jobs /\ job' = job /\ pc = "wrap" /\ pc' = "done"
      /\ k = job.threads + 1 /\ job.threads \in Nat \ {0}
      /\ FileSize \in Nat /\ Sized /\ FileSize > 0
  BY ChunkFacts, RegularFacts DEF GInv, IInv, TypeOK, Phases, WrapDone
<1>2. PICK g : Wrapped(g)
  BY <1>1 DEF GInv, Greps
<1>3. k - 1 = job.threads
  BY <1>1
<1>4. /\ result = Printed(GrepOfChunks) /\ GrepOfChunks \in Seq(Bytes)
  BY <1>1, <1>2, <1>3, ChunkGrepsFit, RegularFacts DEF Wrapped, Flattening
<1>5. Len(result) = Len(GrepOfChunks)
  BY <1>4, PrintedFits
<1>6. result' = Output(GrepOfChunks)
  <2>1. Len(result) <= FileSize
    <3>1. Len(result) <= job.threads * ChunkSize
      BY <1>1, <1>3 DEF GInv, IInv, Sizes
    <3>2. job.threads * ChunkSize <= FileSize /\ job.threads * ChunkSize \in Nat
      BY <1>1, ChunkFacts, RegularFacts
    <3> DEFINE x == job.threads * ChunkSize
    <3> HIDE DEF x
    <3>3. Len(result) \in Nat
      BY <1>4, PrintedFits, LenProperties
    <3>4. QED
      BY <1>1, <3>1, <3>2, <3>3 DEF x
  <2>2. Len(result) \in Nat
    BY <1>4, PrintedFits, LenProperties
  <2>3. QED
    BY <1>1, <1>4, <1>5, <2>1, <2>2 DEF WrapDone, OutFile, Output
<1>7. QED
  BY <1>1, <1>6, SameGrep DEF Greps, Parsed

LEMMA NextRunGreps == GInv /\ NextRun => (Regular => Greps)'
BY DEF NextRun, Greps, Parsed

(* A step of one thread leaves what the others have found.                 *)
LEMMA GrepStepGreps ==
  ASSUME GInv, Regular,
         Running, NEW t \in DOMAIN thr, thr[t].pc # "done",
         DOMAIN thr' = DOMAIN thr,
         \A u \in DOMAIN thr : u # t => thr'[u] = thr[u],
         pc' \in {pc, "crashed"}, UNCHANGED <<job, k, tmp, result, runs>>,
         \A u \in DOMAIN out : u # t => out'[u] = out[u],
         pc' # "crashed" => Finds(t)'
  PROVE  Greps'
<1>1. /\ job \in Jobs /\ pc \in {"create", "join"} /\ job' = job /\ Parsed
      /\ Sized /\ FileSize > 0
  BY ChunkFacts, RegularFacts DEF GInv, IInv, TypeOK, Phases, JoinedBeforeWrap, Running, Threads,
                    Parsed
<1>2. ASSUME NEW u \in DOMAIN thr, u # t
      PROVE  Finds(u)'
  <2>1. Finds(u) /\ thr'[u] = thr[u]
    BY <1>1, <1>2 DEF GInv, Greps
  <2>2. thr[u].pc = "done" => u \in DOMAIN out
    BY <1>1 DEF GInv, IInv, Sizes, ThreadFits
  <2>3. thr[u].pc = "done" => out'[u] = out[u]
    BY <1>2, <2>2
  <2>4. QED
    BY <1>1, <2>1, <2>3, SameJob, SameGrep DEF Finds, ReadUpTo
<1>3. QED
  BY <1>1, <1>2, SameGrep, SameJob DEF GInv, Greps, Parsed

LEMMA OpenGreps ==
  ASSUME GInv, NEW t \in Threads, Open(t), Regular
  PROVE  Greps'
<1>1. /\ Running /\ t \in DOMAIN thr /\ thr[t].pc = "open"
      /\ DOMAIN thr' = DOMAIN thr
      /\ \A u \in DOMAIN thr : u # t => thr'[u] = thr[u]
      /\ pc' \in {pc, "crashed"} /\ UNCHANGED <<job, k, tmp, result, runs>>
      /\ \A u \in DOMAIN out : u # t => out'[u] = out[u]
  BY DEF Open, Overwrite
<1>2. /\ job \in Jobs /\ Sized /\ FileSize > 0 /\ Parsed
      /\ thr[t] = [pc |-> thr[t].pc, rest |-> thr[t].rest, buf |-> thr[t].buf]
  BY <1>1, ChunkFacts, RegularFacts DEF GInv, IInv, TypeOK, ThreadShape, Phases, Running, Parsed
<1>3. ASSUME pc' # "crashed"
      PROVE  Finds(t)'
  <2>1. thr'[t] = [pc |-> "read", rest |-> tmp[t], buf |-> thr[t].buf]
    <3>1. t \in DOMAIN tmp
      BY <1>3 DEF Open
    <3>2. thr' = [thr EXCEPT ![t].pc = "read", ![t].rest = tmp[t]]
      BY <3>1 DEF Open
    <3>3. QED
      BY <1>1, <1>2, <3>2
  <2>2. thr[t].buf = << >>
    BY <1>1, <1>2 DEF GInv, IInv, Sizes, ThreadFits
  <2>3. tmp[t] = Chunk(t)
    BY <1>2 DEF GInv, Greps
  <2>4. /\ Chunk(t) \in Seq(Bytes) /\ Len(Chunk(t)) = ChunkSize
        /\ ChunkSize \in Nat
    BY <1>2, ChunkLies, RegularFacts
  <2>5. SubSeq(Chunk(t), 0 + 1, ChunkSize) = Chunk(t)
    <3>1. SubSeq(Chunk(t), 1, Len(Chunk(t))) = Chunk(t)
      BY <2>4, SubSeqFull, Zenon
    <3>2. 0 + 1 = 1
      OBVIOUS
    <3>3. QED
      BY <2>4, <3>1, <3>2, Zenon
  <2>6. Found(t, 0) = Nothing
    BY <1>2, ChunkGrepsFit, RegularFacts
  <2>7. /\ thr'[t].rest = SubSeq(Chunk(t), 0 + 1, ChunkSize)
        /\ Found(t, 0).start = 0
        /\ thr'[t].buf = Printed(Found(t, 0).kept)
    <3>1. Nothing.start = 0 /\ Nothing.kept = << >>
      BY DEF Nothing
    <3>2. thr'[t].rest = tmp[t] /\ thr'[t].buf = thr[t].buf
      BY <2>1
    <3>3. QED
      BY <2>2, <2>3, <2>5, <2>6, <3>1, <3>2, NothingPrinted
  <2>8. ReadUpTo(t, 0)'
    <3>1. /\ Chunk(t)' = Chunk(t) /\ Found(t, 0)' = Found(t, 0)
          /\ ChunkSize' = ChunkSize
          /\ Printed(Found(t, 0).kept)' = Printed(Found(t, 0).kept)
      BY <1>1, SameJob, SameGrep DEF Printed
    <3>2. /\ thr'[t].rest = SubSeq(Chunk(t)', 0 + 1, ChunkSize')
          /\ Found(t, 0)'.start = 0
          /\ thr'[t].buf = Printed(Found(t, 0).kept)'
      BY <2>7, <3>1, Zenon
    <3>3. QED
      BY <3>2, Zenon DEF ReadUpTo
  <2>9. 0 \in 0..ChunkSize' /\ thr'[t].pc = "read"
    BY <1>1, <2>1, <2>4, SameJob
  <2>10. QED
    BY <2>8, <2>9 DEF Finds
<1>4. QED
  BY <1>1, <1>3, GrepStepGreps

(* One call of fgets: a piece of the chunk is kept or not (lines 206-230). *)
LEMMA ReadLineGreps ==
  ASSUME GInv, NEW t \in Threads, ReadLine(t), Regular
  PROVE  Greps'
<1>1. /\ Running /\ t \in DOMAIN thr /\ thr[t].pc = "read"
      /\ DOMAIN thr' = DOMAIN thr
      /\ \A u \in DOMAIN thr : u # t => thr'[u] = thr[u]
      /\ UNCHANGED <<job, pc, k, tmp, out, result, runs>>
  BY DEF ReadLine
<1>2. /\ job \in Jobs /\ Sized /\ FileSize > 0 /\ Parsed
      /\ thr[t] = [pc |-> "read", rest |-> thr[t].rest, buf |-> thr[t].buf]
  BY <1>1, ChunkFacts, RegularFacts DEF GInv, IInv, TypeOK, ThreadShape, Phases, Running, Parsed
<1> DEFINE rest == thr[t].rest
           buf == thr[t].buf
           line(n) == Line(t, n)
<1>3. PICK n \in 1..Len(rest) :
        /\ PieceEnd(rest, n)
        /\ thr'[t] = [pc |-> "read", rest |-> SubSeq(rest, n + 1, Len(rest)),
                      buf |-> IF Contains(line(n), "hit")
                              THEN buf \o Printed(line(n)) ELSE buf]
  BY <1>2, ReadsPlainly, Zenon DEF GInv
<1>4. /\ thr'[t].pc = "read" /\ thr'[t].rest = SubSeq(rest, n + 1, Len(rest))
      /\ thr'[t].buf = IF Contains(line(n), "hit")
                       THEN buf \o Printed(line(n)) ELSE buf
  BY <1>3
<1>5. PICK p \in 0..ChunkSize : ReadUpTo(t, p)
  BY <1>1, <1>2 DEF GInv, Greps, Finds
<1> DEFINE s == Chunk(t)
<1>6. s \in Seq(Bytes) /\ Len(s) = ChunkSize /\ ChunkSize \in Nat
  BY <1>2, ChunkLies, RegularFacts
<1>7. /\ rest = SubSeq(s, p + 1, Len(s)) /\ Pieces(s)[p].start = p
      /\ buf = Printed(Pieces(s)[p].kept)
  BY <1>5, <1>6 DEF ReadUpTo, Found
<1> HIDE DEF rest, buf, s
<1>8. /\ rest \in Seq(Bytes) /\ Len(rest) = Len(s) - p
      /\ \A i \in 1..Len(s) - p : rest[i] = s[p + i]
  <2>1. 0 \in 0..Len(s) - p /\ p \in 0..Len(s)
    BY <1>6
  <2>2. QED
    BY <1>6, <1>7, <2>1, RestOfRest
<1>9. n \in 1..Len(s) - p /\ n \in 0..Len(s) - p /\ p \in 0..Len(s)
  BY <1>3, <1>6, <1>8
<1>10. /\ SubSeq(rest, 1, n) = SubSeq(s, p + 1, p + n)
       /\ SubSeq(rest, n + 1, Len(rest)) = SubSeq(s, p + n + 1, Len(s))
  BY <1>6, <1>7, <1>9, RestOfRest
<1>11. /\ Pieces(s)[p + n].start = p + n
       /\ Pieces(s)[p + n].kept =
            Pieces(s)[p].kept \o Kept(SubSeq(s, p + 1, p + n))
  <2>1. /\ n = LineMax \/ n = Len(rest) \/ rest[n] = "eol"
        /\ \A m \in 1..n - 1 : m # LineMax /\ rest[m] # "eol"
    BY <1>3 DEF PieceEnd
  <2>2. n = LineMax \/ p + n = Len(s) \/ s[p + n] = "eol"
    BY <1>6, <1>8, <1>9, <2>1
  <2>3. \A m \in 1..n - 1 : m # LineMax /\ s[p + m] # "eol"
    <3>1. ASSUME NEW m \in 1..n - 1
          PROVE  m # LineMax /\ s[p + m] # "eol"
      <4>1. m \in 1..Len(s) - p
        BY <1>6, <1>9
      <4>2. QED
        BY <1>8, <2>1, <4>1, Zenon
    <3>2. QED
      BY <3>1
  <2>4. QED
    BY <1>6, <1>7, <1>9, <2>2, <2>3, NextPiece
<1> DEFINE piece == SubSeq(s, p + 1, p + n)
           sofar == Pieces(s)[p].kept
<1>12. piece \in Seq(Bytes) /\ sofar \in Seq(Bytes)
  <2>1. p + n \in 0..Len(s) /\ p \in Nat
    BY <1>6, <1>9
  <2>2. QED
    BY <1>6, <1>9, <2>1, SubBytes, PiecesFacts
<1>13. line(n) = UpToNul(piece)
  BY <1>10 DEF Line, rest
<1> HIDE DEF piece, sofar, line
<1>14. thr'[t].buf = Printed(sofar \o Kept(piece))
  <2>1. CASE Contains(UpToNul(piece), "hit")
    <3>1. Kept(piece) = line(n) /\ thr'[t].buf = buf \o Printed(line(n))
      BY <1>4, <1>13, <2>1 DEF Kept
    <3>2. Kept(piece) \in Seq(Bytes)
      BY <1>12, KeptFits
    <3>3. Printed(sofar \o Kept(piece)) = Printed(sofar) \o Printed(Kept(piece))
      BY <1>12, <3>2, PrintedConcat
    <3>4. QED
      BY <1>7, <3>1, <3>3, Zenon DEF sofar
  <2>2. CASE ~ Contains(UpToNul(piece), "hit")
    <3>1. Kept(piece) = << >> /\ thr'[t].buf = buf
      BY <1>4, <1>13, <2>2 DEF Kept
    <3>2. sofar \o << >> = sofar
      BY <1>12, ConcatEmptySeq
    <3>3. QED
      BY <1>7, <3>1, <3>2, Zenon DEF sofar
  <2>3. QED
    BY <2>1, <2>2
<1> DEFINE q == p + n
<1>15. /\ thr'[t].rest = SubSeq(s, q + 1, Len(s))
       /\ Pieces(s)[q].start = q
       /\ thr'[t].buf = Printed(Pieces(s)[q].kept)
       /\ q \in 0..ChunkSize
  <2>1. thr'[t].rest = SubSeq(s, q + 1, Len(s))
    BY <1>4, <1>10
  <2>2. thr'[t].buf = Printed(Pieces(s)[q].kept)
    BY <1>11, <1>14, Zenon DEF piece, sofar
  <2>3. q \in 0..ChunkSize
    BY <1>6, <1>9
  <2>4. QED
    BY <1>11, <2>1, <2>2, <2>3
<1> HIDE DEF q
<1>16. ReadUpTo(t, q)' /\ q \in 0..ChunkSize'
  BY <1>1, <1>6, <1>15, SameJob, SameGrep DEF ReadUpTo, Found, s
<1>17. Finds(t)'
  BY <1>4, <1>16 DEF Finds
<1>18. QED
  BY <1>1, <1>17, GrepStepGreps

LEMMA FprintfFaultsGreps ==
  ASSUME GInv, NEW t \in Threads, FprintfFaults(t)
  PROVE  Greps'
BY DEF FprintfFaults, Greps, Parsed

(* fclose writes what was found in the whole chunk (line 231).             *)
LEMMA CloseGreps ==
  ASSUME GInv, NEW t \in Threads, Close(t), Regular
  PROVE  Greps'
<1>1. /\ Running /\ t \in DOMAIN thr /\ thr[t].pc = "read"
      /\ thr[t].rest = << >>
      /\ DOMAIN thr' = DOMAIN thr
      /\ \A u \in DOMAIN thr : u # t => thr'[u] = thr[u]
      /\ UNCHANGED <<job, pc, k, tmp, result, runs>>
      /\ out'[t] = out[t] \o thr[t].buf
      /\ \A u \in DOMAIN out : u # t => out'[u] = out[u]
  BY DEF Close, Overwrite
<1>2. /\ job \in Jobs /\ Sized /\ FileSize > 0 /\ Parsed
      /\ thr[t] = [pc |-> "read", rest |-> thr[t].rest, buf |-> thr[t].buf]
  BY <1>1, ChunkFacts, RegularFacts DEF GInv, IInv, TypeOK, ThreadShape, Phases, Running, Parsed
<1>3. thr'[t].pc = "done"
  BY <1>1, <1>2 DEF Close
<1>4. PICK p \in 0..ChunkSize : ReadUpTo(t, p)
  BY <1>1, <1>2 DEF GInv, Greps, Finds
<1>5. Chunk(t) \in Seq(Bytes) /\ Len(Chunk(t)) = ChunkSize /\ ChunkSize \in Nat
  BY <1>2, ChunkLies, RegularFacts
<1>6. p = ChunkSize
  <2>1. /\ SubSeq(Chunk(t), p + 1, ChunkSize) = << >>
        /\ Len(SubSeq(Chunk(t), p + 1, ChunkSize)) =
             IF p <= ChunkSize THEN ChunkSize - p ELSE 0
    <3>1. ChunkSize \in 0..Len(Chunk(t)) /\ p \in Nat
      BY <1>5
    <3>2. QED
      BY <1>1, <1>4, <1>5, <3>1, SubBytes DEF ReadUpTo
  <2>2. ChunkSize - p = 0
    BY <1>4, <1>5, <2>1
  <2>3. QED
    BY <1>4, <1>5, <2>2
<1>7. out[t] = << >> /\ thr[t].buf \in Seq(Bytes)
  BY <1>1, <1>2 DEF GInv, IInv, Sizes, ThreadFits
<1>8. out'[t] = Printed(GrepOf(Chunk(t)))
  <2>1. GrepOf(Chunk(t)) = Found(t, ChunkSize).kept
    BY <1>2, ChunkGrepsFit, RegularFacts
  <2>2. out'[t] = thr[t].buf
    BY <1>1, <1>7, ConcatEmptySeq
  <2>3. QED
    BY <1>4, <1>6, <2>1, <2>2 DEF ReadUpTo
<1>9. Finds(t)'
  BY <1>1, <1>3, <1>8, SameGrep DEF Finds
<1>10. QED
  BY <1>1, <1>9, GrepStepGreps
-----------------------------------------------------------------------------
LEMMA StepGreps == GInv /\ [Next]_vars => GInv'
<1> SUFFICES ASSUME GInv, [Next]_vars PROVE GInv'
  OBVIOUS
<1>1. IInv'
  BY StepKeeps DEF GInv
<1>2. ASSUME NEW t \in Threads, Grep(t)
      PROVE  (Regular => Greps)'
  <2>1. job' = job
    BY <1>2 DEF Grep, Open, ReadLine, FprintfFaults, Close
  <2>2. QED
    BY <1>2, <2>1, SameJob, OpenGreps, ReadLineGreps, FprintfFaultsGreps, CloseGreps
       DEF Grep, Regular
<1>3. CASE Main
  BY <1>1, <1>3, ParseChunkGreps, ParseFaultsGreps, ParseDoneGreps,
     CreateThreadGreps, JoinThreadGreps, WrapFileGreps, WrapFaultsGreps, WrapDoneGreps
     DEF Main, GInv
<1>4. CASE UNCHANGED vars
  <2>1. \A g : Wrapped(g) => Wrapped(g)'
    BY <1>4, SameGrep DEF vars, Wrapped
  <2>2. QED
    <3>1. Regular' = Regular
      BY <1>4, SameJob DEF vars, Regular
    <3>2. QED
      BY <1>1, <1>4, <2>1, <3>1, SameJob, SameGrep, FindsStays
         DEF vars, GInv, Greps, Parsed
<1>5. QED
  BY <1>1, <1>2, <1>3, <1>4, NextRunGreps DEF Next, GInv

LEMMA GrepsInvariant == Spec => []GInv
<1>1. Init => GInv
  <2>1. Init => (Regular => Greps)
    BY DEF Init, Greps, Parsed
  <2>2. QED
    BY <2>1, InitHolds DEF GInv
<1>2. QED
  BY <1>1, StepGreps, PTL DEF Spec

(***************************************************************************)
(* Where the chunks are lines, the grep of the chunks is the grep of the   *)
(* file.                                                                   *)
(***************************************************************************)
MatchingParts ==
  [i \in 1..FileSize |-> IF i \in MatchingBytes THEN <<job.file[i]>> ELSE << >>]

(* the bytes lo + 1..hi are a line of the file                             *)
WholeLine(lo, hi) ==
  /\ lo = 0 \/ job.file[lo] = "eol"
  /\ hi = FileSize \/ job.file[hi] = "eol"
  /\ \A m \in lo + 1..hi - 1 : job.file[m] # "eol"

HitIn(lo, hi) == \E j \in lo + 1..hi : job.file[j] = "hit"

LEMMA MatchesInLine ==
  ASSUME job \in Jobs, NEW lo \in 0..FileSize, NEW hi \in lo + 1..FileSize,
         WholeLine(lo, hi)
  PROVE  \A i \in lo + 1..hi : i \in MatchingBytes <=> HitIn(lo, hi)
<1>1. FileSize \in Nat
  BY ChunkFacts
<1> SUFFICES ASSUME NEW i \in lo + 1..hi
             PROVE  i \in MatchingBytes <=> HitIn(lo, hi)
  OBVIOUS
<1>2. i \in 1..FileSize
  BY <1>1
<1>3. ASSUME NEW j \in 1..FileSize, SameLine(i, j), SameLine(j, i)
      PROVE  j \in lo + 1..hi
  <2>1. CASE j <= lo
    <3>1. lo \in j..i - 1 /\ lo # 0
      BY <1>1, <2>1
    <3>2. QED
      BY <1>3, <3>1 DEF WholeLine, SameLine
  <2>2. CASE j > hi
    <3>1. hi \in i..j - 1 /\ hi # FileSize
      BY <1>1, <2>2
    <3>2. QED
      BY <1>3, <3>1 DEF WholeLine, SameLine
  <2>3. QED
    BY <1>1, <2>1, <2>2
<1>4. ASSUME NEW j \in lo + 1..hi
      PROVE  j \in 1..FileSize /\ SameLine(i, j) /\ SameLine(j, i)
  <2>1. \A m \in i..j - 1 : m \in lo + 1..hi - 1
    BY <1>1
  <2>2. \A m \in j..i - 1 : m \in lo + 1..hi - 1
    BY <1>1
  <2>3. j \in 1..FileSize
    BY <1>1
  <2>4. QED
    BY <2>1, <2>2, <2>3 DEF WholeLine, SameLine
<1>5. QED
  BY <1>2, <1>3, <1>4, Zenon DEF MatchingBytes, HitIn

(* Without a NUL a piece is kept as a whole or not at all (line 211).      *)
LEMMA KeptWhole ==
  ASSUME NEW s \in Seq(Bytes), \A i \in 1..Len(s) : s[i] # "nul"
  PROVE  Kept(s) = IF Contains(s, "hit") THEN s ELSE << >>
<1>1. {i \in 1..Len(s) : s[i] = "nul"} = {}
  OBVIOUS
<1>2. UpToNul(s) = s
  BY <1>1, Zenon DEF UpToNul, SelectInSeq
<1>3. QED
  BY <1>2 DEF Kept

LEMMA Associative ==
  \A a, b, c \in Seq(Bytes) : (a \o b) \o c = a \o (b \o c)
BY ConcatAssociative

LEMMA LineGrep ==
  ASSUME job \in Jobs, ~ Contains(job.file, "nul"),
         NEW h, Flattening(Bytes, MatchingParts, FileSize, h),
         NEW lo \in 0..FileSize, NEW hi \in lo + 1..FileSize,
         WholeLine(lo, hi)
  PROVE  h[hi] = h[lo] \o Kept(SubSeq(job.file, lo + 1, hi))
<1> DEFINE F == job.file
           Part(m) == IF HitIn(lo, hi) THEN SubSeq(F, lo + 1, m) ELSE << >>
           Bad == {m \in lo..hi : h[m] # h[lo] \o Part(m)}
<1>1. /\ F \in Seq(Bytes) /\ FileSize \in Nat /\ Len(F) = FileSize
      /\ \A i \in 1..FileSize : F[i] \in Bytes /\ F[i] # "nul"
  BY ChunkFacts, ElementOfSeq DEF FileSize, Contains
<1>2. /\ \A i \in 0..FileSize : h[i] \in Seq(Bytes)
      /\ \A i \in 1..FileSize : h[i] = h[i - 1] \o MatchingParts[i]
  BY DEF Flattening
<1>3. \A m \in lo..hi : SubSeq(F, lo + 1, m) \in Seq(Bytes)
  <2>1. \A m \in lo..hi : m \in 0..Len(F) /\ lo \in Nat
    BY <1>1
  <2>2. QED
    BY <1>1, <2>1, SubBytes
<1>4. h[lo] \in Seq(Bytes) /\ h[lo] \o << >> = h[lo]
  BY <1>2, ConcatEmptySeq
<1> HIDE DEF F
<1>5. Bad = {}
  <2> SUFFICES ASSUME Bad # {} PROVE FALSE
    OBVIOUS
  <2>1. PICK m \in Bad : \A i \in Bad : m <= i
    <3>1. Bad \subseteq Nat
      <4>1. Bad \subseteq lo..hi
        BY Zenon
      <4>2. lo..hi \subseteq Nat
        BY <1>1
      <4>3. QED
        BY <4>1, <4>2, Zenon
    <3> HIDE DEF Bad
    <3>2. QED
      BY <3>1, LeastOf
  <2>2. m \in lo..hi /\ h[m] # h[lo] \o Part(m)
    OBVIOUS
  <2>3. m # lo
    <3>1. SubSeq(F, lo + 1, lo) = << >>
      <4>1. lo \in Int /\ lo + 1 \in Int /\ lo < lo + 1
        BY <1>1
      <4>2. QED
        BY <4>1, SubSeqEmpty
    <3>2. Part(lo) = << >>
      BY <3>1
    <3>3. QED
      BY <1>4, <2>2, <3>2
  <2>4. /\ m - 1 \in lo..hi /\ ~ (m <= m - 1) /\ m \in lo + 1..hi
        /\ m \in 1..FileSize /\ m \in Int
    BY <1>1, <2>2, <2>3
  <2>5. h[m - 1] = h[lo] \o Part(m - 1)
    BY <2>1, <2>4, Zenon
  <2>6. h[m] = h[m - 1] \o MatchingParts[m]
    BY <1>2, <2>4
  <2>7. MatchingParts[m] = IF HitIn(lo, hi) THEN <<F[m]>> ELSE << >>
    BY <2>4, MatchesInLine DEF MatchingParts, F
  <2>8. CASE HitIn(lo, hi)
    <3>1. SubSeq(F, lo + 1, m) = SubSeq(F, lo + 1, m - 1) \o <<F[m]>>
      <4>1. lo + 1 \in 1..Len(F) /\ m \in lo + 1..Len(F)
        BY <1>1, <2>4
      <4>2. QED
        BY <1>1, <4>1, SubSeqRecursiveSecond
    <3>2. <<F[m]>> \in Seq(Bytes) /\ SubSeq(F, lo + 1, m - 1) \in Seq(Bytes)
      BY <1>1, <1>3, <2>4
    <3>3. (h[lo] \o SubSeq(F, lo + 1, m - 1)) \o <<F[m]>> =
            h[lo] \o (SubSeq(F, lo + 1, m - 1) \o <<F[m]>>)
      BY <1>4, <3>2, Associative
    <3>4. QED
      BY <2>2, <2>5, <2>6, <2>7, <2>8, <3>1, <3>3, Zenon
  <2>9. CASE ~ HitIn(lo, hi)
    BY <1>4, <2>2, <2>5, <2>6, <2>7, <2>9, Zenon
  <2>10. QED
    BY <2>8, <2>9
<1>6. h[hi] = h[lo] \o Part(hi)
  <2>1. hi \in lo..hi
    BY <1>1
  <2>2. QED
    BY <1>5, <2>1
<1> DEFINE piece == SubSeq(F, lo + 1, hi)
<1>7. /\ piece \in Seq(Bytes) /\ Len(piece) = hi - lo
      /\ \A i \in 1..hi - lo : piece[i] = F[lo + i]
  <2>1. hi \in 0..Len(F) /\ lo \in Nat /\ lo <= hi
    BY <1>1
  <2>2. QED
    BY <1>1, <2>1, SubBytes
<1> HIDE DEF piece
<1>8. \A i \in 1..Len(piece) : piece[i] # "nul"
  <2>1. \A i \in 1..hi - lo : lo + i \in 1..FileSize
    BY <1>1
  <2>2. QED
    BY <1>1, <1>7, <2>1, Zenon
<1>9. Contains(piece, "hit") <=> HitIn(lo, hi)
  <2>1. ASSUME NEW i \in 1..hi - lo
        PROVE  lo + i \in lo + 1..hi
    BY <1>1
  <2>2. ASSUME NEW j \in lo + 1..hi
        PROVE  j - lo \in 1..hi - lo /\ lo + (j - lo) = j
    BY <1>1
  <2>3. ASSUME NEW i \in 1..Len(piece), piece[i] = "hit"
        PROVE  HitIn(lo, hi)
    <3>1. i \in 1..hi - lo
      BY <1>7
    <3>2. F[lo + i] = "hit" /\ lo + i \in lo + 1..hi
      BY <1>7, <2>1, <2>3, <3>1
    <3>3. QED
      BY <3>2, Zenon DEF HitIn, F
  <2>4. ASSUME NEW j \in lo + 1..hi, F[j] = "hit"
        PROVE  Contains(piece, "hit")
    <3>1. j - lo \in 1..Len(piece) /\ piece[j - lo] = "hit"
      BY <1>7, <2>2, <2>4
    <3>2. QED
      BY <3>1, Zenon DEF Contains
  <2>5. QED
    BY <2>3, <2>4, Zenon DEF Contains, HitIn, F
<1>10. Kept(piece) = Part(hi)
  BY <1>7, <1>8, <1>9, KeptWhole DEF piece
<1>11. QED
  BY <1>6, <1>10 DEF piece, F

(* After the first n bytes of a chunk: what is kept is what the file has   *)
(* of matching lines up to the piece that is open, which begins a line.    *)
InStep(h, t, n) ==
  LET a  == (t - 1) * ChunkSize
      st == Found(t, n).start
  IN /\ st \in 0..n
     /\ h[a + st] = h[a] \o Found(t, n).kept
     /\ st < ChunkSize => a + st = 0 \/ job.file[a + st] = "eol"
     /\ \A m \in st + 1..n : job.file[a + m] # "eol"
     /\ n = ChunkSize => st = n

LEMMA InStepNext ==
  ASSUME job \in Jobs, FileSize >= job.threads, SplitAtLines, TextLinesFit,
         NEW h, Flattening(Bytes, MatchingParts, FileSize, h),
         NEW t \in Threads, NEW n \in 1..ChunkSize, InStep(h, t, n - 1)
  PROVE  InStep(h, t, n)
<1> DEFINE F == job.file
           s == Chunk(t)
           a == (t - 1) * ChunkSize
           b == t * ChunkSize
           f(m) == Found(t, m)
           st == f(n - 1).start
<1>1. /\ ChunkSize \in Nat \ {0} /\ a \in Nat /\ b = a + ChunkSize
      /\ b \in 1..FileSize
      /\ s \in Seq(Bytes) /\ Len(s) = ChunkSize
      /\ \A i \in 1..ChunkSize : s[i] = F[a + i]
  BY ChunkLies
<1>2. /\ F \in Seq(Bytes) /\ FileSize \in Nat /\ Len(F) = FileSize
      /\ job.threads \in Nat \ {0}
  BY ChunkFacts DEF FileSize
<1>3. t = job.threads => b = FileSize
  <2>1. \A x \in Nat, y \in Nat \ {0} : x % y = 0 => y * (x \div y) = x
    BY SMT
  <2>2. job.threads * ChunkSize = FileSize
    BY <1>2, <2>1 DEF SplitAtLines, EvenSplit, ChunkSize
  <2>3. QED
    BY <2>2
<1>4. t # job.threads => F[b] = "eol"
  BY <1>2 DEF SplitAtLines, Threads
<1>5. /\ ~ Contains(F, "nul")
      /\ \A i \in 1..FileSize - LineMax :
           \E m \in i..i + LineMax - 1 : F[m] = "eol"
  BY DEF TextLinesFit
<1> HIDE DEF a, b
<1>6. /\ st \in 0..n - 1
      /\ h[a + st] = h[a] \o f(n - 1).kept
      /\ st < ChunkSize => a + st = 0 \/ F[a + st] = "eol"
      /\ \A m \in st + 1..n - 1 : F[a + m] # "eol"
  BY Zenon DEF InStep, a
<1>7. f(n) = AfterByte(s, f(n - 1), n)
  <2>1. n \in 1..Len(s)
    BY <1>1
  <2>2. Pieces(s)[n] = AfterByte(s, Pieces(s)[n - 1], n)
    BY <1>1, <2>1, PiecesFacts, Zenon
  <2>3. QED
    BY <2>2, Zenon DEF Found
<1>8. f(n - 1).kept \in Seq(Bytes)
  BY <1>1, ChunkGrepsFit
<1>9. s[n] = F[a + n]
  BY <1>1
<1> HIDE DEF F, s, f, st
<1>10. CASE EndsPiece(s, f(n - 1), n)
  <2>1. PieceKept(s, f(n - 1), n)
    BY <1>10, AfterByteCases
  <2>2. /\ f(n).start = n
        /\ f(n).kept = f(n - 1).kept \o Kept(SubSeq(s, st + 1, n))
    BY <1>7, <2>1, Zenon DEF PieceKept, st
  <2>3. s[n] = "eol" \/ n - st = LineMax \/ n = ChunkSize
    BY <1>1, <1>10 DEF EndsPiece, st
  <2> DEFINE lo == a + st
             hi == a + n
  <2>4. lo \in 0..FileSize /\ hi \in lo + 1..FileSize /\ hi <= b
    BY <1>1, <1>2, <1>6
  <2>5. \A m \in lo + 1..hi - 1 : F[m] # "eol"
    <3>1. ASSUME NEW m \in lo + 1..hi - 1
          PROVE  m - a \in st + 1..n - 1 /\ a + (m - a) = m
      BY <1>1, <1>6
    <3>2. QED
      BY <1>6, <3>1, Zenon
  <2>6. lo = 0 \/ F[lo] = "eol"
    <3>1. st < ChunkSize
      BY <1>1, <1>6
    <3>2. QED
      BY <1>6, <3>1
  <2>7. hi = FileSize \/ F[hi] = "eol"
    <3>1. CASE s[n] = "eol"
      BY <1>9, <3>1
    <3>2. CASE n = ChunkSize
      <4>1. hi = b
        BY <1>1, <3>2
      <4>2. QED
        BY <1>3, <1>4, <4>1
    <3>3. CASE n - st = LineMax
      <4>1. lo + 1 <= FileSize - LineMax \/ hi = FileSize
        BY <1>1, <1>2, <1>6, <2>4, <3>3
      <4>2. CASE lo + 1 <= FileSize - LineMax
        <5>1. /\ lo + 1 \in 1..FileSize - LineMax
              /\ (lo + 1) + LineMax - 1 = hi
          BY <1>1, <1>2, <1>6, <2>4, <3>3, <4>2
        <5>2. PICK m \in lo + 1..hi : F[m] = "eol"
          BY <1>5, <5>1
        <5>3. m = hi
          BY <1>1, <1>6, <2>4, <2>5, <5>2
        <5>4. QED
          BY <5>2, <5>3
      <4>3. QED
        BY <4>1, <4>2
    <3>4. QED
      BY <2>3, <3>1, <3>2, <3>3
  <2>8. SubSeq(s, st + 1, n) = SubSeq(F, lo + 1, hi)
    <3> DEFINE c == SubSeq(s, st + 1, n)
               d == SubSeq(F, lo + 1, hi)
    <3>1. /\ c \in Seq(Bytes) /\ Len(c) = n - st
          /\ \A i \in 1..n - st : c[i] = s[st + i]
      <4>1. n \in 0..Len(s) /\ st \in Nat /\ st <= n
        BY <1>1, <1>6
      <4>2. QED
        BY <1>1, <4>1, SubBytes
    <3>2. /\ d \in Seq(Bytes) /\ Len(d) = n - st
          /\ \A i \in 1..n - st : d[i] = F[lo + i]
      <4>1. hi \in 0..Len(F) /\ lo \in Nat /\ lo <= hi /\ hi - lo = n - st
        BY <1>1, <1>2, <1>6, <2>4
      <4> HIDE DEF hi, lo
      <4>2. QED
        BY <1>2, <4>1, SubBytes
    <3> HIDE DEF c, d
    <3>3. ASSUME NEW i \in 1..n - st
          PROVE  c[i] = d[i]
      <4>1. st + i \in 1..ChunkSize /\ a + (st + i) = lo + i
        BY <1>1, <1>6
      <4>2. s[st + i] = F[a + (st + i)]
        BY <1>1, <4>1
      <4>3. QED
        BY <3>1, <3>2, <4>1, <4>2
    <3>4. c = d
      BY <3>1, <3>2, <3>3, SeqEqual
    <3>5. QED
      BY <3>4 DEF c, d
  <2>9. h[hi] = h[lo] \o Kept(SubSeq(F, lo + 1, hi))
    <3>1. WholeLine(lo, hi)
      BY <2>5, <2>6, <2>7 DEF WholeLine, F
    <3> HIDE DEF lo, hi
    <3>2. QED
      BY <1>5, <2>4, <3>1, LineGrep DEF F
  <2>10. h[hi] = h[a] \o f(n).kept
    <3> DEFINE piece == Kept(SubSeq(s, st + 1, n))
    <3>1. h[a] \in Seq(Bytes)
      <4>1. a \in 0..FileSize /\ h \in [0..FileSize -> Seq(Bytes)]
        BY <1>1, <1>2 DEF Flattening
      <4>2. QED
        BY <4>1
    <3>2. piece \in Seq(Bytes)
      <4>1. n \in 0..Len(s) /\ st \in Nat
        BY <1>1, <1>6
      <4>2. QED
        BY <1>1, <4>1, SubBytes, KeptFits
    <3>3. h[hi] = (h[a] \o f(n - 1).kept) \o piece
      BY <1>6, <2>8, <2>9, Zenon
    <3>4. f(n).kept = f(n - 1).kept \o piece
      BY <2>2
    <3> HIDE DEF piece
    <3>5. QED
      <4>1. (h[a] \o f(n - 1).kept) \o piece = h[a] \o (f(n - 1).kept \o piece)
        BY <1>8, <3>1, <3>2, Associative
      <4>2. QED
        BY <3>3, <3>4, <4>1, Zenon
  <2>11. n < ChunkSize => F[hi] = "eol"
    BY <1>1, <1>2, <2>7
  <2>12. /\ f(n).start \in 0..n
         /\ h[a + f(n).start] = h[a] \o f(n).kept
         /\ f(n).start < ChunkSize =>
              a + f(n).start = 0 \/ F[a + f(n).start] = "eol"
         /\ \A m \in f(n).start + 1..n : F[a + m] # "eol"
         /\ n = ChunkSize => f(n).start = n
    BY <2>2, <2>10, <2>11
  <2>13. QED
    BY <2>12, Zenon DEF InStep, f, F, a
<1>11. CASE ~ EndsPiece(s, f(n - 1), n)
  <2>1. f(n) = f(n - 1)
    BY <1>7, <1>11, AfterByteCases
  <2>2. F[a + n] # "eol" /\ n # ChunkSize
    BY <1>1, <1>9, <1>11 DEF EndsPiece
  <2>3. f(n).start = st
    BY <2>1 DEF st
  <2>4. \A m \in st + 1..n : F[a + m] # "eol"
    <3>1. \A m \in st + 1..n : m = n \/ m \in st + 1..n - 1
      BY <1>6
    <3>2. QED
      BY <1>6, <2>2, <3>1, Zenon
  <2>5. st \in 0..n
    BY <1>6
  <2>6. /\ f(n).start \in 0..n
        /\ h[a + f(n).start] = h[a] \o f(n).kept
        /\ f(n).start < ChunkSize =>
             a + f(n).start = 0 \/ F[a + f(n).start] = "eol"
        /\ \A m \in f(n).start + 1..n : F[a + m] # "eol"
        /\ n = ChunkSize => f(n).start = n
    BY <1>6, <2>1, <2>2, <2>3, <2>4, <2>5
  <2>7. QED
    BY <2>6, Zenon DEF InStep, f, F, a
<1>12. QED
  BY <1>10, <1>11

(* The grep of a chunk is what the file has of matching lines there.       *)
LEMMA ChunkOfLines ==
  ASSUME job \in Jobs, FileSize >= job.threads, SplitAtLines, TextLinesFit,
         NEW h, Flattening(Bytes, MatchingParts, FileSize, h),
         NEW t \in Threads
  PROVE  h[t * ChunkSize] = h[(t - 1) * ChunkSize] \o GrepOf(Chunk(t))
<1> DEFINE a == (t - 1) * ChunkSize
           b == t * ChunkSize
           Bad == {n \in 0..ChunkSize : ~ InStep(h, t, n)}
<1>1. /\ ChunkSize \in Nat \ {0} /\ a \in Nat /\ b = a + ChunkSize
      /\ b \in 1..FileSize /\ FileSize \in Nat /\ job.threads \in Nat \ {0}
  BY ChunkLies, ChunkFacts
<1>2. InStep(h, t, 0)
  <2>1. a = 0 \/ job.file[a] = "eol"
    <3>1. CASE t = 1
      <4>1. t - 1 = 0 /\ 0 * ChunkSize = 0
        BY <1>1, <3>1
      <4>2. QED
        BY <4>1, Zenon
    <3>2. CASE t # 1
      <4>1. t - 1 \in Threads /\ t - 1 < job.threads
        BY <1>1, <3>2 DEF Threads
      <4>2. QED
        BY <4>1 DEF SplitAtLines
    <3>3. QED
      BY <3>1, <3>2
  <2> HIDE DEF a, b
  <2>2. Found(t, 0).start = 0 /\ Found(t, 0).kept = << >>
    BY ChunkGrepsFit DEF Nothing
  <2>3. h[a] \in Seq(Bytes)
    <3>1. a \in 0..FileSize /\ h \in [0..FileSize -> Seq(Bytes)]
      BY <1>1 DEF Flattening
    <3>2. QED
      BY <3>1
  <2>4. h[a + 0] = h[a] \o << >>
    <3>1. a + 0 = a
      BY <1>1
    <3>2. QED
      BY <2>3, <3>1, ConcatEmptySeq
  <2>5. a + 0 = a
    BY <1>1
  <2>6. /\ Found(t, 0).start \in 0..0
        /\ h[a + Found(t, 0).start] = h[a] \o Found(t, 0).kept
        /\ Found(t, 0).start < ChunkSize =>
             \/ a + Found(t, 0).start = 0
             \/ job.file[a + Found(t, 0).start] = "eol"
        /\ \A m \in Found(t, 0).start + 1..0 : job.file[a + m] # "eol"
        /\ 0 = ChunkSize => Found(t, 0).start = 0
    <3>1. \A m \in 0 + 1..0 : job.file[a + m] # "eol"
      OBVIOUS
    <3>2. 0 \in 0..0 /\ (0 < ChunkSize => a + 0 = 0 \/ job.file[a + 0] = "eol")
      BY <2>1, <2>5
    <3>3. QED
      BY <2>2, <2>4, <3>1, <3>2, Zenon
  <2>7. QED
    BY <2>6, Zenon DEF InStep, a
<1>3. Bad = {}
  <2> SUFFICES ASSUME Bad # {} PROVE FALSE
    OBVIOUS
  <2>1. PICK n \in Bad : \A i \in Bad : n <= i
    <3>1. Bad \subseteq Nat
      BY <1>1
    <3> HIDE DEF Bad
    <3>2. QED
      BY <3>1, LeastOf
  <2>2. n \in 0..ChunkSize /\ ~ InStep(h, t, n)
    BY Zenon
  <2>3. n # 0
    BY <1>2, <2>2
  <2>4. n - 1 \in 0..ChunkSize /\ ~ (n <= n - 1) /\ n \in 1..ChunkSize
    BY <1>1, <2>2, <2>3
  <2>5. InStep(h, t, n - 1)
    BY <2>1, <2>4, Zenon
  <2>6. QED
    BY <2>2, <2>4, <2>5, InStepNext
<1>4. InStep(h, t, ChunkSize)
  <2>1. ChunkSize \in 0..ChunkSize
    BY <1>1
  <2>2. QED
    BY <1>3, <2>1, Zenon
<1>5. h[a + ChunkSize] = h[a] \o Found(t, ChunkSize).kept
  BY <1>4 DEF InStep
<1>6. GrepOf(Chunk(t)) = Found(t, ChunkSize).kept
  BY ChunkGrepsFit
<1>7. QED
  BY <1>1, <1>5, <1>6

LEMMA ChunksOfLines ==
  ASSUME job \in Jobs, FileSize >= job.threads, SplitAtLines, TextLinesFit
  PROVE  GrepOfChunks = MatchingLines
<1>1. /\ ChunkSize \in Nat /\ FileSize \in Nat /\ FileSize > 0
      /\ job.file \in Seq(Bytes) /\ Len(job.file) = FileSize
      /\ job.threads \in Nat \ {0}
  BY ChunkFacts DEF FileSize
<1>2. MatchingParts \in [1..FileSize -> Seq(Bytes)]
  <2>1. \A i \in 1..FileSize : job.file[i] \in Bytes
    BY <1>1, ElementOfSeq
  <2>2. \A i \in 1..FileSize : <<job.file[i]>> \in Seq(Bytes) /\ << >> \in Seq(Bytes)
    BY <2>1
  <2>3. QED
    BY <2>2 DEF MatchingParts
<1>3. PICK h : Flattening(Bytes, MatchingParts, FileSize, h)
  BY <1>1, <1>2, FlattenSeqFacts
<1>4. PICK g : Flattening(Bytes, ChunkGreps, job.threads, g)
  BY <1>1, ChunkGrepsFit, FlattenSeqFacts
<1> DEFINE Bad == {t \in 0..job.threads : g[t] # h[t * ChunkSize]}
<1>5. Bad = {}
  <2> SUFFICES ASSUME Bad # {} PROVE FALSE
    OBVIOUS
  <2>1. PICK t \in Bad : \A i \in Bad : t <= i
    <3>1. Bad \subseteq Nat
      BY <1>1
    <3> HIDE DEF Bad
    <3>2. QED
      BY <3>1, LeastOf
  <2>2. t \in 0..job.threads /\ g[t] # h[t * ChunkSize]
    BY Zenon
  <2>3. t # 0
    <3>1. 0 * ChunkSize = 0
      BY <1>1
    <3>2. g[0] = h[0]
      BY <1>3, <1>4 DEF Flattening
    <3>3. QED
      BY <2>2, <3>1, <3>2, Zenon
  <2>4. /\ t - 1 \in 0..job.threads /\ ~ (t <= t - 1) /\ t \in 1..job.threads
        /\ t \in Threads
    BY <1>1, <2>2, <2>3 DEF Threads
  <2>5. g[t - 1] = h[(t - 1) * ChunkSize]
    BY <2>1, <2>4, Zenon
  <2>6. g[t] = g[t - 1] \o GrepOf(Chunk(t))
    <3>1. g[t] = g[t - 1] \o ChunkGreps[t]
      BY <1>4, <2>4 DEF Flattening
    <3>2. QED
      BY <2>4, <3>1 DEF ChunkGreps
  <2>7. h[t * ChunkSize] = h[(t - 1) * ChunkSize] \o GrepOf(Chunk(t))
    BY <1>3, <2>4, ChunkOfLines
  <2>8. QED
    BY <2>2, <2>5, <2>6, <2>7, Zenon
<1>6. job.threads * ChunkSize = FileSize
  <2>1. \A x \in Nat, y \in Nat \ {0} : x % y = 0 => y * (x \div y) = x
    BY SMT
  <2>2. QED
    BY <1>1, <2>1 DEF SplitAtLines, EvenSplit, ChunkSize
<1>7. g[job.threads] = h[job.threads * ChunkSize]
  <2>1. job.threads \in 0..job.threads
    BY <1>1
  <2>2. QED
    BY <1>5, <2>1, Zenon
<1>8. FlattenSeq(ChunkGreps) = FlattenSeq(MatchingParts)
  BY <1>3, <1>4, <1>6, <1>7, Zenon DEF Flattening
<1>9. GrepOfChunks = FlattenSeq(ChunkGreps)
  BY ChunkGrepsFit
<1>10. QED
  BY <1>8, <1>9, Zenon DEF MatchingLines, MatchingParts

(* Whatever the files of an earlier run and the interleaving: the output   *)
(* is the grep of the chunks in their order, if no '%' is printed; and     *)
(* where the chunks are made of lines that fit the buffer, it is the lines *)
(* with the character (lines 153-185, 206-230 and 235-328).                *)
THEOREM GrepsTheChunks == Spec => []OutputIsGrep
<1>1. GInv => OutputIsGrep
  <2> SUFFICES ASSUME GInv, pc = "done" PROVE OutputIsGrep
    BY DEF OutputIsGrep, ResultIsGrepOfChunks, GrepsWholeLines
  <2>1. job \in Jobs /\ job.threads \in Nat \ {0} /\ FileSize \in Nat
    BY ChunkFacts DEF GInv, IInv, TypeOK
  <2>2. FileSize >= job.threads /\ PlainText => result = Output(GrepOfChunks)
    BY DEF GInv, Greps, Regular
  <2>3. SplitAtLines => FileSize >= job.threads
    <3>1. \A x \in Nat \ {0}, y \in Nat \ {0} : x % y = 0 => x >= y
      BY SMT
    <3>2. QED
      BY <2>1, <3>1 DEF SplitAtLines, EvenSplit
  <2>4. SplitAtLines /\ TextLinesFit /\ PlainText => result = Output(MatchingLines)
    BY <2>1, <2>2, <2>3, ChunksOfLines
  <2>5. QED
    BY <2>2, <2>4 DEF OutputIsGrep, ResultIsGrepOfChunks, GrepsWholeLines
<1>2. QED
  BY <1>1, GrepsInvariant, PTL
=============================================================================

------------------------------- MODULE MCGrep -------------------------------
(***************************************************************************)
(* MCGrep/mcgrep.c: the main thread splits the input file into chunk files *)
(* k.tmp, starts one thread per chunk that writes the lines with the       *)
(* searched character to k.out, joins the threads, and puts the .out files *)
(* together.  The .tmp and .out files stay in the directory, and the next  *)
(* run of the program finds them there.                                    *)
(*                                                                         *)
(* A byte is "hit" (the searched character), "new" (the replacement),      *)
(* "eol", "nul", "junk" (whatever lies behind a mapping), "percent" or     *)
(* "other".  '%' is the byte job.percent: "percent", or "hit" or "new"     *)
(* where the user searches for '%' or puts it in.  The output of a thread  *)
(* sits in its stdio buffer until fclose.                                  *)
(***************************************************************************)
EXTENDS Integers, Sequences, SequencesExt

CONSTANTS
  Jobs,       \* command lines: [file, threads, replace, toFile, percent]
  Garbage,    \* bound: what fprintf may make of a conversion and of the rest
  LineMax,    \* BUFFERSIZE - 1, what fgets reads at most
  PageSize,   \* mappings end at page boundaries
  MaxRuns,    \* bound: runs of the program in the same directory
  MaxFiles    \* bound: chunk files parse makes when it does not stop

Bytes == {"hit", "new", "eol", "nul", "junk", "percent", "other"}

ASSUME MCGrepAssumption ==
  /\ LineMax \in Nat \ {0}
  /\ PageSize \in Nat \ {0}
  /\ MaxRuns \in Nat \ {0}
  /\ MaxFiles \in Nat
  /\ Garbage \subseteq Seq(Bytes)
  /\ \A job \in Jobs : /\ job.file \in Seq(Bytes)
                       /\ job.threads \in 1..MaxFiles - 1
                       /\ job.replace \in BOOLEAN /\ job.toFile \in BOOLEAN
                       /\ job.percent \in {"percent", "hit", "new"}

VARIABLES
  job,     \* the command line of this run
  pc,      \* where the main thread is
  k,       \* its loop counter
  thr,     \* thread -> [pc, rest (what fgets has not read), buf]
  tmp,     \* the files k.tmp: number -> bytes
  out,     \* the files k.out
  result,  \* what has been printed, or written to the -o file
  runs     \* runs so far, bounded by MaxRuns

vars == <<job, pc, k, thr, tmp, out, result, runs>>

Threads == 1..job.threads

FileSize == Len(job.file)

ChunkSize == FileSize \div job.threads

(***************************************************************************)
(* Files and mappings.                                                     *)
(***************************************************************************)
Overwrite(files, n, bytes) ==
  [m \in DOMAIN files \cup {n} |-> IF m = n THEN bytes ELSE files[m]]

Fill(byte, n) == [i \in 1..n |-> byte]

MappingEnd == ((FileSize + PageSize - 1) \div PageSize) * PageSize

(* what memcpy(dst, src+i, chunk) copies: past the end of the file the     *)
(* mapped page is zero, past that page there may be anything               *)
ChunkBytes(i) ==
  [j \in 1..ChunkSize |->
     CASE i + j <= FileSize   -> job.file[i + j]
       [] i + j > MappingEnd  -> "junk"
       [] OTHER               -> "nul"]

NewThread == [pc |-> "open", rest |-> << >>, buf |-> << >>]
-----------------------------------------------------------------------------
(***************************************************************************)
(* parse: with more threads than bytes the chunk is empty and i stays 0;   *)
(* each round then leaves a file of one dummy byte.                        *)
(***************************************************************************)
Offset == (k - 1) * ChunkSize

(* mutant: a chunk file of an earlier run is taken as it is *)
ParseReusing ==
  /\ pc = "parse"
  /\ Offset < FileSize
  /\ tmp' = IF k \in DOMAIN tmp THEN tmp
            ELSE Overwrite(tmp, k, IF ChunkSize = 0 THEN <<"nul">>
                                                    ELSE ChunkBytes(Offset))
  /\ k' = IF k < MaxFiles THEN k + 1 ELSE k
  /\ UNCHANGED <<job, pc, thr, out, result, runs>>

ParseChunk ==
  /\ pc = "parse"
  /\ Offset < FileSize
  /\ tmp' = Overwrite(tmp, k, IF ChunkSize = 0 THEN <<"nul">>
                                               ELSE ChunkBytes(Offset))
  /\ k' = IF k < MaxFiles THEN k + 1 ELSE k
  /\ UNCHANGED <<job, pc, thr, out, result, runs>>

(* the memcpy past the last mapped page may hit nothing at all *)
ParseFaults ==
  /\ pc = "parse"
  /\ Offset < FileSize
  /\ Offset + ChunkSize > MappingEnd
  /\ pc' = "crashed"
  /\ tmp' = Overwrite(tmp, k, ReplaceAll(ChunkBytes(Offset), "junk", "nul"))
  /\ UNCHANGED <<job, k, thr, out, result, runs>>

ParseDone ==
  /\ pc = "parse"
  /\ Offset >= FileSize
  /\ pc' = "create"
  /\ k' = 1
  /\ UNCHANGED <<job, thr, tmp, out, result, runs>>

CreateThread ==
  /\ pc = "create"
  /\ thr' = Overwrite(thr, k, NewThread)
  /\ IF k < job.threads THEN k' = k + 1 /\ UNCHANGED pc
                        ELSE k' = 1 /\ pc' = "join"
  /\ UNCHANGED <<job, tmp, out, result, runs>>

(* mutant: only the first thread is waited for *)
JoinFirstOnly ==
  /\ pc = "join"
  /\ thr[1].pc = "done"
  /\ k' = 1 /\ pc' = "wrap"
  /\ UNCHANGED <<job, thr, tmp, out, result, runs>>

JoinThread ==
  /\ pc = "join"
  /\ thr[k].pc = "done"
  /\ IF k < job.threads THEN k' = k + 1 /\ UNCHANGED pc
                        ELSE k' = 1 /\ pc' = "wrap"
  /\ UNCHANGED <<job, thr, tmp, out, result, runs>>

(***************************************************************************)
(* wrapToStdout and wrapToFile: one .out file after the other.  The -o     *)
(* file has the size of the input from the start.  Behind the last page of *)
(* its mapping there may be something to overwrite, or nothing.  Of an     *)
(* empty input nothing can be mapped.                                      *)
(***************************************************************************)
PastMapping == job.toFile /\ Len(result) + Len(out[k]) > MappingEnd

WrapFile ==
  /\ pc = "wrap"
  /\ k <= job.threads
  /\ ~(PastMapping /\ FileSize = 0)
  /\ result' = result \o out[k]
  /\ k' = k + 1
  /\ UNCHANGED <<job, pc, thr, tmp, out, runs>>

WrapFaults ==
  /\ pc = "wrap"
  /\ k <= job.threads
  /\ PastMapping
  /\ pc' = "crashed"
  /\ UNCHANGED <<job, k, thr, tmp, out, result, runs>>

(* the -o file, when bytes have been copied through its mapping: one byte  *)
(* is written at its end, and what lies behind that is lost                *)
OutFile(bytes) ==
  CASE FileSize = 0          -> <<"nul">>
    [] Len(bytes) > FileSize -> SubSeq(bytes, 1, FileSize)
    [] OTHER                 -> bytes \o Fill("nul", FileSize - Len(bytes))

WrapDone ==
  /\ pc = "wrap"
  /\ k > job.threads
  /\ pc' = "done"
  /\ result' = IF job.toFile THEN OutFile(result) ELSE result
  /\ UNCHANGED <<job, k, thr, tmp, out, runs>>

(* The next command line in the same directory. *)
NextRun ==
  /\ pc \in {"done", "crashed"}
  /\ runs < MaxRuns
  /\ runs' = runs + 1
  /\ job' \in Jobs
  /\ pc' = "parse"
  /\ k' = 1
  /\ thr' = << >>
  /\ result' = << >>
  /\ UNCHANGED <<tmp, out>>

Main ==
  \/ ParseChunk \/ ParseFaults \/ ParseDone
  \/ CreateThread \/ JoinThread
  \/ WrapFile \/ WrapFaults \/ WrapDone
-----------------------------------------------------------------------------
(***************************************************************************)
(* grep, the body of the threads.                                          *)
(***************************************************************************)
Running == pc \notin {"done", "crashed"}

(* fopen(k.tmp) and fopen(k.out, "w"); fgets on a file that is not there   *)
(* takes the whole process down.                                           *)
Open(t) ==
  /\ Running
  /\ t \in DOMAIN thr /\ thr[t].pc = "open"
  /\ out' = Overwrite(out, t, << >>)
  /\ IF t \in DOMAIN tmp
     THEN /\ thr' = [thr EXCEPT ![t].pc = "read", ![t].rest = tmp[t]]
          /\ UNCHANGED pc
     ELSE /\ pc' = "crashed"
          /\ UNCHANGED thr
  /\ UNCHANGED <<job, k, tmp, result, runs>>

(* mutant: a piece has to end in a newline *)
PieceEndAtEol(s, n) ==
  /\ n \in 1..Len(s)
  /\ n = Len(s) \/ s[n] = "eol"
  /\ \A m \in 1..n - 1 : m # LineMax /\ s[m] # "eol"

(* where the piece that fgets reads ends *)
PieceEnd(s, n) ==
  /\ n \in 1..Len(s)
  /\ n = LineMax \/ n = Len(s) \/ s[n] = "eol"
  /\ \A m \in 1..n - 1 : m # LineMax /\ s[m] # "eol"

(* strlen and fprintf stop at a NUL *)
UpToNul(s) ==
  LET i == SelectInSeq(s, LAMBDA b : b = "nul")
  IN IF i = 0 THEN s ELSE SubSeq(s, 1, i - 1)

Printed(s) ==
  [i \in DOMAIN s |-> IF s[i] = "hit" /\ job.replace THEN "new" ELSE s[i]]

(* The line is the format of fprintf.  A '%' begins a conversion, unless   *)
(* it is the second half of one: an even number of '%' stands before it.   *)
Begins(f, i) ==
  /\ f[i] = job.percent
  /\ \E n \in 0..i - 1 : /\ n % 2 = 0
                         /\ \A m \in i - n..i - 1 : f[m] = job.percent
                         /\ n = i - 1 \/ f[i - n - 1] # job.percent

(* the conversions but for "%%"; there are no arguments for any of them    *)
Conversions(f) ==
  {i \in DOMAIN f : Begins(f, i) /\ (i = Len(f) \/ f[i + 1] # job.percent)}

(* each "%%" makes one '%' *)
Unpaired(f) ==
  FlattenSeq([i \in DOMAIN f |-> IF Begins(f, i) THEN << >> ELSE <<f[i]>>])

(* what fprintf(fp2, f) may write, if it comes back                        *)
Fprintf(f) ==
  IF ~Contains(f, job.percent) THEN {f}
  ELSE IF Conversions(f) = {} THEN {Unpaired(f)}
  ELSE {Unpaired(SubSeq(f, 1, Min(Conversions(f)) - 1)) \o g : g \in Garbage}

(* fgets reads the next piece, of n bytes                                  *)
Line(t, n) == UpToNul(SubSeq(thr[t].rest, 1, n))

ReadLine(t) ==
  /\ Running
  /\ t \in DOMAIN thr /\ thr[t].pc = "read"
  /\ \E n \in 1..Len(thr[t].rest) :
       /\ PieceEnd(thr[t].rest, n)
       /\ \E text \in IF Contains(Line(t, n), "hit")
                        THEN Fprintf(Printed(Line(t, n))) ELSE {<< >>} :
            thr' = [thr EXCEPT ![t].rest = SubSeq(@, n + 1, Len(@)),
                               ![t].buf = @ \o text]
  /\ UNCHANGED <<job, pc, k, tmp, out, result, runs>>

(* fprintf follows an argument nobody passed                               *)
FprintfFaults(t) ==
  /\ Running
  /\ t \in DOMAIN thr /\ thr[t].pc = "read"
  /\ \E n \in 1..Len(thr[t].rest) :
       /\ PieceEnd(thr[t].rest, n)
       /\ Contains(Line(t, n), "hit") /\ Conversions(Printed(Line(t, n))) # {}
  /\ pc' = "crashed"
  /\ UNCHANGED <<job, k, thr, tmp, out, result, runs>>

(* fclose flushes the buffer *)
Close(t) ==
  /\ Running
  /\ t \in DOMAIN thr /\ thr[t].pc = "read" /\ thr[t].rest = << >>
  /\ thr' = [thr EXCEPT ![t].pc = "done", ![t].buf = << >>]
  /\ out' = Overwrite(out, t, out[t] \o thr[t].buf)
  /\ UNCHANGED <<job, pc, k, tmp, result, runs>>

Grep(t) == Open(t) \/ ReadLine(t) \/ FprintfFaults(t) \/ Close(t)
-----------------------------------------------------------------------------
Init ==
  /\ job \in Jobs
  /\ pc = "parse"
  /\ k = 1
  /\ thr = << >>
  /\ tmp = << >>
  /\ out = << >>
  /\ result = << >>
  /\ runs = 1

Next == Main \/ NextRun \/ \E t \in Threads : Grep(t)

(* The kernel runs every thread that can go on; nobody has to type another *)
(* command.                                                                *)
Fairness ==
  /\ WF_vars(Main)
  /\ \A t \in 1..MaxFiles : WF_vars(t \in Threads /\ Grep(t))

Spec == Init /\ [][Next]_vars /\ Fairness
-----------------------------------------------------------------------------
(***************************************************************************)
(* What the output should be, defined on the input file alone.             *)
(***************************************************************************)
Kept(piece) ==
  IF Contains(UpToNul(piece), "hit") THEN UpToNul(piece) ELSE << >>

(* the pieces fgets makes of a file: what is kept of those that end within *)
(* the first n bytes, and how many bytes lie before the piece after them   *)
AfterByte(s, sofar, n) ==
  IF s[n] = "eol" \/ n - sofar.start = LineMax \/ n = Len(s)
  THEN [kept |-> sofar.kept \o Kept(SubSeq(s, sofar.start + 1, n)), start |-> n]
  ELSE sofar

Pieces(s) ==
  LET after[n \in 0..Len(s)] ==
        IF n = 0 THEN [kept |-> << >>, start |-> 0]
                 ELSE AfterByte(s, after[n - 1], n)
  IN after

GrepOf(s) == Pieces(s)[Len(s)].kept

Chunk(t) == SubSeq(job.file, (t - 1) * ChunkSize + 1, t * ChunkSize)

GrepOfChunks == FlattenSeq([t \in Threads |-> GrepOf(Chunk(t))])

(* the lines of the whole file that contain the character *)
SameLine(i, j) == \A m \in i..j - 1 : job.file[m] # "eol"

MatchingBytes ==
  {i \in 1..FileSize : \E j \in 1..FileSize :
     job.file[j] = "hit" /\ SameLine(i, j) /\ SameLine(j, i)}

MatchingLines ==
  FlattenSeq([i \in 1..FileSize |->
                IF i \in MatchingBytes THEN <<job.file[i]>> ELSE << >>])

(* what is printed of these bytes; the -o file is filled up with NULs to   *)
(* the size of the input                                                   *)
Output(bytes) ==
  IF job.toFile THEN Printed(bytes) \o Fill("nul", FileSize - Len(bytes))
                ELSE Printed(bytes)

EvenSplit == FileSize > 0 /\ FileSize % job.threads = 0

SplitAtLines ==
  /\ EvenSplit
  /\ \A t \in Threads : t < job.threads => job.file[t * ChunkSize] = "eol"

TextLinesFit ==
  /\ ~Contains(job.file, "nul")
  /\ \A i \in 1..FileSize - LineMax :
       \E m \in i..i + LineMax - 1 : job.file[m] = "eol"

(* nothing that might be printed is a '%'                                  *)
Plain(s) == ~Contains(Printed(s), job.percent)

PlainText == Plain(job.file)

ChunksReadable ==
  /\ FileSize >= job.threads
  /\ \A i \in 0..FileSize - 1 :
       i % ChunkSize = 0 => i + ChunkSize <= MappingEnd
-----------------------------------------------------------------------------
(***************************************************************************)
(* Properties.                                                             *)
(***************************************************************************)
(* The shape of the variables; threads exist for the numbers main counts.  *)
TypeOK ==
  /\ job \in Jobs
  /\ pc \in {"parse", "create", "join", "wrap", "done", "crashed"}
  /\ k \in 1..MaxFiles + 1
  /\ DOMAIN thr \subseteq Threads
  /\ \A t \in DOMAIN thr : thr[t].pc \in {"open", "read", "done"}
  /\ DOMAIN tmp \subseteq 1..MaxFiles
  /\ DOMAIN out \subseteq 1..MaxFiles
  /\ runs \in 1..MaxRuns

(* Main reads the .out files (lines 256-281 and 297-326) only when every   *)
(* thread has closed its own: what it has written before that sits in its  *)
(* buffer.                                                                 *)
JoinedBeforeWrap ==
  pc \in {"wrap", "done"} => \A t \in Threads :
                               t \in DOMAIN thr /\ thr[t].pc = "done"

(* Whatever the threads' interleaving and whatever an earlier run left in  *)
(* the directory, the output is the grep of each chunk in the order of the *)
(* chunks; the -o file is filled up with NULs to the size of the input.    *)
(* This is of text without '%', as the lines are formats (line 229).       *)
ResultIsGrepOfChunks ==
  pc = "done" /\ FileSize >= job.threads /\ PlainText =>
    result = Output(GrepOfChunks)

(* On input that the chunk size happens to cut at ends of lines, with      *)
(* text lines that fit the buffer and no '%', the output is what the       *)
(* program is for: the lines that contain the character (the comment of    *)
(* lines 33-36).                                                           *)
GrepsWholeLines ==
  pc = "done" /\ SplitAtLines /\ TextLinesFit /\ PlainText =>
    result = Output(MatchingLines)

(* Of text without '%', memcpy(dst+i, src, chunkSize) of line 273 stays    *)
(* inside the mapping of the -o file, which is as long as the input.  A    *)
(* conversion may write any length.                                        *)
WrapInBounds ==
  pc = "wrap" /\ job.toFile /\ FileSize > 0 /\ PlainText /\ k <= job.threads =>
    Len(result) + Len(out[k]) <= FileSize

(* With at least a byte per thread, no chunk that reaches behind the       *)
(* file's last page, and no '%' in what is printed, the program comes to   *)
(* an end, and not by a crash.                                             *)
Terminates ==
  pc = "parse" /\ ChunksReadable /\ PlainText ~> pc = "done"

(* The results are put together from files that are complete and, where    *)
(* no line is a format with conversions, within the mapping (lines 109-116 *)
(* and 235-328).                                                           *)
WrapIsSafe == TypeOK /\ JoinedBeforeWrap /\ WrapInBounds

(* Without '%' the output is the grep of the chunks, and that of the file  *)
(* where the chunks are lines (lines 153-185 and 206-230).                 *)
OutputIsGrep == ResultIsGrepOfChunks /\ GrepsWholeLines
=============================================================================

------------------------------ MODULE MCMCGrep ------------------------------
(***************************************************************************)
(* Small files for TLC.  A line holds at most 3 bytes at a time, a page 4; *)
(* the 7 bytes split in two leave a third chunk that reaches behind the    *)
(* second page.  The last five jobs have to do with '%': it stands in the  *)
(* file, in a pair or as a conversion, it is put in as the replacement, or *)
(* it is searched for and replaced.  Every job may follow every other in   *)
(* the same directory.                                                     *)
(***************************************************************************)
EXTENDS MCGrep

MCFile2Lines  == <<"hit", "eol", "other", "eol">>
MCFileOddSize == <<"other", "hit", "eol", "hit", "eol">>
MCFileOneLine == <<"other", "other", "other", "hit">>
MCFile3Lines  == <<"hit", "eol", "hit", "eol", "other", "hit">>
MCFileFault   == <<"hit", "hit", "eol", "other", "other", "eol", "eol">>

MCFilePairs   == <<"hit", "percent", "percent", "eol">>
MCFileFormat  == <<"hit", "percent", "other", "other", "eol">>

JobWith(percent, file, threads, replace, toFile) ==
  [file |-> file, threads |-> threads, replace |-> replace,
   toFile |-> toFile, percent |-> percent]

Job(file, threads, replace, toFile) ==
  JobWith("percent", file, threads, replace, toFile)

(* a conversion may print nothing, or more than the file and its page *)
MCGarbage == {<< >>, <<"other", "other", "other", "other", "other">>}

MCJobs ==
  { Job(MCFile2Lines, 2, TRUE, FALSE), Job(MCFile2Lines, 1, FALSE, TRUE),
    Job(MCFileOddSize, 2, FALSE, TRUE), Job(MCFileOddSize, 1, TRUE, FALSE),
    Job(MCFileOneLine, 2, FALSE, FALSE), Job(MCFileOneLine, 1, FALSE, TRUE),
    Job(MCFile3Lines, 3, FALSE, TRUE), Job(MCFile3Lines, 2, FALSE, FALSE),
    Job(MCFileFault, 2, TRUE, TRUE),
    Job(<<"hit">>, 2, FALSE, FALSE), Job(<<"other", "nul", "hit">>, 1, FALSE, FALSE),
    Job(<< >>, 1, FALSE, FALSE), Job(<< >>, 1, FALSE, TRUE),
    Job(MCFilePairs, 1, FALSE, TRUE), Job(MCFilePairs, 2, FALSE, FALSE),
    Job(MCFileFormat, 1, TRUE, TRUE),
    JobWith("new", MCFile2Lines, 2, TRUE, TRUE),
    JobWith("hit", MCFile2Lines, 2, TRUE, FALSE) }
=============================================================================

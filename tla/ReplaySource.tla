---------------------------- MODULE ReplaySource ----------------------------
(***************************************************************************)
(* The two image sources that replay what was recorded, each on its own.   *)
(* The image log: frames are read from a file one ahead of the one that is *)
(* handed out, because get_format tells of the frame to come.  The file    *)
(* and directory source: the image files found when it was opened are read *)
(* one per call, in the order of their names.                              *)
(***************************************************************************)
EXTENDS Naturals, Sequences

CONSTANTS
  LogLength,  (* the records of the log                                    *)
  NoFrame,    (* a frame pointer that is NULL                              *)
  MaxEntries  (* bound: the entries of the directory                       *)

VARIABLES
  record,     (* the records read since the start of the file              *)
  cutShort,   (* the last record is incomplete                             *)
  loop,       (* impl->loop                                                *)
  lastFrame,  (* last_frame: the record in its buffer                      *)
  nextFrame,  (* next_frame                                                *)
  given,      (* what the caller was last given: the record its data is    *)
              (* of, and the record its utime and format are of            *)
  outcome     (* what get_frame returned                                   *)

VARIABLES
  files,       (* impl->files                                              *)
  pos,         (* impl->pos, the next of them                              *)
  dirLoop,     (* impl->loop                                               *)
  again,       (* get_frame jumps to tryagain                              *)
  result,      (* what get_frame returned: the file's index, 0 on an error *)
  aborted

-----------------------------------------------------------------------------
(* The log.                                                                *)

logVars == <<record, cutShort, loop, lastFrame, nextFrame, given, outcome>>

\* The records read_frame can read, with the one that ends too soon left out.
Records == 1 .. (IF cutShort THEN LogLength - 1 ELSE LogLength)

NoneGiven == [data |-> NoFrame, utime |-> NoFrame]

\* The utime and the format get_frame reports are those of the record it has
\* just read.
GivenTime(new) == new

\* Mutant of NewLast: the record just read is handed out.
NewLast_JustRead(new) == new

NewLast(new) == nextFrame

\* The rest of get_frame, once a record is read: last_frame is freed.
HandOut(new) ==
  /\ record' = new
  /\ lastFrame' = NewLast(new)
  /\ nextFrame' = new
  /\ given' = [data |-> lastFrame', utime |-> GivenTime(new)]
  /\ outcome' = "frame"
  /\ UNCHANGED <<cutShort, loop>>

LogGetFrame ==
  /\ record + 1 \in Records
  /\ HandOut(record + 1)

\* At the end of the file: from its start again.
LogGetFrameLooping ==
  /\ record + 1 \notin Records
  /\ loop
  /\ HandOut(1)

\* At the end of the file, without loop: an error, and nothing is freed.
LogGetFrameAtEnd ==
  /\ record + 1 \notin Records
  /\ ~loop
  /\ record' = LogLength
  /\ outcome' = "error"
  /\ UNCHANGED <<cutShort, loop, lastFrame, nextFrame, given>>

\* set_feature_value; release_frame does nothing.
LogSetLoop ==
  /\ loop' = ~loop
  /\ UNCHANGED <<record, cutShort, lastFrame, nextFrame, given, outcome>>

\* image_source_islog_open reads the first record, or fails.
LogInit ==
  /\ cutShort \in BOOLEAN
  /\ 1 \in Records
  /\ record = 1
  /\ loop = TRUE
  /\ lastFrame = NoFrame
  /\ nextFrame = 1
  /\ given = NoneGiven
  /\ outcome = "none"

LogNext == LogGetFrame \/ LogGetFrameLooping \/ LogGetFrameAtEnd \/ LogSetLoop

LogSpec == LogInit /\ [][LogNext]_logVars

-----------------------------------------------------------------------------
Following(k) == IF k # NoFrame /\ k + 1 \in Records THEN k + 1 ELSE 1

\* Looping or not, through errors and however loop is switched, the records are
\* handed out in the log's order, each once in a round, and the caller's data
\* is in last_frame's buffer, which is not freed before the next frame.
InLogOrder ==
  [][ /\ given' # given => given'.data = Following(given.data)
      /\ given'.data = lastFrame' ]_logVars

-----------------------------------------------------------------------------
(* Files and directories.                                                  *)

\* An entry, by its suffix and by what reading it does: a PNG that is none
\* aborts the program, a PNM that is none is an error.
Entries == [type : {"png", "pnm", "other"}, good : BOOLEAN]

dirVars == <<files, pos, dirLoop, again, result, aborted>>

\* Mutant of Keeps: whatever the directory has is kept.
Keeps_All(entry) == TRUE

\* add_path
Keeps(entry) == entry.type # "other"

\* The files are the entries that were kept; opening fails when there is none.
DirInit ==
  /\ \E n \in 1 .. MaxEntries : files \in [1 .. n -> {entry \in Entries : Keeps(entry)}]
  /\ pos = 0
  /\ dirLoop = TRUE
  /\ again = FALSE
  /\ result = 0
  /\ aborted = FALSE

\* The file at p is read; pos already tells of the one after it.
ReadAt(p) ==
  /\ pos' = IF files[p + 1].type = "other" THEN p + 2 ELSE p + 1
  /\ again' = (files[p + 1].type = "other")
  /\ aborted' = (files[p + 1].type = "png" /\ ~files[p + 1].good)
  /\ result' = IF files[p + 1].good /\ files[p + 1].type # "other" THEN p + 1 ELSE 0
  /\ UNCHANGED <<files, dirLoop>>

DirGetFrame ==
  /\ ~aborted
  /\ pos # Len(files)
  /\ ReadAt(pos)

DirGetFrameLooping ==
  /\ ~aborted
  /\ pos = Len(files)
  /\ dirLoop
  /\ ReadAt(0)

DirGetFrameAtEnd ==
  /\ ~aborted
  /\ pos = Len(files)
  /\ ~dirLoop
  /\ result' = 0
  /\ again' = FALSE
  /\ UNCHANGED <<files, pos, dirLoop, aborted>>

\* set_feature_value, between two calls.
DirSetLoop ==
  /\ ~aborted
  /\ ~again
  /\ dirLoop' = ~dirLoop
  /\ UNCHANGED <<files, pos, again, result, aborted>>

DirNext == DirGetFrame \/ DirGetFrameLooping \/ DirGetFrameAtEnd \/ DirSetLoop

DirSpec == DirInit /\ [][DirNext]_dirVars

-----------------------------------------------------------------------------
\* pos never passes the end of the list, where zarray_get would stop the
\* program: skipping two files at once, as get_frame does with a type it does
\* not know, cannot happen to what add_path lets in.
PosInFiles == pos <= Len(files)
=============================================================================

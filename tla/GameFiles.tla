------------------------------- MODULE GameFiles -------------------------------
(***************************************************************************)
(* What game code is promised of its files (src/src/file_system.h,         *)
(* src/src/overlay_file_system.h): one directory, in which the files that  *)
(* come with the game can be replaced but never be lost; text files that   *)
(* appear whole when they are closed; and binary files, which are empty    *)
(* or as they were when they are opened, and change under an open stream.  *)
(* One step is no promise but a departure from one: HideShipped.           *)
(***************************************************************************)
EXTENDS Sequences

CONSTANTS
    Paths,      \* names of files
    Values,     \* pieces of text
    Absent,     \* no such file
    Original,   \* [Paths -> Contents or Absent]: the files that come with the game
    Slots,      \* handles of text files
    NoWriter,
    Handles,    \* handles of binary files
    NoStream

VARIABLES
    files,      \* what a reader finds under each name
    writers,    \* text files being written: a name and the text so far
    streams     \* binary files open for writing: a name and the mode

gvars == <<files, writers, streams>>

GInit ==
    /\ \A p \in Paths : files[p] = Absent => Original[p] = Absent
    /\ writers = [h \in Slots |-> NoWriter] /\ streams = [h \in Handles |-> NoStream]

OpenWriter(h, p) ==
    /\ writers[h] = NoWriter
    /\ writers' = [writers EXCEPT ![h] = [path |-> p, text |-> <<>>]]
    /\ UNCHANGED <<files, streams>>

Extend(h, v) ==
    /\ writers[h] # NoWriter
    /\ writers' = [writers EXCEPT ![h].text = @ \o <<v>>]
    /\ UNCHANGED <<files, streams>>

\* Readers see all of the text from here on, and that file only has changed.
CloseWriter(h) ==
    /\ writers[h] # NoWriter
    /\ files' = [files EXCEPT ![writers[h].path] = writers[h].text]
    /\ writers' = [writers EXCEPT ![h] = NoWriter]
    /\ UNCHANGED streams

\* An ini or a buffer is stored, whole.
Store(p) ==
    /\ files'[p] # Absent
    /\ files' = [files EXCEPT ![p] = files'[p]]
    /\ UNCHANGED <<writers, streams>>

\* A stream on `p' begins in the given mode, and the file is then `c'.
Begin(h, p, mode, c) ==
    /\ files' = [files EXCEPT ![p] = c]
    /\ streams' = [streams EXCEPT ![h] = [path |-> p, mode |-> mode]]
    /\ UNCHANGED writers

\* GML_FILE_BIN_WRITE "truncates if the file exists, creates it if not"; file_bin_rewrite
\* does the same to a file that is open.
OpenEmpty(h, p) ==
    /\ streams[h] # NoStream => streams[h].path = p
    /\ Begin(h, p, "write", <<>>)

\* GML_FILE_BIN_READWRITE "creates the file if missing, preserves contents otherwise".
OpenUpdate(h, p) ==
    /\ streams[h] = NoStream
    /\ Begin(h, p, "update", IF files[p] = Absent THEN <<>> ELSE files[p])

\* The exception to that: a file that came with the game and was not replaced is hidden by
\* an empty one.  No line of the repository promises it; overlay_file_system.c:247-253 does it.
HideShipped(h, p) ==
    /\ streams[h] = NoStream
    /\ files[p] = Original[p] /\ Original[p] # Absent
    /\ Begin(h, p, "update", <<>>)

\* What is written to a stream reaches its file, then or later; closing it is the last time.
Write(h) ==
    /\ streams[h] # NoStream
    /\ files'[streams[h].path] # Absent
    /\ files' = [files EXCEPT ![streams[h].path] = files'[streams[h].path]]
    /\ streams' \in {streams, [streams EXCEPT ![h] = NoStream]}
    /\ UNCHANGED writers

\* What the game put in place of an original goes, the original does not.  Streams on it
\* write to no file any more.
Delete(p) ==
    /\ files' = [files EXCEPT ![p] = Original[p]]
    /\ streams' = [h \in Handles |-> IF streams[h] # NoStream /\ streams[h].path = p
                                     THEN NoStream ELSE streams[h]]
    /\ UNCHANGED writers

\* The game ends: unfinished texts are gone; binary files may still be flushed.
Halt ==
    /\ writers' = [h \in Slots |-> NoWriter] /\ streams' = [h \in Handles |-> NoStream]
    /\ \A p \in Paths :
          \/ files'[p] = files[p]
          \/ /\ files'[p] # Absent
             /\ \E h \in Handles : streams[h] # NoStream /\ streams[h].path = p

GNext ==
    \/ \E h \in Slots : \/ CloseWriter(h)
                        \/ \E p \in Paths : OpenWriter(h, p)
                        \/ \E v \in Values : Extend(h, v)
    \/ \E p \in Paths : Delete(p) \/ Store(p)
    \/ \E h \in Handles : \/ Write(h)
                          \/ \E p \in Paths : OpenEmpty(h, p) \/ OpenUpdate(h, p) \/ HideShipped(h, p)
    \/ Halt

GSpec == GInit /\ [][GNext]_gvars
===============================================================================

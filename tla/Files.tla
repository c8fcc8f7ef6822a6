--------------------------------- MODULE Files ---------------------------------
(***************************************************************************)
(* The files of game code: the ini, text and binary file builtins of       *)
(* src/src/vm_builtins.c over the two directories of                       *)
(* src/src/overlay_file_system.c.                                          *)
(*                                                                         *)
(* Reads look in the save directory first, then in the bundle; writes go   *)
(* to the save directory.  A name that starts with working_directory is    *)
(* already resolved, to the bundle.  A text file is written when it is     *)
(* closed; an ini file when it is closed, if it is dirty, and then it is   *)
(* kept for the next ini_open; a binary file goes through the buffer of    *)
(* its FILE.  The 3DS has a file system of its own                         *)
(* (src/src/n3ds/n3ds_file_system.c) that remembers where it found a file, *)
(* and has no binary files.                                                *)
(*                                                                         *)
(* A file is a sequence of tokens and an ini has one key.                  *)
(***************************************************************************)
EXTENDS Integers, Sequences, SequencesExt

CONSTANTS
    Paths,          \* files, by name within a directory
    Names,          \* what game code calls them
    Values,         \* tokens, and values of the ini's key
    Zero,           \* the token a gap is filled with
    Absent,         \* no such file
    NoIni, Nothing, NoName, NoFile, NoArea,
    Bundled,        \* [Paths -> contents or Absent]: the bundle as shipped
    Cached,         \* whether this is the file system of the 3DS
    BundleWritable, \* whether the bundle's files can be opened for writing
    MaxLen,         \* bound: game code writes no further into a file
    TextSlots,      \* 0 .. MAX_OPEN_TEXT_FILES - 1
    MaxBin,         \* MAX_OPEN_BINARY_FILES - 1
    Ops             \* what game code may do

Areas == {"save", "bundle"}
BinSlots == 1 .. MaxBin
Contents == BoundedSeq(Values \cup {Zero}, MaxLen)
Saves == BoundedSeq(Values, MaxLen)
Text == [name : Names \cup {NoName}, text : Saves]
Modes == {"read", "write", "update"}
Bin == [area : Areas, path : Paths, linked : BOOLEAN, mode : Modes, pos : 0 .. MaxLen,
        pending : Saves]
IniFile == [name : Names \cup {NoName}, value : Values \cup {Zero, Nothing}, dirty : BOOLEAN]
OpNames == {"ini", "text", "buffer", "delete", "reset", "crash",
            "binRead", "binWrite", "binUpdate", "binRewrite"}

ASSUME FilesAssumption ==
    /\ Names \subseteq [path : Paths, full : BOOLEAN]
    /\ \A p \in Paths : [path |-> p, full |-> FALSE] \in Names
    /\ MaxLen \in Nat \ {0} /\ TextSlots \subseteq Nat /\ MaxBin \in Nat
    /\ Bundled \in [Paths -> Contents \cup {Absent}]
    /\ Cached \in BOOLEAN /\ (Cached => Ops \subseteq {"ini", "text", "buffer", "delete", "reset", "crash"})
    /\ BundleWritable \in BOOLEAN /\ Ops \subseteq OpNames
    /\ Absent \notin Contents /\ Zero \notin Values /\ Nothing \notin Values
    /\ NoName \notin Names /\ NoArea \notin Areas
    /\ NoIni \notin IniFile
    /\ NoFile \notin Text \cup Bin \cup [path : Paths, text : Saves] \cup [path : Paths, mode : Modes]

VARIABLES
    disk,       \* the files of both directories
    resolved,   \* resolvedPathCache of the 3DS
    currentIni, \* runner->currentIni, currentIniPath, currentIniDirty
    cachedIni,  \* runner->cachedIni, cachedIniPath
    texts,      \* runner->openTextFiles
    bins,       \* runner->openBinaryFiles
    strays      \* history: names whose file changed, or could not, without their ini

store == <<disk, resolved>>
vars == <<store, currentIni, cachedIni, texts, bins, strays>>

-------------------------------------------------------------------------------
(* The overlay                                                             *)

\* Seeded fault: the bundle wins.
BundleFirst(n) ==
    IF n.full \/ disk["bundle"][n.path] # Absent THEN "bundle" ELSE "save"

\* resolveForRead; on the 3DS where it was last, and the bundle first otherwise.
AreaForRead(n) ==
    IF Cached /\ resolved[n] # NoArea THEN resolved[n]
    ELSE IF Cached THEN IF n.full \/ disk["bundle"][n.path] # Absent THEN "bundle" ELSE "save"
    ELSE IF ~ n.full /\ disk["save"][n.path] # Absent THEN "save" ELSE "bundle"

\* resolveForWrite
AreaForWrite(n) == IF n.full THEN "bundle" ELSE "save"

\* What readFileText and readFileBinary return.
Read(n) == disk[AreaForRead(n)][n.path]

\* The 3DS remembers where it looked.
Recall(n, a) == resolved' = IF Cached THEN [resolved EXCEPT ![n] = a] ELSE resolved

Writable(a) == a = "save" \/ BundleWritable

\* writeFileText, writeFileBinary: fopen "wb", or nothing if that fails.
WriteFile(n, c) ==
    IF Writable(AreaForWrite(n))
    THEN /\ disk' = [disk EXCEPT ![AreaForWrite(n)][n.path] = c]
         /\ Recall(n, AreaForWrite(n))
    ELSE UNCHANGED store

Changed == {n \in Names : Read(n)' # Read(n)}

-------------------------------------------------------------------------------
(* Ini files                                                               *)

\* Ini_parse and Ini_serialize for one key: a later line overrides an earlier one.
Parse(c) == IF c = Absent \/ c = <<>> THEN Nothing ELSE Last(c)
Serialize(v) == IF v = Nothing THEN <<>> ELSE <<v>>

Ini(n, v, d) == [name |-> n, value |-> v, dirty |-> d]

\* Seeded fault: a cache hit copies what is in the cache.
IniOpenCopying(n) ==
    /\ "ini" \in Ops
    /\ currentIni # NoIni => currentIni.name # n
    /\ IF cachedIni # NoIni /\ cachedIni.name = n
       THEN currentIni' = cachedIni /\ UNCHANGED <<cachedIni, resolved, strays>>
       ELSE /\ currentIni' = Ini(n, Parse(Read(n)), FALSE) /\ strays' = strays \ {n}
            /\ cachedIni' = NoIni /\ Recall(n, AreaForRead(n))
    /\ UNCHANGED <<disk, texts, bins>>

\* ini_open.  Any ini still open is dropped unsaved.
IniOpen(n) ==
    /\ "ini" \in Ops
    /\ currentIni # NoIni => currentIni.name # n
    /\ IF cachedIni # NoIni /\ cachedIni.name = n
       THEN currentIni' = cachedIni /\ UNCHANGED <<resolved, strays>>
       ELSE /\ currentIni' = Ini(n, Parse(Read(n)), FALSE) /\ strays' = strays \ {n}
            /\ Recall(n, AreaForRead(n))
    /\ cachedIni' = NoIni
    /\ UNCHANGED <<disk, texts, bins>>

\* Seeded fault: the name of the ini that was open stays.
OpenFromStringKeepingName(c) ==
    /\ "ini" \in Ops
    /\ currentIni' = Ini(IF currentIni = NoIni THEN NoName ELSE currentIni.name,
                         Parse(c), FALSE)
    /\ UNCHANGED <<store, cachedIni, texts, bins, strays>>

\* ini_open_from_string: not backed by a file; the cache stays.
IniOpenFromString(c) ==
    /\ "ini" \in Ops
    /\ currentIni' = Ini(NoName, Parse(c), FALSE)
    /\ UNCHANGED <<store, cachedIni, texts, bins, strays>>

IniWrite(v) ==
    /\ "ini" \in Ops /\ currentIni # NoIni
    /\ currentIni' = Ini(currentIni.name, v, TRUE)
    /\ UNCHANGED <<store, cachedIni, texts, bins, strays>>

\* ini_close writes a dirty, file-backed ini, and caches it whether or not that worked.
IniClose ==
    LET n == currentIni.name
        saves == currentIni.dirty /\ n # NoName IN
    /\ "ini" \in Ops /\ currentIni # NoIni
    /\ IF saves
       THEN /\ WriteFile(n, Serialize(currentIni.value))
            /\ strays' = IF Writable(AreaForWrite(n)) THEN (strays \cup Changed) \ {n}
                                                      ELSE strays \cup {n}
       ELSE UNCHANGED <<store, strays>>
    /\ cachedIni' = [currentIni EXCEPT !.dirty = FALSE]
    /\ currentIni' = NoIni
    /\ UNCHANGED <<texts, bins>>

-------------------------------------------------------------------------------
(* Text files                                                              *)

Reader == [name |-> NoName, text |-> <<>>]

\* findFreeTextFileSlot; with none, open_read and open_write abort the program (Crash).
FreeText == {h \in TextSlots : texts[h] = NoFile}
LowestFree == CHOOSE h \in FreeText : \A k \in FreeText : h <= k

\* file_text_open_read takes a copy; what is read of it has no further effect.  file_exists
\* and the loading of buffers change no more than this.
TextOpenRead(n) ==
    /\ "text" \in Ops /\ FreeText # {}
    /\ texts' = [texts EXCEPT ![LowestFree] = Reader]
    /\ Recall(n, AreaForRead(n))
    /\ UNCHANGED <<disk, currentIni, cachedIni, bins, strays>>

TextOpenWrite(n) ==
    /\ "text" \in Ops /\ FreeText # {}
    /\ texts' = [texts EXCEPT ![LowestFree] = [name |-> n, text |-> <<>>]]
    /\ UNCHANGED <<store, currentIni, cachedIni, bins, strays>>

IsWriter(h) == texts[h] # NoFile /\ texts[h].name # NoName

\* file_text_write_string, write_real, writeln: nothing reaches the disk yet.
TextWrite(h, v) ==
    /\ IsWriter(h) /\ Len(texts[h].text) < MaxLen
    /\ texts' = [texts EXCEPT ![h].text = Append(@, v)]
    /\ UNCHANGED <<store, currentIni, cachedIni, bins, strays>>

TextClose(h) ==
    /\ texts[h] # NoFile
    /\ IF IsWriter(h) THEN WriteFile(texts[h].name, texts[h].text) ELSE UNCHANGED store
    /\ strays' = strays \cup Changed
    /\ texts' = [texts EXCEPT ![h] = NoFile]
    /\ UNCHANGED <<currentIni, cachedIni, bins>>

-------------------------------------------------------------------------------
(* Binary files, buffers, deletion                                         *)

FreeBin == {h \in BinSlots : bins[h] = NoFile}

\* A FILE: where it is, whether its name still leads to it, how it was opened (all but "read"
\* may write), and what waits in its buffer.
Opened(a, p, m) == [area |-> a, path |-> p, linked |-> TRUE, mode |-> m,
                    pos |-> 0, pending |-> <<>>]
OpensAs(b) == \E h \in FreeBin : (\A k \in FreeBin : h <= k) /\ bins' = [bins EXCEPT ![h] = b]

\* GML_FILE_BIN_READ.  A file that cannot be opened, or a lack of slots, gives -1.
BinOpenRead(n) ==
    /\ "binRead" \in Ops /\ Read(n) # Absent
    /\ OpensAs(Opened(AreaForRead(n), n.path, "read"))
    /\ UNCHANGED <<store, currentIni, cachedIni, texts, strays>>

\* GML_FILE_BIN_WRITE
BinOpenWrite(n) ==
    /\ "binWrite" \in Ops /\ Writable(AreaForWrite(n))
    /\ OpensAs(Opened(AreaForWrite(n), n.path, "write"))
    /\ WriteFile(n, <<>>) /\ strays' = strays \cup Changed
    /\ UNCHANGED <<currentIni, cachedIni, texts>>

\* Seeded fault: the file is opened "w+b" at once.
BinOpenUpdateEmptying(n) ==
    /\ "binUpdate" \in Ops /\ Writable(AreaForWrite(n))
    /\ OpensAs(Opened(AreaForWrite(n), n.path, "update"))
    /\ WriteFile(n, <<>>) /\ strays' = strays \cup Changed
    /\ UNCHANGED <<currentIni, cachedIni, texts>>

\* GML_FILE_BIN_READWRITE: "r+b" where a reader would find it, else "w+b" in the save area.
BinOpenUpdate(n) ==
    /\ "binUpdate" \in Ops
    /\ IF Read(n) # Absent /\ Writable(AreaForRead(n))
       THEN OpensAs(Opened(AreaForRead(n), n.path, "update")) /\ UNCHANGED store
       ELSE /\ Writable(AreaForWrite(n))
            /\ OpensAs(Opened(AreaForWrite(n), n.path, "update")) /\ WriteFile(n, <<>>)
    /\ strays' = strays \cup Changed
    /\ UNCHANGED <<currentIni, cachedIni, texts>>

\* file_bin_write_byte, into the buffer of the FILE.
BinWrite(h, v) ==
    /\ bins[h] # NoFile /\ bins[h].mode # "read"
    /\ bins[h].pos + Len(bins[h].pending) < MaxLen
    /\ bins' = [bins EXCEPT ![h].pending = Append(@, v)]
    /\ UNCHANGED <<store, currentIni, cachedIni, texts, strays>>

\* `s' written into `c' from position `pos' on; a gap reads as zeros.
Overwrite(c, pos, s) ==
    IF s = <<>> THEN c
    ELSE [i \in 1 .. Max({Len(c), pos + Len(s)}) |->
            IF i > pos /\ i <= pos + Len(s) THEN s[i - pos]
            ELSE IF i <= Len(c) THEN c[i] ELSE Zero]

\* The disk `d' after the buffer of `b' is written out; a file without a name is out of sight.
FlushedTo(d, b) ==
    IF b.linked THEN [d EXCEPT ![b.area][b.path] = Overwrite(@, b.pos, b.pending)] ELSE d
Flushed(b) == FlushedTo(disk, b)

\* The C library may empty a buffer at any time.
Flush(h) ==
    /\ bins[h] # NoFile /\ bins[h].pending # <<>>
    /\ disk' = Flushed(bins[h]) /\ strays' = strays \cup Changed
    /\ bins' = [bins EXCEPT ![h].pos = @ + Len(bins[h].pending), ![h].pending = <<>>]
    /\ UNCHANGED <<resolved, currentIni, cachedIni, texts>>

\* file_bin_seek; fseek empties the buffer first.
BinSeek(h, pos) ==
    /\ bins[h] # NoFile /\ bins[h].pos # pos
    /\ disk' = Flushed(bins[h]) /\ strays' = strays \cup Changed
    /\ bins' = [bins EXCEPT ![h].pos = pos, ![h].pending = <<>>]
    /\ UNCHANGED <<resolved, currentIni, cachedIni, texts>>

\* file_bin_rewrite opens the path anew, truncating, whatever the mode was.  Where that
\* fails the handle is left without a FILE, and what C does with it is undefined.
BinRewrite(h) ==
    /\ "binRewrite" \in Ops /\ bins[h] # NoFile /\ Writable(bins[h].area)
    /\ disk' = [Flushed(bins[h]) EXCEPT ![bins[h].area][bins[h].path] = <<>>]
    /\ strays' = strays \cup Changed
    /\ bins' = [bins EXCEPT ![h] = Opened(bins[h].area, bins[h].path, "write")]
    /\ UNCHANGED <<resolved, currentIni, cachedIni, texts>>

BinClose(h) ==
    /\ bins[h] # NoFile
    /\ disk' = Flushed(bins[h]) /\ strays' = strays \cup Changed
    /\ bins' = [bins EXCEPT ![h] = NoFile]
    /\ UNCHANGED <<resolved, currentIni, cachedIni, texts>>

\* buffer_save and the asynchronous saves.
BufferSave(n, c) ==
    /\ "buffer" \in Ops
    /\ WriteFile(n, c) /\ strays' = strays \cup Changed
    /\ UNCHANGED <<currentIni, cachedIni, texts, bins>>

\* Seeded fault: open FILEs are taken to lose nothing.
DeleteUnderFile(n) ==
    LET a == AreaForWrite(n) IN
    /\ "delete" \in Ops /\ Writable(a) /\ disk[a][n.path] # Absent
    /\ disk' = [disk EXCEPT ![a][n.path] = Absent] /\ Recall(n, "bundle")
    /\ strays' = strays \cup Changed
    /\ UNCHANGED <<currentIni, cachedIni, texts, bins>>

\* file_delete removes the name; open FILEs keep the nameless file, as POSIX has it.
FileDelete(n) ==
    LET a == AreaForWrite(n) IN
    /\ "delete" \in Ops /\ Writable(a) /\ disk[a][n.path] # Absent
    /\ disk' = [disk EXCEPT ![a][n.path] = Absent] /\ Recall(n, "bundle")
    /\ strays' = strays \cup Changed
    /\ bins' = [h \in BinSlots |->
                  IF bins[h] # NoFile /\ bins[h].area = a /\ bins[h].path = n.path
                  THEN [bins[h] EXCEPT !.linked = FALSE] ELSE bins[h]]
    /\ UNCHANGED <<currentIni, cachedIni, texts>>

-------------------------------------------------------------------------------
(* The end of a game                                                       *)

Forget ==
    /\ currentIni' = NoIni /\ cachedIni' = NoIni /\ strays' = {}
    /\ texts' = [h \in TextSlots |-> NoFile] /\ bins' = [h \in BinSlots |-> NoFile]

\* The disk once the FILEs up to the k-th are closed.
Closed[k \in 0 .. MaxBin] ==
    IF k = 0 THEN disk
    ELSE IF bins[k] = NoFile THEN Closed[k - 1] ELSE FlushedTo(Closed[k - 1], bins[k])

\* cleanupState (game_restart, exit): FILEs are flushed, unfinished texts dropped.
Reset ==
    /\ "reset" \in Ops
    /\ disk' = Closed[MaxBin]
    /\ Forget /\ UNCHANGED resolved

\* The program or the console stops; the next start finds the files.
Crash ==
    /\ "crash" \in Ops
    /\ Forget /\ resolved' = [n \in Names |-> NoArea] /\ UNCHANGED disk

Init ==
    /\ disk \in [Areas -> [Paths -> Contents \cup {Absent}]]
    /\ disk["bundle"] = Bundled /\ resolved = [n \in Names |-> NoArea]
    /\ currentIni = NoIni /\ cachedIni = NoIni /\ strays = {}
    /\ texts = [h \in TextSlots |-> NoFile] /\ bins = [h \in BinSlots |-> NoFile]

Next ==
    \/ \E n \in Names :
          \/ IniOpen(n) \/ TextOpenRead(n) \/ TextOpenWrite(n) \/ FileDelete(n)
          \/ BinOpenRead(n) \/ BinOpenWrite(n) \/ BinOpenUpdate(n)
          \/ \E c \in Saves : BufferSave(n, c)
    \/ \E c \in Saves : IniOpenFromString(c)
    \/ \E v \in Values : IniWrite(v)
    \/ IniClose
    \/ \E h \in TextSlots : TextClose(h) \/ \E v \in Values : TextWrite(h, v)
    \/ \E h \in BinSlots : \/ Flush(h) \/ BinRewrite(h) \/ BinClose(h)
                           \/ \E v \in Values : BinWrite(h, v)
                           \/ \E pos \in 0 .. MaxLen : BinSeek(h, pos)
    \/ Reset \/ Crash

Spec == Init /\ [][Next]_vars

-------------------------------------------------------------------------------
(* Properties                                                              *)

\* Types; no file outgrows what was written, and each open file that may be written and still
\* has a name exists.
TypeOK ==
    /\ disk \in [Areas -> [Paths -> Contents \cup {Absent}]]
    /\ resolved \in [Names -> Areas \cup {NoArea}]
    /\ currentIni \in IniFile \cup {NoIni} /\ cachedIni \in IniFile \cup {NoIni}
    /\ texts \in [TextSlots -> Text \cup {NoFile}]
    /\ bins \in [BinSlots -> Bin \cup {NoFile}]
    /\ strays \subseteq Names
    /\ \A h \in BinSlots : bins[h] # NoFile /\ bins[h].linked
                              => disk[bins[h].area][bins[h].path] # Absent

\* A FILE that may write to a file that has a name is a stream, in the mode it was opened in.
StreamOf(b) == IF b # NoFile /\ b.linked /\ b.mode # "read"
               THEN [path |-> b.path, mode |-> b.mode] ELSE NoFile

\* Game code sees one directory: the abstract file system of GameFiles.
\* Relative names are the game's view; a text being written under one is a writer.  An
\* existing file is emptied by GML_FILE_BIN_WRITE and file_bin_rewrite only, and, against
\* file_system.h:20, by GML_FILE_BIN_READWRITE on one that came with the game (HideShipped).
View(p) == Read([path |-> p, full |-> FALSE])
Game == INSTANCE GameFiles WITH
    Original <- Bundled, Slots <- TextSlots, NoWriter <- NoFile,
    Handles <- BinSlots, NoStream <- NoFile,
    files <- [p \in Paths |-> View(p)],
    writers <- [h \in TextSlots |-> IF IsWriter(h) /\ ~ texts[h].name.full
                                    THEN [path |-> texts[h].name.path, text |-> texts[h].text]
                                    ELSE NoFile],
    streams <- [h \in BinSlots |-> StreamOf(bins[h])]
OneDirectory == Game!GSpec

\* An ini file is never in memory twice, where the copies could drift apart.
OneCopyOfIni ==
    currentIni # NoIni /\ cachedIni # NoIni /\ currentIni.name # NoName
        => currentIni.name # cachedIni.name

\* An ini in memory that has not been written to since says what its file says, the open and
\* the cached one alike, unless the file was changed by other means (strays);
\* and there is one copy of it.
Agrees(ini) == ini = NoIni \/ ini.dirty \/ ini.name = NoName \/ ini.value = Parse(Read(ini.name))
IniAgreesWithFile ==
    /\ \A ini \in {currentIni, cachedIni} : ini # NoIni /\ ini.name \notin strays => Agrees(ini)
    /\ OneCopyOfIni
===============================================================================

------------------------------- MODULE Cosave -------------------------------
(***************************************************************************)
(* The cosave (Serialization.cpp): when the game saves, each plugin with a *)
(* save callback writes records into a buffer that becomes the .nvse file; *)
(* when the game loads, the file is read twice, once before the game loads *)
(* (preLoad) and once after (load), and each plugin's callback reads the   *)
(* records that the plugin wrote.  Between a save and a load the program   *)
(* may be restarted with other plugins, in another order, with other       *)
(* callbacks, the file may be cut short by a crash, and it may be one that *)
(* another version of NVSE wrote.                                          *)
(*                                                                         *)
(* The file is a sequence of cells.  A header is one cell, and so is a     *)
(* byte of data; a byte is named by who wrote it and where in the record,  *)
(* so that reading any other byte shows.  The headers of plugins and       *)
(* chunks are written after what they head (SetOffset back to them), and   *)
(* the number of bytes written is counted apart from the position.         *)
(***************************************************************************)
EXTENDS Integers, FiniteSetsExt, SequencesExt

CONSTANTS Plugins,     \* the plugins there are besides NVSE itself, each with a
                       \* base opcode (saves pass over one without, as over one
                       \* without a save callback)
          Core,        \* NVSE itself: handle 0, base opcode 0x1400
          Habits,      \* Habits[p]: the sets of callbacks that p may register
          MinBuffer,   \* the least buffer PrepareSave allocates (0x40000)
          WordSize,    \* offsets are unsigned and wrap around (2^32)
          MaxWrite,    \* bound: bytes written by one call, see Resize
          MaxRecords,  \* bound: records in a save
          MaxData      \* bound: bytes of data in a record

Kinds == {"save", "load", "newGame", "preLoad"}
Owners == Plugins \cup {Core}
NoBase == "0"

ASSUME ConstantsAssumption ==
  /\ Core \notin Plugins /\ NoBase \notin Owners
  /\ Habits \in [Plugins -> SUBSET SUBSET Kinds]
  /\ MinBuffer \in Nat \ {0} /\ MaxWrite \in 0 .. MinBuffer
  /\ MaxRecords \in Nat /\ MaxData \in Nat
  /\ WordSize \in Nat /\ WordSize > 1

Blank == [cell |-> "blank"]                     \* zeroes
FileHeader == [cell |-> "file"]
OtherHeader == [cell |-> "other"]               \* of another signature or version
ScrapHeader == [cell |-> "scrap"]               \* the first bytes of one
PluginHeader(p, n, l) ==
  [cell |-> "plugin", base |-> p, numChunks |-> n, length |-> l]
ChunkHeader(p, i, l) == [cell |-> "chunk", owner |-> p, record |-> i, length |-> l]
Byte(p, i, j) == [cell |-> "byte", owner |-> p, record |-> i, at |-> j]
NoFile == <<>>          \* no .nvse file, or an empty one
Nothing == [cell |-> "nothing"]

VARIABLES
  loaded,       \* the plugins loaded in this run of the program, by handle
  registers,    \* registers[p]: the callbacks that p has registered
  file,         \* the .nvse file
  task,         \* s_serializationTask: [buffer, ptr, length]
  plugin,       \* s_pluginHeader, with s_pluginHeaderOffset
  chunk,        \* s_chunkHeader, with s_chunkHeaderOffset and s_chunkOpen
  lastLoadSize, \* g_lastLoadSize
  handle,       \* the plugin being saved or read (i, pluginIdx)
  chunkStart,   \* pluginChunkStart
  hadData,      \* the handles whose hadData is set
  pc,           \* what the program is at
  pass,         \* s_preloading: "preLoad" or "load"
  \* What the properties speak of:
  written,      \* written[p]: the lengths of the records p wrote in this save
  saved,        \* the same, for the save that made the file
  torn,         \* is the file one that the program was killed while writing, or
                \* that another program wrote?
  got,          \* records and bytes of the last one given to the callback
  read,         \* what the last read wanted, and what it got
  told          \* told[p]: how p's callbacks were called in this load

session == <<loaded, registers>>
ghosts == <<written, saved, torn, got, read, told>>
disk == <<file, saved, torn>>
vars == <<session, file, task, plugin, chunk, lastLoadSize, handle, chunkStart,
          hadData, pc, pass, ghosts>>

-----------------------------------------------------------------------------
(* SerializationTask *)

Size(t) == Len(t.buffer)
Blanks(n) == [i \in 1 .. n |-> Blank]

\* Doubles the buffer, once and then until it holds size bytes: CheckResize asks
\* for the bytes that are to be written, not for those before them as well, which
\* is enough as long as they are no more than the buffer has already (MaxWrite).
Resize(t, size) ==
  LET doubled[k \in 0 .. size] == IF k = 0 THEN 2 * Size(t) ELSE 2 * doubled[k - 1]
      enough == Min({k \in 0 .. size : doubled[k] >= size})
  IN  [t EXCEPT !.buffer = @ \o Blanks(doubled[enough] - Size(t))]

CheckResize(t, n) == IF t.ptr + n > Size(t) THEN Resize(t, n) ELSE t
SetOffset(t, offset) ==
  [(IF offset > Size(t) THEN Resize(t, offset) ELSE t) EXCEPT !.ptr = offset]

\* Mutant: what is skipped is counted as written.
MutantSkipCounts(t, n) ==
  [CheckResize(t, n) EXCEPT !.ptr = @ + n, !.length = @ + n]

SkipForWrite(t, n) == [CheckResize(t, n) EXCEPT !.ptr = @ + n]

Overwritten(buffer, offset, cells) ==
  [k \in DOMAIN buffer |-> IF k - offset \in DOMAIN cells THEN cells[k - offset] ELSE buffer[k]]

WriteBuf(t, cells) ==
  [buffer |-> Overwritten(CheckResize(t, Len(cells)).buffer, t.ptr, cells),
   ptr |-> t.ptr + Len(cells), length |-> t.length + Len(cells)]

\* Writes a header in the place that was left for it.
BackPatch(t, offset, cell) ==
  SetOffset(WriteBuf(SetOffset(t, offset), <<cell>>), t.ptr)

\* ValidateOffset throws when there are not n more bytes in the buffer.
Valid(t, n) == t.ptr + n <= Size(t)
Remain(t) == (t.length - t.ptr) % WordSize
Peek(t) == t.buffer[t.ptr + 1]
Advance(t, n) == [t EXCEPT !.ptr = @ + n]

-----------------------------------------------------------------------------
(* Plugins, by handle *)

Handles == 0 .. Len(loaded)
PluginOf(h) == IF h = 0 THEN Core ELSE loaded[h]

\* InternalSet...Callback makes s_pluginCallbacks no longer than it needs.
CallbacksSize == 1 + Max({h \in Handles : registers[PluginOf(h)] # {}})
HasCallback(h, kind) == h < CallbacksSize /\ kind \in registers[PluginOf(h)]

Orders == UNION {{f \in [1 .. n -> Plugins] : IsInjective(f)} :
                 n \in 0 .. Cardinality(Plugins)}

NoTask == [buffer |-> <<>>, ptr |-> 0, length |-> 0]
NoPlugin == [header |-> PluginHeader(NoBase, 0, 0), offset |-> 0]
NoChunk == [header |-> ChunkHeader(Core, 0, 0), offset |-> 0, open |-> FALSE]
NoneWritten == [p \in Owners |-> <<>>]
NothingRead == [want |-> Nothing, got |-> Nothing]
NobodyTold == [p \in Owners |-> <<>>]

\* Between a save or load and the next one, nothing reads these: the model
\* forgets them.
Forget == /\ task' = NoTask /\ plugin' = NoPlugin /\ chunk' = NoChunk
          /\ handle' = 0 /\ chunkStart' = 0 /\ hadData' = {}
          /\ written' = NoneWritten /\ got' = <<0, 0>> /\ read' = NothingRead

Init ==
  /\ loaded = <<>> /\ registers = [p \in Owners |-> IF p = Core THEN Kinds ELSE {}]
  /\ task = NoTask /\ plugin = NoPlugin /\ chunk = NoChunk
  /\ lastLoadSize = 0 /\ handle = 0 /\ chunkStart = 0 /\ hadData = {}
  /\ pc = "playing" /\ pass = "load"
  /\ file = NoFile /\ saved = NoneWritten /\ torn = FALSE
  /\ written = NoneWritten /\ got = <<0, 0>> /\ told = NobodyTold
  /\ read = NothingRead

\* The program ends, or was killed, and is started again: the plugins it finds,
\* and the callbacks they register, may be others.  (Killed at any time but
\* while the file is written, it leaves the same behind.)
Restart ==
  /\ pc \in {"playing", "killed", "undefined"}
  /\ loaded' \in Orders
  /\ \E r \in [Plugins -> UNION {Habits[p] : p \in Plugins}] :
       /\ \A p \in Plugins : r[p] \in Habits[p]
       /\ registers' = [p \in Owners |-> IF p = Core THEN Kinds ELSE r[p]]
  /\ Forget /\ lastLoadSize' = 0 /\ told' = NobodyTold
  /\ pc' = "playing" /\ pass' = "load"
  /\ UNCHANGED disk

-----------------------------------------------------------------------------
(* HandleSaveGame *)

HandleSaveGame ==
  /\ pc = "playing" /\ pc' = "saving"
  /\ task' = [buffer |-> Blanks(Max({lastLoadSize, MinBuffer})), ptr |-> 1,
              length |-> 0]
  /\ told' = NobodyTold
  /\ UNCHANGED <<session, disk, plugin, chunk, lastLoadSize, handle, chunkStart,
                 hadData, pass, written, got, read>>

Saver == PluginOf(handle)

\* The next handle, and its save callback if there is one.
CallSave ==
  /\ pc = "saving" /\ handle < CallbacksSize
  /\ IF HasCallback(handle, "save")
     THEN /\ plugin' = [NoPlugin EXCEPT !.header.base = Saver]
          /\ chunk' = [chunk EXCEPT !.open = FALSE]
          /\ pc' = "writing" /\ UNCHANGED handle
     ELSE handle' = handle + 1 /\ UNCHANGED <<plugin, chunk, pc>>
  /\ UNCHANGED <<session, disk, task, lastLoadSize, chunkStart, hadData, pass,
                 written, got, read, told>>

ChunkSize(t) == t.ptr - chunk.offset - 1

\* FlushWriteChunk: the task, and the plugin's header, afterwards.
FlushWriteChunk(t) ==
  IF chunk.open
  THEN BackPatch(t, chunk.offset, [chunk.header EXCEPT !.length = ChunkSize(t)])
  ELSE t

\* Mutant: the chunk's own header is not counted.
MutantNoHeader(t) ==
  IF chunk.open THEN [plugin.header EXCEPT !.length = @ + ChunkSize(t)]
  ELSE plugin.header

FlushedHeader(t) ==
  IF chunk.open
  THEN [plugin.header EXCEPT !.length = @ + ChunkSize(t) + 1]
  ELSE plugin.header

RecordsWritten == MapThenSumSet(LAMBDA p : Len(written[p]), Owners)

\* A program whose pointers are words has no buffer of more cells than there are
\* offsets: to allocate it throws (SaveThrows).
Allocatable(n) == task.ptr + n < WordSize

OpenRecord ==
  /\ pc = "writing" /\ RecordsWritten < MaxRecords /\ Allocatable(2)
  /\ LET first == plugin.header.numChunks = 0
         opened == IF first THEN SkipForWrite(task, 1) ELSE task
         flushed == FlushWriteChunk(opened)
     IN  /\ task' = SkipForWrite(flushed, 1)
         /\ plugin' = [header |-> [FlushedHeader(opened) EXCEPT !.numChunks = @ + 1],
                       offset |-> IF first THEN task.ptr ELSE plugin.offset]
         /\ chunk' = [header |-> ChunkHeader(Saver, Len(written[Saver]) + 1, 0),
                      offset |-> flushed.ptr, open |-> TRUE]
  /\ written' = [written EXCEPT ![Saver] = Append(@, 0)]
  /\ UNCHANGED <<session, disk, lastLoadSize, handle, chunkStart, hadData, pc, pass,
                 got, read, told>>

\* One call writes up to MaxWrite bytes (callers open a record before).
WriteRecordData ==
  /\ pc = "writing" /\ chunk.open
  /\ \E n \in 1 .. MaxWrite :
       LET i == Len(written[Saver])
           j == written[Saver][i]
       IN  /\ j + n <= MaxData /\ Allocatable(n)
           /\ task' = WriteBuf(task, [k \in 1 .. n |-> Byte(Saver, i, j + k)])
           /\ written' = [written EXCEPT ![Saver][i] = j + n]
  /\ UNCHANGED <<session, disk, plugin, chunk, lastLoadSize, handle, chunkStart,
                 hadData, pc, pass, got, read, told>>

SaveReturns ==
  /\ pc = "writing" /\ pc' = "saving"
  /\ LET flushed == FlushWriteChunk(task)
         header == FlushedHeader(task)
     IN  /\ task' = IF header.numChunks > 0
                    THEN BackPatch(flushed, plugin.offset, header) ELSE flushed
         /\ plugin' = [plugin EXCEPT !.header = header]
  /\ chunk' = [chunk EXCEPT !.open = FALSE]
  /\ handle' = handle + 1
  /\ UNCHANGED <<session, disk, lastLoadSize, chunkStart, hadData, pass, written,
                 got, read, told>>

\* An exception out of a save callback ends the save: no file is written.
SaveThrows ==
  /\ pc = "writing" /\ pc' = "playing" /\ Forget
  /\ UNCHANGED <<session, disk, lastLoadSize, pass, told>>

\* The file that is written: the first length bytes of the buffer.
Whole == LET t == WriteBuf(SetOffset(task, 0), <<FileHeader>>)
         IN  SubSeq(t.buffer, 1, t.length)

SaveEnds ==
  /\ pc = "saving" /\ handle >= CallbacksSize
  /\ \/ file' = Whole /\ saved' = written /\ torn' = FALSE
     \/ UNCHANGED disk          \* the file cannot be created
  /\ pc' = "playing" /\ Forget
  /\ UNCHANGED <<session, lastLoadSize, pass, told>>

\* The program is killed while it writes the file: before the header, in it, or
\* anywhere after it.
KilledInSave ==
  /\ pc = "saving" /\ handle >= CallbacksSize
  /\ \/ \E n \in 0 .. Len(Whole) - 1 : file' = SubSeq(Whole, 1, n)
     \/ file' = <<ScrapHeader>>
  /\ saved' = written /\ torn' = TRUE
  /\ pc' = "killed" /\ Forget
  /\ UNCHANGED <<session, lastLoadSize, pass, told>>

\* The player brings a file in that this version of NVSE refuses.
FileReplaced ==
  /\ pc = "playing"
  /\ file' = <<OtherHeader>> /\ saved' = NoneWritten /\ torn' = TRUE
  /\ UNCHANGED <<session, task, plugin, chunk, lastLoadSize, handle, chunkStart,
                 hadData, pc, pass, written, got, read, told>>

-----------------------------------------------------------------------------
(* HandlePreLoadGame and HandleLoadGame *)

AfterPass == IF pass = "preLoad" THEN "preloaded" ELSE "playing"

\* Calls are recorded up to the second, which no callback should get unless a
\* load fails.
Noted(calls, how) == IF Len(calls) < 2 THEN Append(calls, how) ELSE calls

\* Mutant: a failed load is only reported.
MutantNoNewGame(t) == t

\* HandleNewGame, when a load (not a preload) has failed.
ToldNewGame(t) ==
  [p \in Owners |-> IF p \in {PluginOf(h) : h \in Handles} /\ "newGame" \in registers[p]
                    THEN Noted(t[p], "new") ELSE t[p]]

Accepted == file # NoFile /\ file[1] = FileHeader
\* "invalid file signature", "version invalid" or "version too new".
Refused == file # NoFile /\ file[1] = OtherHeader

\* The file is there and its header is good: the plugins' data are next.
OpenFile ==
  /\ Accepted
  /\ lastLoadSize' = Len(file) /\ pc' = "loading"
  /\ task' = [buffer |-> file, ptr |-> 1, length |-> Len(file)]
  /\ hadData' = {} /\ told' = NobodyTold

\* There is no file, or less than a header (ReadBuf throws), and it is a new game
\* for the plugins; or the header is refused, and they are not called at all.
GiveUp(kind) ==
  /\ ~Accepted
  /\ lastLoadSize' \in IF file = NoFile THEN {lastLoadSize, 0} ELSE {Len(file)}
  /\ pc' = IF kind = "load" THEN "playing" ELSE "preloaded"
  /\ task' = NoTask /\ UNCHANGED hadData
  /\ told' = IF kind = "load" /\ ~Refused THEN ToldNewGame(NobodyTold) ELSE NobodyTold

LoadFile(kind) ==
  /\ pass' = kind /\ (OpenFile \/ GiveUp(kind))
  /\ UNCHANGED <<session, disk, plugin, chunk, handle, chunkStart, written, got, read>>

HandlePreLoadGame == pc = "playing" /\ LoadFile("preLoad")
HandleLoadGame == pc = "preloaded" /\ LoadFile("load")

\* The game could not load its own file.
GameLoadFails ==
  /\ pc = "preloaded" /\ pc' = "playing"
  /\ UNCHANGED <<session, disk, task, plugin, chunk, lastLoadSize, handle, chunkStart,
                 hadData, pass, written, got, read, told>>

\* ValidateOffset has thrown: everything is unloaded, and a load becomes a new game.
LoadThrows ==
  /\ pc' = AfterPass /\ Forget
  /\ told' = IF pass = "load" THEN ToldNewGame(told) ELSE told

\* What headers are read as where zeroes are.
LengthIn(cell) == IF cell.cell = "plugin" THEN cell.length ELSE 0
ChunkIn(cell) == IF cell.cell = "chunk" THEN cell ELSE NoChunk.header

\* The loop over the plugins in the file goes on while anything remains.
HeaderAhead == pc = "loading" /\ Remain(task) >= 1
Header == Peek(task)
BehindHeader == Advance(task, 1)
Reader == {h \in Handles : PluginOf(h) = Header.base}
HeaderRead == read' = [want |-> [cell |-> "plugin"], got |-> [cell |-> Header.cell]]

Heard(hs) == hadData \cup hs

ReadHeaderThrows ==
  /\ HeaderAhead /\ ~Valid(task, 1) /\ LoadThrows
  /\ UNCHANGED <<session, disk, lastLoadSize, pass>>

\* "cosave header has size 0": the loop ends.
ReadNoHeader ==
  /\ HeaderAhead /\ Valid(task, 1) /\ LengthIn(Header) = 0 /\ HeaderRead
  /\ pc' = "loaded" /\ task' = BehindHeader
  /\ UNCHANGED <<session, disk, plugin, chunk, lastLoadSize, handle, chunkStart,
                 hadData, pass, written, got, told>>

\* "data in save file for plugin, but plugin isn't loaded", or "no handler".
SkipPlugin ==
  /\ HeaderAhead /\ Valid(task, 1) /\ LengthIn(Header) > 0
  /\ \A h \in Reader : ~HasCallback(h, pass)
  /\ IF Valid(BehindHeader, Header.length)
     THEN /\ task' = Advance(BehindHeader, Header.length)
          /\ hadData' = Heard(Reader)
          /\ plugin' = [plugin EXCEPT !.header = Header]
          /\ chunkStart' = BehindHeader.ptr
          /\ HeaderRead /\ UNCHANGED <<chunk, handle, written, got, told, pc>>
     ELSE LoadThrows
  /\ UNCHANGED <<session, disk, lastLoadSize, pass>>

CallLoad ==
  /\ HeaderAhead /\ Valid(task, 1) /\ LengthIn(Header) > 0
  /\ \E h \in Reader :
       /\ HasCallback(h, pass)
       /\ handle' = h /\ hadData' = Heard({h})
       /\ told' = [told EXCEPT ![PluginOf(h)] = Noted(@, "data")]
  /\ plugin' = [plugin EXCEPT !.header = Header]
  /\ task' = BehindHeader /\ chunkStart' = BehindHeader.ptr
  /\ chunk' = [chunk EXCEPT !.open = FALSE]
  /\ HeaderRead /\ got' = <<0, 0>> /\ pc' = "reading"
  /\ UNCHANGED <<session, disk, lastLoadSize, pass, written>>

\* A plugin that has registered nothing, and has a handle greater than any that
\* has, is not in s_pluginCallbacks, which is read and written past its end: the
\* program fails, or finds no callback there (SkipPlugin).
IndexPastEnd ==
  /\ HeaderAhead /\ Valid(task, 1) /\ LengthIn(Header) > 0
  /\ \E h \in Reader : h >= CallbacksSize
  /\ pc' = "undefined"
  /\ UNCHANGED <<session, disk, task, plugin, chunk, lastLoadSize, handle, chunkStart,
                 hadData, pass, written, got, read, told>>

LoadReader == PluginOf(handle)
Record == got[1]
RecordLength == IF Record <= Len(saved[LoadReader]) THEN saved[LoadReader][Record] ELSE 0

\* FlushReadRecord skips what is left of the record that is open.
GetNextRecordInfo ==
  /\ pc = "reading"
  /\ LET left == IF chunk.open THEN chunk.header.length ELSE 0
         t == Advance(task, left)
         more == plugin.header.numChunks > 0
         owed == Record < Len(saved[LoadReader])
     IN  IF ~Valid(task, left + IF more THEN 1 ELSE 0)
         THEN LoadThrows
         ELSE /\ task' = IF more THEN Advance(t, 1) ELSE t
              /\ chunk' = IF more THEN [chunk EXCEPT !.header = ChunkIn(Peek(t)), !.open = TRUE]
                                  ELSE [chunk EXCEPT !.open = FALSE]
              /\ plugin' = IF more THEN [plugin EXCEPT !.header.numChunks = @ - 1]
                                   ELSE plugin
              /\ got' = IF more THEN <<Record + 1, 0>> ELSE got
              /\ read' = [want |-> IF owed THEN ChunkHeader(LoadReader, Record + 1,
                                                      saved[LoadReader][Record + 1])
                                           ELSE Nothing,
                          got |-> IF more THEN Peek(t) ELSE Nothing]
              /\ UNCHANGED <<handle, chunkStart, hadData, pc, written, told>>
  /\ UNCHANGED <<session, disk, lastLoadSize, pass>>

\* How much of n bytes is read or skipped: no more than is left of the record.
Take(n) == Min({n, chunk.header.length})

Taken(n) == /\ chunk' = [chunk EXCEPT !.header.length = @ - n]
            /\ got' = [got EXCEPT ![2] = @ + n]

\* A byte of the record, or none when all have been read.
ReadRecordData ==
  /\ pc = "reading" /\ chunk.open
  /\ LET n == Take(1) IN
     IF ~Valid(task, n) THEN LoadThrows
     ELSE /\ read' = [want |-> IF got[2] < RecordLength
                               THEN Byte(LoadReader, Record, got[2] + 1) ELSE Nothing,
                      got |-> IF n = 1 THEN Peek(task) ELSE Nothing]
          /\ task' = Advance(task, n) /\ Taken(n)
          /\ UNCHANGED <<plugin, handle, chunkStart, hadData, pc, written, told>>
  /\ UNCHANGED <<session, disk, lastLoadSize, pass>>

\* SkipNBytes calls Skip as a writer does, which makes the buffer larger where
\* the other readers throw.
SkipNBytes ==
  /\ pc = "reading" /\ chunk.open
  /\ \E n \in 1 .. MaxData : task' = SkipForWrite(task, Take(n)) /\ Taken(Take(n))
  /\ UNCHANGED <<session, disk, plugin, lastLoadSize, handle, chunkStart, hadData, pc,
                 pass, written, read, told>>

\* Mutant: the position from before the plugin's header was read.
MutantRewind == chunkStart - 1

ExpectedOffset == chunkStart + plugin.header.length

\* What the callback has not read is passed over.
LoadReturns ==
  /\ pc = "reading" /\ pc' = "loading"
  /\ task' = IF task.ptr = ExpectedOffset THEN task
             ELSE SetOffset(task, ExpectedOffset)
  /\ UNCHANGED <<session, disk, plugin, chunk, lastLoadSize, handle, chunkStart,
                 hadData, pass, written, got, read, told>>

\* The callbacks of the plugins that had no data, for which GetNextRecordInfo
\* returns false.
LoadEnds ==
  /\ \/ pc = "loading" /\ Remain(task) = 0
     \/ pc = "loaded"
  /\ told' = [p \in Owners |->
                IF \E h \in Handles \ hadData : PluginOf(h) = p /\ HasCallback(h, pass)
                THEN Noted(told[p], "none") ELSE told[p]]
  /\ pc' = AfterPass /\ Forget
  /\ UNCHANGED <<session, disk, lastLoadSize, pass>>

-----------------------------------------------------------------------------
SaveCallback == OpenRecord \/ WriteRecordData \/ SaveThrows
Save == CallSave \/ SaveReturns \/ SaveEnds \/ KilledInSave
LoadCallback == GetNextRecordInfo \/ ReadRecordData \/ SkipNBytes
LoadLoop == \/ ReadHeaderThrows \/ ReadNoHeader \/ SkipPlugin \/ CallLoad
            \/ IndexPastEnd \/ LoadEnds

Next == \/ Restart \/ FileReplaced \/ HandleSaveGame \/ SaveCallback \/ Save
        \/ HandlePreLoadGame \/ HandleLoadGame \/ GameLoadFails
        \/ LoadLoop \/ LoadCallback \/ LoadReturns
Spec == Init /\ [][Next]_vars

\* The loops run to their ends, and callbacks return.
FairSpec == Spec /\ WF_vars(LoadLoop) /\ WF_vars(LoadReturns)

-----------------------------------------------------------------------------
(* Properties *)

PluginHeaders == [cell : {"plugin"}, base : Owners \cup {NoBase}, numChunks : Nat, length : Nat]
ChunkHeaders == [cell : {"chunk"}, owner : Owners, record : Nat, length : Nat]
Cells == {Blank, FileHeader, OtherHeader, ScrapHeader} \cup PluginHeaders \cup ChunkHeaders
         \cup [cell : {"byte"}, owner : Owners, record : Nat, at : Nat]

TypeOK ==
  /\ loaded \in Seq(Plugins) /\ registers \in [Owners -> SUBSET Kinds]
  /\ file \in Seq(Cells)
  /\ task \in [buffer : Seq(Cells), ptr : Nat, length : Nat]
  /\ plugin \in [header : PluginHeaders, offset : Nat]
  /\ chunk \in [header : ChunkHeaders, offset : Nat, open : BOOLEAN]
  /\ lastLoadSize \in Nat /\ handle \in Nat /\ chunkStart \in Nat
  /\ hadData \subseteq Handles
  /\ pc \in {"playing", "saving", "writing", "preloaded", "loading", "reading",
             "loaded", "killed", "undefined"}
  /\ pass \in {"preLoad", "load"}
  /\ written \in [Owners -> Seq(Nat)] /\ saved \in [Owners -> Seq(Nat)]
  /\ torn \in BOOLEAN /\ got \in Nat \X Nat
  /\ told \in [Owners -> Seq({"data", "none", "new"})]

\* The position never leaves the buffer, whose size doubles to keep it in
\* (SerializationTask::CheckResize, SetOffset, ValidateOffset); SkipNBytes may
\* leave it in a file cut short.
InBuffer ==
  ~(torn /\ pc \in {"loading", "reading", "loaded"}) => task.ptr <= Size(task)

\* While a save is written, the bytes counted and the headers still to be
\* written add up to the position: what Save() writes is all there is
\* (SerializationTask::Save writes length bytes).
LengthAccounts ==
  pc \in {"saving", "writing"} =>
    task.ptr = task.length + 1
      + (IF pc = "writing" /\ plugin.header.numChunks > 0 THEN 1 ELSE 0)
      + (IF pc = "writing" /\ chunk.open THEN 1 ELSE 0)

\* Position, buffer and count of bytes agree at every step of a save or load.
BufferSound == TypeOK /\ InBuffer /\ LengthAccounts

\* Every read of a file that was written to its end gives what that plugin
\* wrote in that place: the records in order, each of its length, the bytes of
\* each, and then no more; whatever plugins were loaded then and now, and
\* however much of their data others have read.
ReadsWhatWasWritten == ~torn => read.want = read.got

\* s_pluginCallbacks is indexed within its size (Serialization.cpp:855).
CallbacksInRange == pc # "undefined"

\* A load of such a file calls every callback once, with data exactly for the
\* plugins that have data in the file.
EachToldOnce ==
  [][LoadEnds /\ ~torn =>
       \A h \in Handles :
         told'[PluginOf(h)] =
           IF HasCallback(h, pass)
           THEN <<IF saved[PluginOf(h)] # <<>> THEN "data" ELSE "none">>
           ELSE <<>>]_vars

\* However a load ends, every plugin that has a load and a newGame callback has
\* been called, by one or the other; but of a file whose header is refused nobody
\* hears (Serialization.cpp:811-830), and all keep the state of the game before.
EveryLoadIsHeard ==
  [][pass' = "load" /\ pc' = "playing" /\ pc \in {"preloaded", "loading", "reading", "loaded"}
     /\ ~GameLoadFails
       => IF Refused THEN told' = NobodyTold
          ELSE \A h \in Handles :
                 {"load", "newGame"} \subseteq registers[PluginOf(h)]
                   => told'[PluginOf(h)] # <<>>]_vars

\* Every plugin is called for every load of a file that is not refused: of a whole
\* file once and with its own data, of one that fails at the latest as for a new
\* game.
EachTold == EachToldOnce /\ EveryLoadIsHeard

\* A load comes to an end, even of a file cut short.
LoadsEnd == pc \in {"loading", "reading", "loaded"} ~> pc \in {"preloaded", "playing", "undefined"}
=============================================================================

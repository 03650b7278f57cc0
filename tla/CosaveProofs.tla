---------------------------- MODULE CosaveProofs ----------------------------
(***************************************************************************)
(* Theorems about Cosave, for any plugins and callbacks, and any number    *)
(* and length of records.                                                  *)
(*                                                                         *)
(* The argument is about the layout of the buffer.  Tiled says where each  *)
(* plugin's records are and that nothing else is between them; a save      *)
(* extends it by the plugin whose callback has returned, the file inherits *)
(* it, and a load walks along it.  Of a file cut short, which is not       *)
(* tiled, only the types are known, and whom the load has told.            *)
(***************************************************************************)
EXTENDS Cosave, DataLemmas

(***************************************************************************)
(* Where records are: at[p][i] is the offset of record i of plugin p, and  *)
(* at[p][n + 1], if it has n of them, the offset behind the last.  (Cell k *)
(* is at offset k - 1.)                                                    *)
(***************************************************************************)
Places == [Nat -> Nat]
Offsets == [Owners -> Places]

BytesAt(b, p, i, n, offset) == \A j \in 1 .. n : b[offset + 1 + j] = Byte(p, i, j)

RecordAt(b, p, i, n, offset) ==
  b[offset + 1] = ChunkHeader(p, i, n) /\ BytesAt(b, p, i, n, offset)

\* The first n records of p, whose lengths r lists, are at f, up to f[n + 1].
RecordsAt(b, p, r, n, f) ==
  \A i \in 1 .. n : /\ f[i + 1] = f[i] + 1 + r[i] /\ f[1] <= f[i] /\ f[i + 1] <= f[n + 1]
                    /\ RecordAt(b, p, i, r[i], f[i])

End(w, at, p) == at[p][Len(w[p]) + 1]

PluginAt(b, w, at, p) ==
  /\ at[p][1] >= 2
  /\ b[at[p][1]] = PluginHeader(p, Len(w[p]), End(w, at, p) - at[p][1])
  /\ RecordsAt(b, p, w[p], Len(w[p]), at[p])

HasData(w) == {p \in Owners : w[p] # <<>>}

\* Another plugin's records start at this offset, or it is the last one.
Boundary(w, at, last, offset) ==
  offset = last \/ \E p \in HasData(w) : at[p][1] = offset + 1

\* From offset 1 to the last, b consists of the records w.
Tiled(b, w, at, last) ==
  /\ Boundary(w, at, last, 1)
  /\ \A p \in HasData(w) : /\ PluginAt(b, w, at, p) /\ End(w, at, p) <= last
                           /\ Boundary(w, at, last, End(w, at, p))
  /\ \A p, q \in HasData(w) : p # q => End(w, at, p) < at[q][1] \/ End(w, at, q) < at[p][1]

-----------------------------------------------------------------------------
(***************************************************************************)
(* The inductive invariant.                                                *)
(***************************************************************************)
Saving == pc \in {"saving", "writing"}
Loading == pc \in {"loading", "reading", "loaded"}
Resting == pc \in {"playing", "preloaded", "killed"}

SessionFits ==
  /\ \A i, j \in 1 .. Len(loaded) : loaded[i] = loaded[j] => i = j
  /\ registers[Core] = Kinds

RestFits ==
  /\ ~Loading /\ pc # "undefined" => read = NothingRead
  /\ Resting => handle = 0 /\ written = NoneWritten

\* A file that was written to its end, and is no longer than offsets reach.
DiskFits ==
  file # NoFile /\ ~torn =>
    Len(file) < WordSize /\ \E at \in Offsets : Tiled(file, saved, at, Len(file))

\* Plugins are saved in the order of their handles.
Unsaved(h) == \A k \in Handles : k >= h => written[PluginOf(k)] = <<>>

TaskFits == 1 <= task.ptr /\ task.ptr < WordSize /\ MinBuffer <= Size(task)

SavingFits ==
  pc = "saving" =>
    /\ TaskFits /\ Unsaved(handle)
    /\ \E at \in Offsets : Tiled(task.buffer, written, at, task.ptr)

Others == [written EXCEPT ![Saver] = <<>>]
Count == Len(written[Saver])

\* All records but the last are complete; the last one has no header yet, nor
\* has the plugin.
HalfWritten(f) ==
  /\ f[1] = plugin.offset + 1 /\ f[Count] = chunk.offset
  /\ RecordsAt(task.buffer, Saver, written[Saver], Count - 1, f)
  /\ BytesAt(task.buffer, Saver, Count, written[Saver][Count], chunk.offset)
  /\ task.ptr = chunk.offset + 1 + written[Saver][Count]
  /\ chunk.header = ChunkHeader(Saver, Count, 0)
  /\ plugin.header.length = f[Count] - f[1]

WritingFits ==
  pc = "writing" =>
    /\ TaskFits /\ handle \in Handles /\ Unsaved(handle + 1)
    /\ plugin.header.base = Saver /\ plugin.header.numChunks = Count
    /\ IF Count = 0
       THEN /\ ~chunk.open /\ plugin.header.length = 0
            /\ \E at \in Offsets : Tiled(task.buffer, written, at, task.ptr)
       ELSE /\ chunk.open /\ plugin.offset >= 1
            /\ \E at \in Offsets : Tiled(task.buffer, Others, at, plugin.offset)
            /\ \E f \in Places : HalfWritten(f)

\* The plugins in front of an offset are those that have been heard of.
HeardUpTo(at, offset) ==
  \A h \in Handles :
    h \in hadData <=> PluginOf(h) \in HasData(saved) /\ at[PluginOf(h)][1] <= offset

AtBoundary(at) == Boundary(saved, at, Len(file), task.ptr) /\ HeardUpTo(at, task.ptr)

\* The callback of LoadReader is at record got[1], of which it has read got[2]
\* bytes.
InRecord(at) ==
  IF chunk.open
  THEN /\ Record >= 1 /\ got[2] + chunk.header.length = RecordLength
       /\ task.ptr = at[LoadReader][Record] + 1 + got[2]
  ELSE /\ Record \in {0, Len(saved[LoadReader])}
       /\ task.ptr = at[LoadReader][Record + 1]

AtPlugin(at) ==
  /\ handle \in Handles /\ LoadReader \in HasData(saved)
  /\ chunkStart = at[LoadReader][1] /\ HeardUpTo(at, chunkStart)
  /\ plugin.header.length = End(saved, at, LoadReader) - chunkStart
  /\ Record <= Len(saved[LoadReader])
  /\ plugin.header.numChunks = Len(saved[LoadReader]) - Record
  /\ InRecord(at)

\* A load of a whole file is at the plugin after those it has heard of, or in the
\* record that its callback is reading.
WalkFits ==
  Loading /\ ~torn =>
    /\ task.buffer = file /\ pc # "loaded"
    /\ \E at \in Offsets : /\ Tiled(file, saved, at, Len(file))
                           /\ IF pc = "loading" THEN AtBoundary(at) ELSE AtPlugin(at)

LoadingFits ==
  Loading =>
    /\ Accepted /\ task.length = Len(file) /\ Size(task) >= 1
    /\ pc = "reading" => handle \in Handles
    /\ \A h \in hadData : HasCallback(h, pass) => told[PluginOf(h)] # <<>>

\* While a whole file is loaded, the plugins that have been told are those that
\* have been heard of.
ToldFits ==
  Loading /\ ~torn =>
    \A h \in Handles :
      told[PluginOf(h)] = IF h \in hadData /\ HasCallback(h, pass) THEN <<"data">> ELSE <<>>

Inv ==
  /\ BufferSound /\ ReadsWhatWasWritten
  /\ SessionFits /\ RestFits /\ DiskFits
  /\ SavingFits /\ WritingFits /\ WalkFits /\ LoadingFits /\ ToldFits

-----------------------------------------------------------------------------
(***************************************************************************)
(* The buffer.                                                             *)
(***************************************************************************)
Tasks == [buffer : Seq(Cells), ptr : Nat, length : Nat]

\* b is the buffer a, with n cells or more behind it.
Grown(a, b, n) == /\ b \in Seq(Cells) /\ Len(b) >= Len(a) + n
                  /\ \A i \in 1 .. Len(a) : b[i] = a[i]

(***************************************************************************)
(* The doubling loop of Resize: each turn doubles, so that it reaches any  *)
(* size in as many turns.                                                  *)
(***************************************************************************)
Doubles(f, m, k) == f = [i \in 0 .. k |-> IF i = 0 THEN m ELSE 2 * f[i - 1]]

LEMMA DoublesExists ==
  ASSUME NEW m \in Nat, NEW n \in Nat
  PROVE  \E f : Doubles(f, m, n)
<1>. DEFINE G == {k \in 0 .. n : \E f : Doubles(f, m, k)}
<1>1. 0 \in G
  <2>. DEFINE f == [i \in 0 .. 0 |-> m]
  <2>1. f = [i \in 0 .. 0 |-> IF i = 0 THEN m ELSE 2 * f[i - 1]]
    OBVIOUS
  <2>. HIDE DEF f
  <2>. QED  BY <2>1 DEF Doubles
<1>2. ASSUME NEW k \in 0 .. n - 1, k \in G
      PROVE  k + 1 \in G
  <2>1. PICK f : Doubles(f, m, k)
    BY <1>2
  <2>. DEFINE g == [i \in 0 .. k + 1 |-> IF i <= k THEN f[i] ELSE 2 * f[i - 1]]
  <2>2. \A i \in 0 .. k : f[i] = IF i = 0 THEN m ELSE 2 * f[i - 1]
    BY <2>1 DEF Doubles
  <2>3. /\ \A i \in 0 .. k : i <= k /\ i \in 0 .. k + 1
        /\ \A i \in 0 .. k + 1 : (i <= k => i \in 0 .. k) /\ (~(i <= k) => i = k + 1 /\ i # 0)
        /\ (k + 1) - 1 = k /\ k \in 0 .. k
        /\ \A i \in 0 .. k : i # 0 => i - 1 \in 0 .. k
    OBVIOUS
  <2>4. \A i \in 0 .. k : g[i] = f[i]
    BY <2>3
  <2>5. \A i \in 0 .. k + 1 : g[i] = IF i = 0 THEN m ELSE 2 * g[i - 1]
    <3>. SUFFICES ASSUME NEW i \in 0 .. k + 1
                  PROVE  g[i] = IF i = 0 THEN m ELSE 2 * g[i - 1]
      OBVIOUS
    <3>1. CASE i <= k
      <4>1. g[i] = f[i] /\ (i # 0 => g[i - 1] = f[i - 1])
        BY <2>3, <2>4, <3>1
      <4>. HIDE DEF g
      <4>. QED  BY <2>2, <2>3, <3>1, <4>1
    <3>2. CASE ~(i <= k)
      <4>1. g[i] = 2 * f[i - 1] /\ i # 0 /\ g[i - 1] = f[i - 1]
        BY <2>3, <2>4, <3>2
      <4>. HIDE DEF g
      <4>. QED  BY <4>1
    <3>. QED  BY <3>1, <3>2
  <2>6. g = [i \in 0 .. k + 1 |-> g[i]]
    OBVIOUS
  <2>. HIDE DEF g
  <2>7. Doubles(g, m, k + 1)
    BY <2>5, <2>6 DEF Doubles
  <2>. QED  BY <2>7
<1>. HIDE DEF G
<1>3. 0 .. n \subseteq G
  BY <1>1, <1>2, InductionUpTo
<1>4. n \in G
  BY <1>3
<1>. QED  BY <1>4 DEF G

LEMMA ResizeGrows ==
  ASSUME NEW t \in Tasks, Size(t) >= 1, NEW size \in Nat
  PROVE  /\ Resize(t, size) = [t EXCEPT !.buffer = Resize(t, size).buffer]
         /\ Grown(t.buffer, Resize(t, size).buffer, Size(t))
         /\ Size(Resize(t, size)) >= size
<1>. DEFINE m == 2 * Len(t.buffer)
            f == CHOOSE f : Doubles(f, m, size)
            ks == {k \in 0 .. size : f[k] >= size}
            n == f[Min(ks)] - Len(t.buffer)
<1>1. Resize(t, size) = [t EXCEPT !.buffer = @ \o Blanks(n)]
  BY DEF Resize, Doubles, Size
<1>2. t.buffer \in Seq(Cells) /\ Len(t.buffer) \in Nat /\ Len(t.buffer) >= 1
  BY LenProperties DEF Tasks, Size
<1>3. \A k \in 0 .. size : f[k] = IF k = 0 THEN m ELSE 2 * f[k - 1]
  <2>1. m \in Nat
    BY <1>2
  <2>. HIDE DEF m
  <2>2. Doubles(f, m, size)
    BY <2>1, DoublesExists
  <2>. QED  BY <2>2 DEF Doubles
<1>. HIDE DEF f
<1>4. \A k \in 0 .. size : f[k] \in Nat /\ f[k] >= m /\ f[k] >= k
  <2>. DEFINE G == {k \in 0 .. size : f[k] \in Nat /\ f[k] >= m /\ f[k] >= k + 1}
  <2>1. 0 \in G
    BY <1>2, <1>3
  <2>2. ASSUME NEW k \in 0 .. size - 1, k \in G PROVE k + 1 \in G
    <3>1. k + 1 \in 0 .. size /\ k + 1 # 0 /\ (k + 1) - 1 = k
      OBVIOUS
    <3>2. f[k + 1] = 2 * f[k] /\ f[k] \in Nat /\ f[k] >= m /\ f[k] >= k + 1
      BY <1>3, <2>2, <3>1
    <3>. QED  BY <1>2, <3>1, <3>2
  <2>. HIDE DEF G
  <2>3. 0 .. size \subseteq G
    BY <2>1, <2>2, InductionUpTo
  <2>. QED  BY <2>3 DEF G
<1>5. Min(ks) \in ks
  <2>1. ks \subseteq Nat /\ size \in ks
    BY <1>4
  <2>. HIDE DEF ks
  <2>. QED  BY <2>1, MinProperty
<1>6. n \in Nat /\ n >= Len(t.buffer) /\ Len(t.buffer) + n >= size
  BY <1>2, <1>4, <1>5
<1>. HIDE DEF n, m, ks
<1>7. Blanks(n) \in Seq(Cells) /\ Len(Blanks(n)) = n
  BY <1>6 DEF Blanks, Cells
<1>8. /\ t.buffer \o Blanks(n) \in Seq(Cells) /\ Len(t.buffer \o Blanks(n)) = Len(t.buffer) + n
      /\ \A i \in 1 .. Len(t.buffer) : (t.buffer \o Blanks(n))[i] = t.buffer[i]
  <2>1. \A a, b \in Seq(Cells) :
          /\ a \o b \in Seq(Cells) /\ Len(a \o b) = Len(a) + Len(b)
          /\ \A i \in 1 .. Len(a) : (a \o b)[i] = a[i]
    OBVIOUS
  <2>. QED  BY <1>2, <1>7, <2>1
<1>9. Resize(t, size).buffer = t.buffer \o Blanks(n)
  BY <1>1 DEF Tasks
<1>. QED  BY <1>1, <1>2, <1>6, <1>8, <1>9 DEF Grown, Size, Tasks

LEMMA CheckResizeGrows ==
  ASSUME NEW t \in Tasks, Size(t) >= 1, NEW n \in Nat, NEW r, r = CheckResize(t, n)
  PROVE  /\ r \in Tasks /\ r.ptr = t.ptr /\ r.length = t.length
         /\ Grown(t.buffer, r.buffer, 0)
         /\ t.ptr <= Size(t) /\ n <= Size(t) => t.ptr + n <= Size(r)
         /\ t.ptr + n <= Size(t) => r.buffer = t.buffer
<1>1. t.buffer \in Seq(Cells) /\ t.ptr \in Nat /\ t.length \in Nat /\ Len(t.buffer) \in Nat
  BY LenProperties DEF Tasks
<1>2. CASE t.ptr + n > Size(t)
  <2>1. r = Resize(t, n)
    BY <1>2 DEF CheckResize
  <2>2. /\ r = [t EXCEPT !.buffer = r.buffer] /\ Grown(t.buffer, r.buffer, Size(t))
    BY <2>1, ResizeGrows
  <2>3. /\ r.buffer \in Seq(Cells) /\ Len(r.buffer) >= Len(t.buffer) + Size(t)
        /\ \A i \in 1 .. Len(t.buffer) : r.buffer[i] = t.buffer[i]
    BY <2>2 DEF Grown
  <2>4. r \in Tasks /\ r.ptr = t.ptr /\ r.length = t.length
    BY <1>1, <2>2, <2>3 DEF Tasks
  <2>5. Len(r.buffer) \in Nat /\ Len(r.buffer) >= Len(t.buffer) + 0
    BY <1>1, <2>3, LenProperties DEF Size
  <2>. QED  BY <1>1, <1>2, <2>3, <2>4, <2>5 DEF Grown, Size
<1>3. CASE ~(t.ptr + n > Size(t))
  <2>1. r = t
    BY <1>3 DEF CheckResize
  <2>. QED  BY <1>1, <1>3, <2>1 DEF Grown, Size
<1>. QED  BY <1>2, <1>3

LEMMA SkipForWriteMoves ==
  ASSUME NEW t \in Tasks, Size(t) >= 1, NEW n \in Nat, NEW r, r = SkipForWrite(t, n)
  PROVE  /\ r \in Tasks /\ r.ptr = t.ptr + n /\ r.length = t.length
         /\ Grown(t.buffer, r.buffer, 0)
         /\ t.ptr <= Size(t) /\ n <= Size(t) => r.ptr <= Size(r)
         /\ t.ptr + n <= Size(t) => r.buffer = t.buffer
<1>. PICK c : c = CheckResize(t, n)
  OBVIOUS
<1>1. /\ c \in Tasks /\ c.ptr = t.ptr /\ c.length = t.length
      /\ Grown(t.buffer, c.buffer, 0)
      /\ t.ptr <= Size(t) /\ n <= Size(t) => t.ptr + n <= Size(c)
      /\ t.ptr + n <= Size(t) => c.buffer = t.buffer
  BY CheckResizeGrows
<1>2. r = [c EXCEPT !.ptr = @ + n]
  BY DEF SkipForWrite
<1>3. r \in Tasks /\ r.ptr = t.ptr + n /\ r.length = t.length /\ r.buffer = c.buffer
  BY <1>1, <1>2 DEF Tasks
<1>. QED  BY <1>1, <1>3 DEF Size

\* b is a with cells written at an offset, and perhaps more behind it.
WrittenTo(a, b, offset, cells) ==
  /\ b \in Seq(Cells) /\ Len(b) >= Len(a)
  /\ \A i \in 1 .. Len(a) : i <= offset \/ i > offset + Len(cells) => b[i] = a[i]
  /\ \A k \in 1 .. Len(cells) : b[offset + k] = cells[k]

LEMMA WriteBufWrites ==
  ASSUME NEW t \in Tasks, Size(t) >= 1, t.ptr <= Size(t),
         NEW cells \in Seq(Cells), Len(cells) <= Size(t), NEW r, r = WriteBuf(t, cells)
  PROVE  /\ r \in Tasks /\ r.ptr = t.ptr + Len(cells) /\ r.length = t.length + Len(cells)
         /\ WrittenTo(t.buffer, r.buffer, t.ptr, cells)
         /\ r.ptr <= Size(r)
         /\ t.ptr + Len(cells) <= Size(t) => Size(r) = Size(t)
<1>. DEFINE n == Len(cells)
<1>. PICK c : c = CheckResize(t, n)
  OBVIOUS
<1>0. n \in Nat /\ DOMAIN cells = 1 .. n /\ \A k \in 1 .. n : cells[k] \in Cells
  BY LenProperties
<1>. HIDE DEF n
<1>1. /\ c \in Tasks /\ Grown(t.buffer, c.buffer, 0) /\ t.ptr + n <= Size(c)
      /\ t.ptr + n <= Size(t) => c.buffer = t.buffer
  BY <1>0, CheckResizeGrows DEF n
<1>2. /\ t.ptr \in Nat /\ t.length \in Nat /\ c.buffer \in Seq(Cells) /\ t.buffer \in Seq(Cells)
      /\ Len(t.buffer) \in Nat /\ Len(c.buffer) \in Nat /\ Len(c.buffer) >= Len(t.buffer)
      /\ DOMAIN c.buffer = 1 .. Len(c.buffer)
      /\ \A i \in 1 .. Len(c.buffer) : c.buffer[i] \in Cells
      /\ \A i \in 1 .. Len(t.buffer) : c.buffer[i] = t.buffer[i]
  BY <1>1, LenProperties DEF Tasks, Grown
<1>. DEFINE b == Overwritten(c.buffer, t.ptr, cells)
<1>3. b = [k \in 1 .. Len(c.buffer) |-> IF k - t.ptr \in 1 .. n THEN cells[k - t.ptr] ELSE c.buffer[k]]
  BY <1>0, <1>2 DEF Overwritten
<1>4. b \in Seq(Cells) /\ Len(b) = Len(c.buffer)
  <2>1. \A k \in 1 .. Len(c.buffer) :
          (IF k - t.ptr \in 1 .. n THEN cells[k - t.ptr] ELSE c.buffer[k]) \in Cells
    BY <1>0, <1>2
  <2>. QED  BY <1>2, <1>3, <2>1
<1>5. \A i \in 1 .. Len(t.buffer) : i <= t.ptr \/ i > t.ptr + n => b[i] = t.buffer[i]
  BY <1>0, <1>2, <1>3
<1>6. \A k \in 1 .. n : b[t.ptr + k] = cells[k]
  <2>1. \A k \in 1 .. n : t.ptr + k \in 1 .. Len(c.buffer) /\ (t.ptr + k) - t.ptr = k
    BY <1>0, <1>1, <1>2 DEF Size
  <2>. QED  BY <1>3, <2>1
<1>. HIDE DEF b
<1>7. WrittenTo(t.buffer, b, t.ptr, cells)
  BY <1>2, <1>4, <1>5, <1>6 DEF WrittenTo, n
<1>8. r = [buffer |-> b, ptr |-> t.ptr + n, length |-> t.length + n]
  BY DEF WriteBuf, b, n
<1>9. t.ptr + n \in Nat /\ t.length + n \in Nat
  BY <1>0, <1>2
<1>. QED  BY <1>1, <1>2, <1>4, <1>7, <1>8, <1>9 DEF Tasks, Size, n

LEMMA BackPatchWrites ==
  ASSUME NEW t \in Tasks, t.ptr <= Size(t), NEW offset \in Nat, offset < t.ptr,
         NEW cell \in Cells, NEW r, r = BackPatch(t, offset, cell)
  PROVE  /\ r \in Tasks /\ r.ptr = t.ptr /\ r.length = t.length + 1 /\ Size(r) = Size(t)
         /\ r.buffer[offset + 1] = cell
         /\ \A i \in 1 .. Size(t) : i # offset + 1 => r.buffer[i] = t.buffer[i]
<1>1. /\ t.buffer \in Seq(Cells) /\ t.ptr \in Nat /\ t.length \in Nat /\ Size(t) \in Nat
      /\ ~(offset > Size(t)) /\ ~(t.ptr > Size(t)) /\ Size(t) >= 1
  BY LenProperties DEF Tasks, Size
<1>2. PICK s : s = [t EXCEPT !.ptr = offset]
  OBVIOUS
<1>3. s \in Tasks /\ s.ptr = offset /\ s.length = t.length /\ s.buffer = t.buffer
  BY <1>1, <1>2 DEF Tasks
<1>4. PICK u : u = WriteBuf(s, <<cell>>)
  OBVIOUS
<1>5. <<cell>> \in Seq(Cells) /\ Len(<<cell>>) = 1 /\ <<cell>>[1] = cell
  OBVIOUS
<1>6. Size(s) = Size(t) /\ s.ptr + 1 <= Size(s) /\ s.ptr <= Size(s)
  BY <1>1, <1>3 DEF Size
<1>7. /\ u \in Tasks /\ u.length = s.length + 1 /\ Size(u) = Size(s)
      /\ WrittenTo(s.buffer, u.buffer, s.ptr, <<cell>>)
  <2>. DEFINE cells == <<cell>>
  <2>1. cells \in Seq(Cells) /\ Len(cells) = 1 /\ u = WriteBuf(s, cells)
    BY <1>4, <1>5
  <2>. HIDE DEF cells
  <2>2. /\ u \in Tasks /\ u.length = s.length + Len(cells)
        /\ WrittenTo(s.buffer, u.buffer, s.ptr, cells)
        /\ s.ptr + Len(cells) <= Size(s) => Size(u) = Size(s)
    BY <1>1, <1>3, <1>6, <2>1, WriteBufWrites
  <2>. QED  BY <1>6, <2>1, <2>2 DEF cells
<1>8. /\ \A i \in 1 .. Size(t) : i # offset + 1 => u.buffer[i] = t.buffer[i]
      /\ u.buffer[offset + 1] = cell
  <2>1. /\ \A i \in 1 .. Len(t.buffer) : i <= offset \/ i > offset + 1 => u.buffer[i] = t.buffer[i]
        /\ \A k \in 1 .. 1 : u.buffer[offset + k] = <<cell>>[k]
    BY <1>3, <1>5, <1>7 DEF WrittenTo
  <2>. QED  BY <1>5, <2>1 DEF Size
<1>9. SetOffset(t, offset) = s
  BY <1>1, <1>2 DEF SetOffset
<1>10. r = SetOffset(u, t.ptr)
  BY <1>4, <1>9 DEF BackPatch
<1>11. r = [u EXCEPT !.ptr = t.ptr]
  <2>1. ~(t.ptr > Size(u))
    BY <1>1, <1>6, <1>7
  <2>. QED  BY <1>10, <2>1 DEF SetOffset
<1>12. /\ r \in Tasks /\ r.ptr = t.ptr /\ r.length = u.length /\ r.buffer = u.buffer
  BY <1>1, <1>7, <1>11 DEF Tasks
<1>. QED  BY <1>3, <1>6, <1>7, <1>8, <1>12 DEF Size

-----------------------------------------------------------------------------
(***************************************************************************)
(* The layout depends on the cells behind the first one only, and is       *)
(* extended by one plugin at a time.                                       *)
(***************************************************************************)
LEMMA RecordsSame ==
  ASSUME NEW b, NEW c, NEW p, NEW r \in Seq(Nat), NEW n \in 0 .. Len(r), NEW f \in Places,
         RecordsAt(b, p, r, n, f), \A k \in f[1] + 1 .. f[n + 1] : c[k] = b[k]
  PROVE  RecordsAt(c, p, r, n, f)
<1>. SUFFICES ASSUME NEW i \in 1 .. n
              PROVE  RecordAt(c, p, i, r[i], f[i])
  BY DEF RecordsAt
<1>1. /\ Len(r) \in Nat /\ i \in Nat /\ i + 1 \in Nat /\ n + 1 \in Nat /\ 1 \in Nat /\ r[i] \in Nat
  BY LenProperties
<1>2. f[1] \in Nat /\ f[i] \in Nat /\ f[i + 1] \in Nat /\ f[n + 1] \in Nat
  BY <1>1 DEF Places
<1>3. /\ f[i + 1] = f[i] + 1 + r[i] /\ f[1] <= f[i] /\ f[i + 1] <= f[n + 1]
      /\ b[f[i] + 1] = ChunkHeader(p, i, r[i])
      /\ \A j \in 1 .. r[i] : b[f[i] + 1 + j] = Byte(p, i, j)
  BY DEF RecordsAt, RecordAt, BytesAt
<1>4. \A k \in 0 .. r[i] : f[i] + 1 + k \in f[1] + 1 .. f[n + 1]
  <2>. SUFFICES ASSUME NEW first \in Nat, NEW o \in Nat, NEW last \in Nat, NEW m \in Nat, NEW next \in Nat,
                       first <= o, next = o + 1 + m, next <= last
                PROVE  \A k \in 0 .. m : o + 1 + k \in first + 1 .. last
    BY <1>1, <1>2, <1>3
  <2>. QED  OBVIOUS
<1>5. c[f[i] + 1] = b[f[i] + 1]
  <2>1. 0 \in 0 .. r[i] /\ f[i] + 1 + 0 = f[i] + 1
    BY <1>1, <1>2
  <2>. QED  BY <1>4, <2>1
<1>6. \A j \in 1 .. r[i] : c[f[i] + 1 + j] = b[f[i] + 1 + j]
  <2>1. \A j \in 1 .. r[i] : j \in 0 .. r[i]
    BY <1>1
  <2>. QED  BY <1>4, <2>1
<1>. QED  BY <1>3, <1>5, <1>6 DEF RecordAt, BytesAt

Lengths == [Owners -> Seq(Nat)]

LEMMA OffsetTypes ==
  ASSUME NEW at \in Offsets, NEW w \in Lengths, NEW p \in Owners
  PROVE  /\ at[p] \in Places /\ w[p] \in Seq(Nat) /\ Len(w[p]) \in Nat
         /\ \A i \in Nat : at[p][i] \in Nat
         /\ at[p][1] \in Nat /\ End(w, at, p) \in Nat
<1>1. at[p] \in Places /\ w[p] \in Seq(Nat)
  BY DEF Offsets, Lengths
<1>2. Len(w[p]) \in Nat /\ Len(w[p]) + 1 \in Nat /\ 1 \in Nat
  BY <1>1, LenProperties
<1>3. \A i \in Nat : at[p][i] \in Nat
  BY <1>1 DEF Places
<1>. QED  BY <1>1, <1>2, <1>3 DEF End

LEMMA RecordsAscend ==
  ASSUME NEW b, NEW p, NEW r \in Seq(Nat), r # <<>>, NEW f \in Places, RecordsAt(b, p, r, Len(r), f)
  PROVE  f[1] < f[Len(r) + 1]
<1>0. Len(r) \in Nat /\ Len(r) # 0
  OBVIOUS
<1>1. /\ Len(r) \in Nat /\ 1 \in 1 .. Len(r) /\ r[1] \in Nat
      /\ f[1] \in Nat /\ f[2] \in Nat /\ f[Len(r) + 1] \in Nat
  <2>1. 1 \in 1 .. Len(r) /\ 1 \in Nat /\ 2 \in Nat /\ Len(r) + 1 \in Nat
    BY <1>0
  <2>2. r[1] \in Nat
    BY <2>1
  <2>3. f[1] \in Nat /\ f[2] \in Nat /\ f[Len(r) + 1] \in Nat
    BY <2>1 DEF Places
  <2>. QED  BY <2>1, <2>2, <2>3
<1>2. f[1 + 1] = f[1] + 1 + r[1] /\ f[1 + 1] <= f[Len(r) + 1]
  BY <1>1 DEF RecordsAt
<1>. QED  BY <1>1, <1>2

LEMMA TiledSame ==
  ASSUME NEW b, NEW c, NEW w \in Lengths, NEW at \in Offsets, NEW last \in Nat,
         Tiled(b, w, at, last), \A k \in 2 .. last : c[k] = b[k]
  PROVE  Tiled(c, w, at, last)
<1>. SUFFICES ASSUME NEW p \in HasData(w)
              PROVE  PluginAt(c, w, at, p)
  BY DEF Tiled
<1>1. p \in Owners /\ w[p] # <<>>
  BY DEF HasData
<1>. DEFINE n == Len(w[p])
            f == at[p]
<1>2. /\ f \in Places /\ w[p] \in Seq(Nat) /\ n \in Nat
      /\ f[1] \in Nat /\ f[n + 1] \in Nat
  BY <1>1, OffsetTypes DEF End
<1>3. /\ f[1] >= 2 /\ b[f[1]] = PluginHeader(p, n, f[n + 1] - f[1])
      /\ RecordsAt(b, p, w[p], n, f) /\ f[n + 1] <= last
  BY DEF Tiled, PluginAt, End
<1>4. f[1] < f[n + 1]
  BY <1>1, <1>2, <1>3, RecordsAscend
<1>. HIDE DEF f
<1>5. \A k \in f[1] .. f[n + 1] : c[k] = b[k]
  BY <1>2, <1>3
<1>6. RecordsAt(c, p, w[p], n, f)
  <2>1. n \in 0 .. Len(w[p]) /\ \A k \in f[1] + 1 .. f[n + 1] : c[k] = b[k]
    BY <1>2, <1>5
  <2>. QED  BY <1>2, <1>3, <2>1, RecordsSame
<1>7. c[f[1]] = b[f[1]]
  BY <1>2, <1>4, <1>5
<1>. QED  BY <1>3, <1>6, <1>7 DEF PluginAt, End, f

LEMMA TiledMore ==
  ASSUME NEW b, NEW w \in Lengths, NEW at \in Offsets, NEW s \in Nat, Tiled(b, w, at, s), s >= 1,
         NEW p \in Owners, w[p] = <<>>, NEW r \in Seq(Nat), r # <<>>,
         NEW f \in Places, f[1] = s + 1, NEW e, e = f[Len(r) + 1],
         b[s + 1] = PluginHeader(p, Len(r), e - f[1]), RecordsAt(b, p, r, Len(r), f),
         NEW v, v = [w EXCEPT ![p] = r]
  PROVE  \E g \in Offsets : Tiled(b, v, g, e)
<1>. DEFINE g == [at EXCEPT ![p] = f]
<1>1. /\ g \in Offsets /\ g[p] = f /\ v \in Lengths /\ v[p] = r
      /\ \A q \in Owners : q # p => g[q] = at[q] /\ v[q] = w[q]
  BY DEF Offsets, Lengths
<1>2. HasData(v) = HasData(w) \cup {p} /\ p \notin HasData(w)
  BY <1>1 DEF HasData
<1>3. e \in Nat /\ f[1] < e
  <2>1. Len(r) + 1 \in Nat
    OBVIOUS
  <2>2. f[1] < f[Len(r) + 1]
    BY RecordsAscend
  <2>. QED  BY <2>1, <2>2 DEF Places
<1>. HIDE DEF g
<1>4. \A q \in HasData(w) :
        /\ q \in Owners /\ q # p /\ g[q] = at[q] /\ v[q] = w[q] /\ End(v, g, q) = End(w, at, q)
        /\ End(w, at, q) \in Nat /\ at[q][1] \in Nat
  BY <1>1, OffsetTypes DEF HasData, End
<1>5. End(v, g, p) = e /\ g[p][1] = s + 1
  BY <1>1 DEF End
<1>6. \A o \in Nat : Boundary(w, at, s, o) => Boundary(v, g, e, o)
  BY <1>2, <1>4, <1>5 DEF Boundary
<1>7. Boundary(v, g, e, 1)
  BY <1>6 DEF Tiled
<1>8. ASSUME NEW q \in HasData(w)
      PROVE  PluginAt(b, v, g, q) /\ End(v, g, q) <= e /\ Boundary(v, g, e, End(v, g, q)) /\ End(v, g, q) <= s
  <2>1. PluginAt(b, w, at, q) /\ End(w, at, q) <= s /\ Boundary(w, at, s, End(w, at, q))
    BY DEF Tiled
  <2>2. PluginAt(b, v, g, q)
    BY <1>4, <2>1 DEF PluginAt
  <2>3. End(v, g, q) = End(w, at, q) /\ End(w, at, q) \in Nat
    BY <1>4
  <2>4. Boundary(v, g, e, End(v, g, q))
    BY <1>6, <2>1, <2>3
  <2>5. End(v, g, q) <= s /\ s < e
    BY <1>3, <2>1, <2>3
  <2>. QED  BY <1>3, <2>2, <2>3, <2>4, <2>5
<1>9. PluginAt(b, v, g, p) /\ End(v, g, p) <= e /\ Boundary(v, g, e, End(v, g, p))
  BY <1>1, <1>3, <1>5 DEF PluginAt, Boundary
<1>10. ASSUME NEW q1 \in HasData(v), NEW q2 \in HasData(v), q1 # q2
       PROVE  End(v, g, q1) < g[q2][1] \/ End(v, g, q2) < g[q1][1]
  <2>1. CASE q1 \in HasData(w) /\ q2 \in HasData(w)
    BY <1>4, <1>10, <2>1 DEF Tiled
  <2>2. CASE q1 = p
    <3>1. q2 \in HasData(w)
      BY <1>2, <1>10, <2>2
    <3>2. End(v, g, q2) \in Nat /\ End(v, g, q2) <= s /\ g[q1][1] = s + 1
      BY <1>4, <1>5, <1>8, <2>2, <3>1
    <3>. QED  BY <3>2
  <2>3. CASE q2 = p
    <3>1. q1 \in HasData(w)
      BY <1>2, <1>10, <2>3
    <3>2. End(v, g, q1) \in Nat /\ End(v, g, q1) <= s /\ g[q2][1] = s + 1
      BY <1>4, <1>5, <1>8, <2>3, <3>1
    <3>. QED  BY <3>2
  <2>. QED  BY <1>2, <2>1, <2>2, <2>3
<1>11. Tiled(b, v, g, e)
  BY <1>2, <1>7, <1>8, <1>9, <1>10 DEF Tiled
<1>. QED  BY <1>1, <1>11

-----------------------------------------------------------------------------
(***************************************************************************)
(* Cells, and what is computed from a few numbers.                         *)
(***************************************************************************)
LEMMA CellKinds ==
  /\ Blank \in Cells /\ FileHeader \in Cells
  /\ OtherHeader \in Cells /\ ScrapHeader \in Cells /\ OtherHeader # FileHeader
  /\ PluginHeaders \subseteq Cells /\ ChunkHeaders \subseteq Cells
  /\ \A p \in Owners : \A i, j \in Nat : Byte(p, i, j) \in Cells
  /\ \A c \in Cells : /\ c.cell = "plugin" => c \in PluginHeaders
                      /\ c.cell = "chunk" => c \in ChunkHeaders
<1>1. \A c \in PluginHeaders : c.cell = "plugin"
  BY DEF PluginHeaders
<1>2. \A c \in ChunkHeaders : c.cell = "chunk"
  BY DEF ChunkHeaders
<1>3. \A c \in [cell : {"byte"}, owner : Owners, record : Nat, at : Nat] : c.cell = "byte"
  OBVIOUS
<1>4. /\ Blank.cell = "blank" /\ FileHeader.cell = "file"
      /\ OtherHeader.cell = "other" /\ ScrapHeader.cell = "scrap"
  BY DEF Blank, FileHeader, OtherHeader, ScrapHeader
<1>5. \A p \in Owners : \A i, j \in Nat : Byte(p, i, j) \in Cells
  BY DEF Byte, Cells
<1>. QED  BY <1>1, <1>2, <1>3, <1>4, <1>5 DEF Cells

LEMMA HeaderTypes ==
  /\ \A p \in Owners \cup {NoBase} : \A n, l \in Nat : PluginHeader(p, n, l) \in PluginHeaders
  /\ \A p \in Owners : \A n, l \in Nat : ChunkHeader(p, n, l) \in ChunkHeaders
  /\ \A c \in Cells : LengthIn(c) \in Nat /\ ChunkIn(c) \in ChunkHeaders
  /\ \A c \in Cells : LengthIn(c) > 0 => c \in PluginHeaders /\ c.length = LengthIn(c)
<1>1. /\ \A p \in Owners \cup {NoBase} : \A n, l \in Nat : PluginHeader(p, n, l) \in PluginHeaders
      /\ \A p \in Owners : \A n, l \in Nat : ChunkHeader(p, n, l) \in ChunkHeaders
  BY DEF PluginHeader, ChunkHeader, PluginHeaders, ChunkHeaders
<1>2. NoChunk.header \in ChunkHeaders
  <2>1. Core \in Owners /\ 0 \in Nat
    BY DEF Owners
  <2>2. ChunkHeader(Core, 0, 0) \in ChunkHeaders
    BY <1>1, <2>1
  <2>. QED  BY <2>2 DEF NoChunk
<1>3. \A c \in PluginHeaders : c.length \in Nat
  BY DEF PluginHeaders
<1>. QED  BY <1>1, <1>2, <1>3, CellKinds DEF LengthIn, ChunkIn

LEMMA NothingTypes ==
  /\ NoTask \in Tasks
  /\ NoPlugin \in [header : PluginHeaders, offset : Nat]
  /\ NoChunk \in [header : ChunkHeaders, offset : Nat, open : BOOLEAN]
<1>1. NoBase \in Owners \cup {NoBase} /\ Core \in Owners /\ 0 \in Nat
  BY DEF Owners
<1>2. PluginHeader(NoBase, 0, 0) \in PluginHeaders /\ ChunkHeader(Core, 0, 0) \in ChunkHeaders
  BY <1>1, HeaderTypes
<1>3. <<>> \in Seq(Cells)
  OBVIOUS
<1>. QED  BY <1>1, <1>2, <1>3 DEF NoTask, NoPlugin, NoChunk, Tasks

LEMMA LeastOf ==
  ASSUME NEW a \in Nat, NEW b \in Nat
  PROVE  Min({a, b}) = IF a <= b THEN a ELSE b
<1>1. {a, b} \subseteq Nat /\ {a, b} # {}
  OBVIOUS
<1>2. Min({a, b}) \in {a, b} /\ \A y \in {a, b} : Min({a, b}) <= y
  BY <1>1, MinProperty
<1>. QED  BY <1>2

LEMMA GreatestOf ==
  ASSUME NEW a \in Nat, NEW b \in Nat
  PROVE  Max({a, b}) \in Nat /\ a <= Max({a, b}) /\ b <= Max({a, b})
<1>1. {a, b} \subseteq 0 .. a + b /\ {a, b} # {} /\ a + b \in Nat
  OBVIOUS
<1>2. Max({a, b}) \in {a, b} /\ \A y \in {a, b} : y <= Max({a, b})
  BY <1>1, MaxProperty
<1>. QED  BY <1>2

LEMMA RemainIs ==
  ASSUME NEW x \in Nat, x < WordSize
  PROVE  x % WordSize = x
<1>. QED  BY ConstantsAssumption

LEMMA BlanksType ==
  ASSUME NEW n \in Nat
  PROVE  Blanks(n) \in Seq(Cells) /\ Len(Blanks(n)) = n
<1>1. Blank \in Cells
  BY CellKinds
<1>. QED  BY <1>1 DEF Blanks

-----------------------------------------------------------------------------
(***************************************************************************)
(* Handles.                                                                *)
(***************************************************************************)
LEMMA HandleTypes ==
  ASSUME TypeOK, SessionFits
  PROVE  /\ Len(loaded) \in Nat
         /\ \A h \in Handles : PluginOf(h) \in Owners
         /\ \A g, h \in Handles : PluginOf(g) = PluginOf(h) => g = h
<1>1. loaded \in Seq(Plugins) /\ Len(loaded) \in Nat /\ \A h \in 1 .. Len(loaded) : loaded[h] \in Plugins
  BY LenProperties DEF TypeOK
<1>2. \A h \in Handles : h = 0 \/ h \in 1 .. Len(loaded)
  BY <1>1 DEF Handles
<1>3. \A h \in 1 .. Len(loaded) : h # 0
  BY <1>1
<1>4. \A h \in Handles : PluginOf(h) \in Owners
  BY <1>1, <1>2 DEF PluginOf, Owners
<1>5. ASSUME NEW g \in Handles, NEW h \in Handles, PluginOf(g) = PluginOf(h)
      PROVE  g = h
  <2>1. Core \notin Plugins
    BY ConstantsAssumption
  <2>2. CASE g = 0
    BY <1>1, <1>2, <1>3, <1>5, <2>1, <2>2 DEF PluginOf
  <2>3. CASE h = 0
    BY <1>1, <1>2, <1>3, <1>5, <2>1, <2>3 DEF PluginOf
  <2>4. CASE g # 0 /\ h # 0
    BY <1>2, <1>5, <2>4 DEF PluginOf, SessionFits
  <2>. QED  BY <2>2, <2>3, <2>4
<1>. QED  BY <1>1, <1>4, <1>5

LEMMA CallbacksSizeIs ==
  ASSUME TypeOK, SessionFits
  PROVE  /\ CallbacksSize \in Nat /\ \A h \in Handles : registers[PluginOf(h)] # {} => h < CallbacksSize
         /\ \A h \in Nat : h < CallbacksSize => h \in Handles
<1>. DEFINE S == {h \in Handles : registers[PluginOf(h)] # {}}
<1>1. Len(loaded) \in Nat
  BY HandleTypes
<1>2. S \subseteq 0 .. Len(loaded)
  BY DEF Handles
<1>3. 0 \in S
  BY <1>1 DEF SessionFits, Handles, PluginOf, Kinds
<1>4. Max(S) \in S /\ \A h \in S : h <= Max(S)
  <2>. HIDE DEF S
  <2>1. S # {}
    BY <1>3
  <2>. QED  BY <1>1, <1>2, <2>1, MaxProperty
<1>5. CallbacksSize = 1 + Max(S)
  BY DEF CallbacksSize
<1>6. Max(S) \in 0 .. Len(loaded)
  BY <1>2, <1>4
<1>7. \A h \in Handles : registers[PluginOf(h)] # {} => h \in S
  OBVIOUS
<1>. DEFINE m == Max(S)
<1>8. m \in 0 .. Len(loaded) /\ CallbacksSize = 1 + m /\ \A h \in S : h <= m
  BY <1>4, <1>5, <1>6
<1>. HIDE DEF m, S
<1>9. \A h \in 0 .. Len(loaded) : h \in S => h < CallbacksSize
  BY <1>1, <1>8
<1>10. CallbacksSize \in Nat /\ \A h \in Nat : h < CallbacksSize => h \in 0 .. Len(loaded)
  BY <1>1, <1>8
<1>. QED  BY <1>7, <1>9, <1>10 DEF Handles

(***************************************************************************)
(* Of a record of the invariant, what many proofs below need.              *)
(***************************************************************************)
LEMMA Types ==
  ASSUME Inv
  PROVE  /\ TypeOK /\ SessionFits
         /\ loaded \in Seq(Plugins) /\ registers \in [Owners -> SUBSET Kinds]
         /\ file \in Seq(Cells) /\ task \in Tasks
         /\ task.ptr \in Nat /\ task.length \in Nat /\ Size(task) \in Nat
         /\ task.buffer \in Seq(Cells)
         /\ plugin \in [header : PluginHeaders, offset : Nat]
         /\ chunk \in [header : ChunkHeaders, offset : Nat, open : BOOLEAN]
         /\ lastLoadSize \in Nat /\ handle \in Nat /\ chunkStart \in Nat
         /\ hadData \subseteq Handles /\ pass \in {"preLoad", "load"}
         /\ written \in Lengths /\ saved \in Lengths /\ torn \in BOOLEAN
         /\ got \in Nat \X Nat /\ told \in [Owners -> Seq({"data", "none", "new"})]
<1>1. task \in Tasks
  BY DEF Inv, BufferSound, TypeOK, Tasks
<1>2. task.buffer \in Seq(Cells) /\ task.ptr \in Nat /\ task.length \in Nat
  BY <1>1 DEF Tasks
<1>3. Size(task) \in Nat
  BY <1>2, LenProperties DEF Size
<1>. QED  BY <1>1, <1>2, <1>3 DEF Inv, BufferSound, TypeOK, Lengths

Calls == Seq({"data", "none", "new"})

LEMMA NotedCalls ==
  ASSUME NEW calls \in Calls, NEW how \in {"data", "none", "new"}
  PROVE  /\ Noted(calls, how) \in Calls /\ Noted(calls, how) # <<>>
         /\ calls = <<>> => Noted(calls, how) = <<how>>
<1>1. Append(calls, how) \in Calls /\ Append(calls, how) # <<>>
  BY DEF Calls
<1>2. Len(<<>>) = 0 /\ Append(<<>>, how) = <<how>>
  OBVIOUS
<1>3. Len(calls) \in Nat /\ (calls = <<>> => Len(calls) = 0)
  BY <1>2, LenProperties DEF Calls
<1>. DEFINE n == Len(calls)
<1>4. CASE n < 2
  <2>1. Noted(calls, how) = Append(calls, how)
    BY <1>4 DEF Noted
  <2>. QED  BY <1>1, <1>2, <2>1
<1>5. CASE ~(n < 2)
  <2>1. Noted(calls, how) = calls
    BY <1>5 DEF Noted
  <2>2. calls # <<>>
    <3>1. n # 0
      BY <1>3, <1>5
    <3>. QED  BY <1>3, <3>1
  <2>. QED  BY <2>1, <2>2
<1>. QED  BY <1>4, <1>5

LEMMA ToldNewGameCalls ==
  ASSUME NEW t \in [Owners -> Calls]
  PROVE  /\ ToldNewGame(t) \in [Owners -> Calls]
         /\ TypeOK /\ SessionFits => \A h \in Handles :
              "newGame" \in registers[PluginOf(h)] => ToldNewGame(t)[PluginOf(h)] # <<>>
<1>1. \A p \in Owners : Noted(t[p], "new") \in Calls /\ Noted(t[p], "new") # <<>> /\ t[p] \in Calls
  BY NotedCalls
<1>. QED  BY <1>1, HandleTypes DEF ToldNewGame

-----------------------------------------------------------------------------
(***************************************************************************)
(* At rest nothing is said of the buffer.                                  *)
(***************************************************************************)
LEMMA Rests ==
  ASSUME Inv, Forget, pc' \in {"playing", "preloaded", "killed"},
         loaded' \in Seq(Plugins), registers' \in [Owners -> SUBSET Kinds], SessionFits',
         file' \in Seq(Cells), saved' \in Lengths, torn' \in BOOLEAN, DiskFits',
         lastLoadSize' \in Nat, pass' \in {"preLoad", "load"}, told' \in [Owners -> Calls]
  PROVE  Inv'
<1>1. TypeOK'
  <2>1. NoneWritten \in Lengths
    BY DEF NoneWritten, Lengths
  <2>. QED  BY <2>1, NothingTypes DEF TypeOK, Forget, Tasks, Lengths, Calls
<1>2. InBuffer' /\ LengthAccounts'
  BY DEF InBuffer, LengthAccounts, Forget, NoTask, Size
<1>3. ReadsWhatWasWritten' /\ RestFits'
  BY DEF ReadsWhatWasWritten, RestFits, Forget, NothingRead
<1>4. SavingFits' /\ WritingFits' /\ WalkFits' /\ LoadingFits' /\ ToldFits'
  BY DEF SavingFits, WritingFits, WalkFits, LoadingFits, ToldFits, Loading
<1>. QED  BY <1>1, <1>2, <1>3, <1>4 DEF Inv, BufferSound

LEMMA InitInv == Init => Inv
<1>. SUFFICES ASSUME Init
              PROVE  Inv
  OBVIOUS
<1>1. TypeOK
  <2>1. /\ NoneWritten \in [Owners -> Seq(Nat)] /\ NobodyTold \in [Owners -> Seq({"data", "none", "new"})]
        /\ <<>> \in Seq(Plugins) /\ <<>> \in Seq(Cells)
    BY DEF NoneWritten, NobodyTold
  <2>2. [p \in Owners |-> IF p = Core THEN Kinds ELSE {}] \in [Owners -> SUBSET Kinds]
    OBVIOUS
  <2>. QED  BY <2>1, <2>2, NothingTypes DEF TypeOK, Init, Tasks, NoFile
<1>2. InBuffer /\ LengthAccounts
  BY DEF InBuffer, LengthAccounts, Init, NoTask, Size
<1>3. ReadsWhatWasWritten /\ RestFits
  BY DEF ReadsWhatWasWritten, RestFits, Init, NothingRead
<1>4. SavingFits /\ WritingFits /\ WalkFits /\ LoadingFits /\ ToldFits
  BY DEF SavingFits, WritingFits, WalkFits, LoadingFits, ToldFits, Loading, Init
<1>5. SessionFits /\ DiskFits
  <2>1. Core \in Owners /\ Len(<<>>) = 0
    BY DEF Owners
  <2>. QED  BY <2>1 DEF SessionFits, DiskFits, Init
<1>. QED  BY <1>1, <1>2, <1>3, <1>4, <1>5 DEF Inv, BufferSound

LEMMA DiskSame ==
  ASSUME DiskFits, UNCHANGED disk
  PROVE  DiskFits'
<1>. QED  BY DEF DiskFits, disk

LEMMA SessionSame ==
  ASSUME SessionFits, UNCHANGED session
  PROVE  SessionFits'
<1>. QED  BY DEF SessionFits, session

LEMMA RestartInv ==
  ASSUME Inv, Restart
  PROVE  Inv'
<1>1. /\ Forget /\ pc' = "playing" /\ UNCHANGED disk /\ told' = NobodyTold /\ lastLoadSize' = 0
      /\ pass' = "load" /\ loaded' \in Orders
  BY DEF Restart
<1>2. PICK r \in [Plugins -> UNION {Habits[p] : p \in Plugins}] :
        registers' = [p \in Owners |-> IF p = Core THEN Kinds ELSE r[p]]
  BY DEF Restart
<1>3. /\ registers' \in [Owners -> SUBSET Kinds] /\ registers'[Core] = Kinds
  <2>1. UNION {Habits[p] : p \in Plugins} \subseteq SUBSET Kinds
    <3>1. \A p \in Plugins : Habits[p] \subseteq SUBSET Kinds
      BY ConstantsAssumption
    <3>. QED  BY <3>1
  <2>2. \A p \in Owners : p # Core => p \in Plugins
    BY DEF Owners
  <2>3. \A p \in Plugins : r[p] \in SUBSET Kinds
    BY <2>1
  <2>4. Core \in Owners /\ Kinds \in SUBSET Kinds
    BY DEF Owners
  <2>. QED  BY <1>2, <2>2, <2>3, <2>4
<1>4. /\ loaded' \in Seq(Plugins)
      /\ \A i, j \in 1 .. Len(loaded') : loaded'[i] = loaded'[j] => i = j
  <2>1. PICK n \in 0 .. Cardinality(Plugins) : loaded' \in {f \in [1 .. n -> Plugins] : IsInjective(f)}
    BY <1>1 DEF Orders
  <2>2. n \in Nat
    BY <2>1
  <2>3. loaded' \in [1 .. n -> Plugins] /\ IsInjective(loaded')
    BY <2>1
  <2>4. loaded' \in Seq(Plugins) /\ Len(loaded') = n
    BY <2>2, <2>3
  <2>. QED  BY <2>3, <2>4 DEF IsInjective
<1>5. SessionFits' /\ DiskFits'
  BY <1>1, <1>3, <1>4, DiskSame DEF SessionFits, Inv
<1>6. NobodyTold \in [Owners -> Calls]
  BY DEF NobodyTold, Calls
<1>. QED  BY <1>1, <1>3, <1>4, <1>5, <1>6, Types, Rests DEF disk

LEMMA LoadThrowsInv ==
  ASSUME Inv, LoadThrows, UNCHANGED <<session, disk, lastLoadSize, pass>>
  PROVE  Inv'
<1>1. /\ pc' = AfterPass /\ Forget
      /\ told' = IF pass = "load" THEN ToldNewGame(told) ELSE told
  BY DEF LoadThrows
<1>2. pc' \in {"playing", "preloaded", "killed"}
  BY <1>1 DEF AfterPass
<1>3. told' \in [Owners -> Calls]
  BY <1>1, Types, ToldNewGameCalls DEF Calls
<1>4. SessionFits' /\ DiskFits'
  BY SessionSame, DiskSame DEF Inv
<1>. QED  BY <1>1, <1>2, <1>3, <1>4, Types, Rests DEF disk, session

LEMMA LoadEndsInv ==
  ASSUME Inv, LoadEnds
  PROVE  Inv'
<1>1. /\ pc' = AfterPass /\ Forget /\ UNCHANGED <<session, disk, lastLoadSize, pass>>
      /\ told' = [p \in Owners |->
                IF \E h \in Handles \ hadData : PluginOf(h) = p /\ HasCallback(h, pass)
                THEN Noted(told[p], "none") ELSE told[p]]
  BY DEF LoadEnds
<1>2. pc' \in {"playing", "preloaded", "killed"}
  BY <1>1 DEF AfterPass
<1>3. told' \in [Owners -> Calls]
  <2>1. \A p \in Owners : told[p] \in Calls /\ Noted(told[p], "none") \in Calls
    BY Types, NotedCalls DEF Calls
  <2>. QED  BY <1>1, <2>1
<1>4. SessionFits' /\ DiskFits'
  BY <1>1, SessionSame, DiskSame DEF Inv
<1>. QED  BY <1>1, <1>2, <1>3, <1>4, Types, Rests DEF disk, session

LEMMA SaveThrowsInv ==
  ASSUME Inv, SaveThrows
  PROVE  Inv'
<1>1. /\ pc' = "playing" /\ Forget /\ UNCHANGED <<session, disk, lastLoadSize, pass, told>>
  BY DEF SaveThrows
<1>2. SessionFits' /\ DiskFits'
  BY <1>1, SessionSame, DiskSame DEF Inv
<1>. QED  BY <1>1, <1>2, Types, Rests DEF disk, session, Calls

-----------------------------------------------------------------------------
(***************************************************************************)
(* A save.                                                                 *)
(***************************************************************************)
LEMMA WholeFile ==
  ASSUME Inv, pc = "saving"
  PROVE  /\ Whole \in Seq(Cells) /\ Len(Whole) = task.ptr /\ Whole # NoFile
         /\ \A k \in 2 .. task.ptr : Whole[k] = task.buffer[k]
<1>1. /\ task \in Tasks /\ task.ptr \in Nat /\ task.length \in Nat /\ Size(task) \in Nat
      /\ 1 <= task.ptr /\ task.ptr <= Size(task) /\ task.ptr = task.length + 1
  BY Types DEF Inv, BufferSound, InBuffer, LengthAccounts, SavingFits, TaskFits
<1>2. PICK s : s = [task EXCEPT !.ptr = 0]
  OBVIOUS
<1>3. /\ s \in Tasks /\ s.ptr = 0 /\ s.length = task.length /\ s.buffer = task.buffer
      /\ Size(s) = Size(task) /\ SetOffset(task, 0) = s
  <2>1. ~(0 > Size(task))
    BY <1>1
  <2>. QED  BY <1>1, <1>2, <2>1 DEF Tasks, SetOffset, Size
<1>4. <<FileHeader>> \in Seq(Cells) /\ Len(<<FileHeader>>) = 1
  BY CellKinds
<1>5. PICK t : t = WriteBuf(s, <<FileHeader>>)
  OBVIOUS
<1>6. /\ t \in Tasks /\ t.length = s.length + 1
      /\ WrittenTo(s.buffer, t.buffer, s.ptr, <<FileHeader>>)
  <2>1. PICK cells : cells = <<FileHeader>>
    OBVIOUS
  <2>2. cells \in Seq(Cells) /\ Len(cells) = 1 /\ Len(cells) <= Size(s) /\ Size(s) >= 1 /\ s.ptr <= Size(s)
    BY <1>1, <1>3, <1>4, <2>1
  <2>3. /\ t \in Tasks /\ t.length = s.length + Len(cells)
        /\ WrittenTo(s.buffer, t.buffer, s.ptr, cells)
    BY <1>3, <1>5, <2>1, <2>2, WriteBufWrites
  <2>. QED  BY <2>1, <2>2, <2>3
<1>7. /\ t.buffer \in Seq(Cells) /\ Len(t.buffer) >= Size(task) /\ t.length = task.ptr /\ Len(t.buffer) \in Nat
      /\ \A i \in 1 .. Size(task) : i > 1 => t.buffer[i] = task.buffer[i]
  <2>1. t.buffer \in Seq(Cells) /\ Len(t.buffer) >= Len(s.buffer)
    BY <1>6 DEF WrittenTo
  <2>2. Len(s.buffer) = Size(task) /\ t.length = task.ptr /\ s.ptr + 1 = 1
    BY <1>1, <1>3, <1>6 DEF Size
  <2>3. \A i \in 1 .. Len(s.buffer) : i > s.ptr + Len(<<FileHeader>>) => t.buffer[i] = s.buffer[i]
    BY <1>6 DEF WrittenTo
  <2>. QED  BY <1>3, <1>4, <2>1, <2>2, <2>3, LenProperties
<1>8. Whole = SubSeq(t.buffer, 1, task.ptr)
  BY <1>3, <1>5, <1>7 DEF Whole
<1>9. /\ Whole \in Seq(Cells) /\ Len(Whole) = task.ptr
      /\ \A k \in 1 .. task.ptr : Whole[k] = t.buffer[k]
  <2>1. 1 \in 1 .. Len(t.buffer) + 1 /\ task.ptr \in 1 - 1 .. Len(t.buffer)
    BY <1>1, <1>7
  <2>2. /\ SubSeq(t.buffer, 1, task.ptr) \in Seq(Cells) /\ Len(SubSeq(t.buffer, 1, task.ptr)) = task.ptr - 1 + 1
        /\ \A k \in 1 .. task.ptr - 1 + 1 : SubSeq(t.buffer, 1, task.ptr)[k] = t.buffer[1 + k - 1]
    BY <1>7, <2>1, SubSeqProperties
  <2>3. task.ptr - 1 + 1 = task.ptr /\ \A k \in 1 .. task.ptr : 1 + k - 1 = k
    BY <1>1
  <2>. QED  BY <1>8, <2>2, <2>3
<1>10. \A k \in 2 .. task.ptr : k \in 1 .. task.ptr /\ k \in 1 .. Size(task) /\ k > 1
  BY <1>1
<1>11. Whole # NoFile
  <2>1. Len(NoFile) = 0
    BY DEF NoFile
  <2>. QED  BY <1>1, <1>9, <2>1
<1>. QED  BY <1>7, <1>9, <1>10, <1>11

LEMMA SaveEndsInv ==
  ASSUME Inv, SaveEnds
  PROVE  Inv'
<1>1. /\ pc = "saving" /\ pc' = "playing" /\ Forget /\ UNCHANGED <<session, lastLoadSize, pass, told>>
  BY DEF SaveEnds
<1>2. SessionFits'
  BY <1>1, SessionSame DEF Inv
<1>3. file' \in Seq(Cells) /\ saved' \in Lengths /\ torn' \in BOOLEAN /\ DiskFits'
  <2>1. CASE UNCHANGED disk
    BY <2>1, Types, DiskSame DEF disk, Inv
  <2>2. CASE file' = Whole /\ saved' = written /\ torn' = FALSE
    <3>1. PICK at \in Offsets : Tiled(task.buffer, written, at, task.ptr)
      BY <1>1 DEF Inv, SavingFits
    <3>2. Tiled(Whole, written, at, task.ptr)
      BY <1>1, <3>1, Types, WholeFile, TiledSame
    <3>3. task.ptr < WordSize
      BY <1>1 DEF Inv, SavingFits, TaskFits
    <3>. QED  BY <1>1, <2>2, <3>2, <3>3, Types, WholeFile DEF DiskFits
  <2>. QED  BY <2>1, <2>2 DEF SaveEnds
<1>. QED  BY <1>1, <1>2, <1>3, Types, Rests DEF session, Calls

LEMMA KilledInSaveInv ==
  ASSUME Inv, KilledInSave
  PROVE  Inv'
<1>1. /\ pc = "saving" /\ pc' = "killed" /\ Forget /\ UNCHANGED <<session, lastLoadSize, pass, told>>
      /\ saved' = written /\ torn' = TRUE
  BY DEF KilledInSave
<1>2. file' \in Seq(Cells)
  <2>1. ASSUME NEW n \in 0 .. Len(Whole) - 1, file' = SubSeq(Whole, 1, n)
        PROVE  file' \in Seq(Cells)
    <3>1. Whole \in Seq(Cells) /\ Len(Whole) \in Nat
      BY <1>1, WholeFile, Types
    <3>2. 1 \in 1 .. Len(Whole) + 1 /\ n \in 1 - 1 .. Len(Whole)
      BY <3>1
    <3>. QED  BY <2>1, <3>1, <3>2, SubSeqProperties
  <2>2. ASSUME file' = <<ScrapHeader>>
        PROVE  file' \in Seq(Cells)
    BY <2>2, CellKinds
  <2>. QED  BY <2>1, <2>2 DEF KilledInSave
<1>3. SessionFits' /\ DiskFits'
  BY <1>1, SessionSame DEF Inv, DiskFits
<1>. QED  BY <1>1, <1>2, <1>3, Types, Rests DEF session, Calls

LEMMA FileReplacedInv ==
  ASSUME Inv, FileReplaced
  PROVE  Inv'
<1>1. /\ pc = "playing" /\ pc' = pc
      /\ file' = <<OtherHeader>> /\ saved' = NoneWritten /\ torn' = TRUE
      /\ UNCHANGED <<session, task, plugin, chunk, lastLoadSize, handle, chunkStart, hadData,
                     pass, written, got, read, told>>
  BY DEF FileReplaced
<1>2. file' \in Seq(Cells) /\ saved' \in Lengths
  <2>1. NoneWritten \in Lengths
    BY DEF NoneWritten, Lengths
  <2>. QED  BY <1>1, <2>1, CellKinds
<1>3. TypeOK'
  BY <1>1, <1>2, Types DEF TypeOK, session, Handles, Lengths, Tasks
<1>4. InBuffer' /\ LengthAccounts' /\ ReadsWhatWasWritten' /\ RestFits'
  BY <1>1 DEF Inv, BufferSound, InBuffer, LengthAccounts, ReadsWhatWasWritten, RestFits, Loading, Resting
<1>5. SessionFits' /\ DiskFits'
  BY <1>1, SessionSame DEF Inv, DiskFits
<1>6. SavingFits' /\ WritingFits' /\ WalkFits' /\ LoadingFits' /\ ToldFits'
  BY <1>1 DEF SavingFits, WritingFits, WalkFits, LoadingFits, ToldFits, Loading
<1>. QED  BY <1>3, <1>4, <1>5, <1>6 DEF Inv, BufferSound

LEMMA HandleSaveGameInv ==
  ASSUME Inv, HandleSaveGame
  PROVE  Inv'
<1>. DEFINE m == Max({lastLoadSize, MinBuffer})
<1>1. /\ pc = "playing" /\ pc' = "saving" /\ told' = NobodyTold
      /\ task' = [buffer |-> Blanks(m), ptr |-> 1, length |-> 0]
      /\ UNCHANGED <<session, disk, plugin, chunk, lastLoadSize, handle, chunkStart,
                     hadData, pass, written, got, read>>
  BY DEF HandleSaveGame
<1>2. m \in Nat /\ m >= MinBuffer /\ MinBuffer \in Nat /\ MinBuffer >= 1
  <2>1. MinBuffer \in Nat /\ MinBuffer # 0 /\ lastLoadSize \in Nat
    BY ConstantsAssumption, Types
  <2>. QED  BY <2>1, GreatestOf
<1>. HIDE DEF m
<1>3. /\ task' \in Tasks /\ task'.ptr = 1 /\ task'.length = 0 /\ Size(task') = m
  BY <1>1, <1>2, BlanksType DEF Tasks, Size
<1>4. read = NothingRead /\ handle = 0 /\ written = NoneWritten
  BY <1>1 DEF Inv, RestFits, Resting, Loading
<1>5. TypeOK'
  <2>1. NobodyTold \in [Owners -> Seq({"data", "none", "new"})] /\ hadData' \subseteq Handles'
    BY <1>1, Types DEF NobodyTold, Handles, session
  <2>. QED  BY <1>1, <1>3, <2>1, Types DEF TypeOK, session, disk, Tasks, Lengths
<1>6. InBuffer' /\ LengthAccounts'
  BY <1>1, <1>2, <1>3 DEF InBuffer, LengthAccounts
<1>7. ReadsWhatWasWritten' /\ RestFits'
  BY <1>1, <1>4 DEF ReadsWhatWasWritten, RestFits, Resting, Loading, NothingRead
<1>8. SessionFits' /\ DiskFits'
  BY <1>1, SessionSame, DiskSame DEF Inv
<1>9. SavingFits'
  <2>1. TaskFits'
    BY <1>2, <1>3, ConstantsAssumption DEF TaskFits
  <2>2. Unsaved(handle)'
    BY <1>1, <1>4, HandleTypes, Types DEF Unsaved, NoneWritten, Handles, PluginOf, session
  <2>3. HasData(NoneWritten) = {}
    BY DEF HasData, NoneWritten
  <2>4. PICK at \in Offsets : TRUE
    <3>1. [p \in Owners |-> [n \in Nat |-> 0]] \in Offsets
      BY DEF Offsets, Places
    <3>. QED  BY <3>1
  <2>5. Tiled(task'.buffer, written', at, task'.ptr)
    BY <1>1, <1>3, <1>4, <2>3 DEF Tiled, Boundary
  <2>. QED  BY <2>1, <2>2, <2>4, <2>5 DEF SavingFits
<1>10. WritingFits' /\ WalkFits' /\ LoadingFits' /\ ToldFits'
  BY <1>1 DEF WritingFits, WalkFits, LoadingFits, ToldFits, Loading
<1>. QED  BY <1>5, <1>6, <1>7, <1>8, <1>9, <1>10 DEF Inv, BufferSound

LEMMA CallSaveInv ==
  ASSUME Inv, CallSave
  PROVE  Inv'
<1>1. /\ pc = "saving" /\ handle < CallbacksSize
      /\ UNCHANGED <<session, disk, task, lastLoadSize, chunkStart, hadData, pass,
                     written, got, read, told>>
      /\ \/ /\ plugin' = [NoPlugin EXCEPT !.header.base = Saver]
            /\ chunk' = [chunk EXCEPT !.open = FALSE]
            /\ pc' = "writing" /\ handle' = handle
         \/ /\ handle' = handle + 1 /\ UNCHANGED <<plugin, chunk, pc>>
  BY DEF CallSave
<1>2. /\ TaskFits /\ Unsaved(handle)
      /\ \E at \in Offsets : Tiled(task.buffer, written, at, task.ptr)
  BY <1>1 DEF Inv, SavingFits
<1>3. handle \in Handles /\ Saver \in Owners
  BY <1>1, Types, CallbacksSizeIs, HandleTypes DEF Saver
<1>4. SessionFits' /\ DiskFits'
  BY <1>1, SessionSame, DiskSame DEF Inv
<1>5. /\ InBuffer' /\ ReadsWhatWasWritten' /\ RestFits'
      /\ WalkFits' /\ LoadingFits' /\ ToldFits'
  BY <1>1 DEF Inv, BufferSound, InBuffer, ReadsWhatWasWritten, RestFits, Resting, Loading,
              WalkFits, LoadingFits, ToldFits, disk
<1>6. TaskFits' /\ (\E at \in Offsets : Tiled(task.buffer, written, at, task.ptr))'
  BY <1>1, <1>2 DEF TaskFits
<1>7. CASE /\ handle' = handle + 1 /\ UNCHANGED <<plugin, chunk, pc>>
  <2>1. TypeOK'
    BY <1>1, <1>7, Types DEF TypeOK, session, disk, Handles, Lengths
  <2>2. LengthAccounts'
    BY <1>1, <1>7 DEF Inv, BufferSound, LengthAccounts
  <2>3. Unsaved(handle)'
    BY <1>1, <1>2, <1>7, Types DEF Unsaved, Handles, PluginOf, session
  <2>4. SavingFits' /\ WritingFits'
    BY <1>1, <1>6, <1>7, <2>3 DEF SavingFits, WritingFits
  <2>. QED  BY <1>4, <1>5, <2>1, <2>2, <2>4 DEF Inv, BufferSound
<1>8. CASE /\ plugin' = [NoPlugin EXCEPT !.header.base = Saver]
           /\ chunk' = [chunk EXCEPT !.open = FALSE]
           /\ pc' = "writing" /\ handle' = handle
  <2>1. plugin'.header = PluginHeader(Saver, 0, 0) /\ plugin' \in [header : PluginHeaders, offset : Nat]
    <3>1. plugin' = [header |-> PluginHeader(Saver, 0, 0), offset |-> 0]
      BY <1>8 DEF NoPlugin, PluginHeader
    <3>2. PluginHeader(Saver, 0, 0) \in PluginHeaders
      BY <1>3, HeaderTypes
    <3>. QED  BY <3>1, <3>2
  <2>2. chunk' \in [header : ChunkHeaders, offset : Nat, open : BOOLEAN] /\ chunk'.open = FALSE
    BY <1>8, Types
  <2>3. TypeOK'
    BY <1>1, <1>8, <2>1, <2>2, Types DEF TypeOK, session, disk, Handles, Lengths
  <2>4. plugin'.header.numChunks = 0 /\ plugin'.header.length = 0 /\ plugin'.header.base = Saver
    BY <2>1 DEF PluginHeader
  <2>5. LengthAccounts'
    BY <1>1, <1>8, <2>2, <2>4, Types DEF Inv, BufferSound, LengthAccounts
  <2>6. Saver' = Saver /\ written' = written /\ written[Saver] = <<>>
    <3>1. written[PluginOf(handle)] = <<>>
      BY <1>2, <1>3, Types DEF Unsaved
    <3>. QED  BY <1>1, <1>8, <3>1 DEF Saver, PluginOf, session
  <2>7. Unsaved(handle + 1)' /\ handle' \in Handles'
    BY <1>1, <1>2, <1>3, <1>8, Types DEF Unsaved, Handles, PluginOf, session
  <2>8. Count' = 0
    <3>1. Len(<<>>) = 0
      OBVIOUS
    <3>. QED  BY <2>6, <3>1 DEF Count
  <2>9. SavingFits' /\ WritingFits'
    BY <1>6, <1>8, <2>2, <2>4, <2>6, <2>7, <2>8 DEF SavingFits, WritingFits
  <2>. QED  BY <1>4, <1>5, <2>3, <2>5, <2>9 DEF Inv, BufferSound
<1>. QED  BY <1>1, <1>7, <1>8

(***************************************************************************)
(* While a save callback is between its calls.                             *)
(***************************************************************************)
LEMMA WritingTypes ==
  ASSUME Inv, pc = "writing"
  PROVE  /\ TaskFits /\ task.ptr <= Size(task) /\ Size(task) >= 1
         /\ handle \in Handles /\ Saver \in Owners /\ Saver = PluginOf(handle)
         /\ written[Saver] \in Seq(Nat) /\ Count \in Nat
         /\ plugin.header \in PluginHeaders /\ chunk.header \in ChunkHeaders
         /\ plugin.header.numChunks = Count /\ plugin.header.base = Saver
         /\ plugin.offset \in Nat /\ chunk.offset \in Nat /\ plugin.header.length \in Nat
         /\ Others \in Lengths /\ Others[Saver] = <<>>
<1>1. /\ TaskFits /\ task.ptr <= Size(task) /\ handle \in Handles
      /\ plugin.header.numChunks = Count /\ plugin.header.base = Saver
  BY DEF Inv, BufferSound, InBuffer, WritingFits
<1>2. Saver \in Owners
  BY <1>1, Types, HandleTypes DEF Saver
<1>3. written[Saver] \in Seq(Nat) /\ Count \in Nat
  BY <1>2, Types, LenProperties DEF Lengths, Count
<1>4. Size(task) >= 1
  BY <1>1, Types DEF TaskFits
<1>5. Others \in Lengths /\ Others[Saver] = <<>>
  BY <1>2, Types DEF Others, Lengths
<1>6. /\ plugin.header \in PluginHeaders /\ chunk.header \in ChunkHeaders
      /\ plugin.offset \in Nat /\ chunk.offset \in Nat
  BY Types
<1>7. plugin.header.length \in Nat
  BY <1>6 DEF PluginHeaders
<1>. QED  BY <1>1, <1>2, <1>3, <1>4, <1>5, <1>6, <1>7 DEF Saver

(***************************************************************************)
(* FlushWriteChunk completes the last record.                              *)
(***************************************************************************)
LEMMA FlushCompletes ==
  ASSUME Inv, pc = "writing", Count # 0, NEW f \in Places, HalfWritten(f),
         NEW u, u = FlushWriteChunk(task), NEW g, g = [f EXCEPT ![Count + 1] = task.ptr]
  PROVE  /\ g \in Places /\ g[1] = plugin.offset + 1 /\ g[Count + 1] = task.ptr
         /\ RecordsAt(u.buffer, Saver, written[Saver], Count, g)
         /\ u \in Tasks /\ u.ptr = task.ptr /\ u.length = task.length + 1 /\ Size(u) = Size(task)
         /\ plugin.offset + 1 < task.ptr
         /\ \A i \in 1 .. plugin.offset + 1 : u.buffer[i] = task.buffer[i]
         /\ FlushedHeader(task) = PluginHeader(Saver, Count, task.ptr - g[1])
<1>. DEFINE n == Count
            r == written[Saver]
<1>1. /\ Saver \in Owners /\ r \in Seq(Nat) /\ n = Len(r) /\ n \in Nat \ {0}
      /\ task \in Tasks /\ task.ptr \in Nat /\ task.ptr <= Size(task) /\ Size(task) \in Nat
      /\ plugin.offset \in Nat /\ chunk.offset \in Nat /\ plugin.header.length \in Nat
  BY WritingTypes, Types DEF Count
<1>2. r[n] \in Nat /\ n - 1 \in Nat /\ n \in 1 .. n /\ \A i \in 1 .. n : r[i] \in Nat
  BY <1>1
<1>3. chunk.open
  BY <1>1 DEF Inv, WritingFits
<1>4. /\ f[1] = plugin.offset + 1 /\ f[n] = chunk.offset
      /\ RecordsAt(task.buffer, Saver, r, n - 1, f)
      /\ BytesAt(task.buffer, Saver, n, r[n], chunk.offset)
      /\ task.ptr = chunk.offset + 1 + r[n]
      /\ chunk.header = ChunkHeader(Saver, n, 0)
      /\ plugin.header.length = f[n] - f[1]
  BY DEF HalfWritten
<1>5. /\ \A i \in Nat : f[i] \in Nat /\ g[i] = IF i = n + 1 THEN task.ptr ELSE f[i]
      /\ g \in Places
  BY <1>1 DEF Places
<1>. HIDE DEF n, r
<1>6. g[1] = plugin.offset + 1 /\ g[n + 1] = task.ptr /\ \A i \in 1 .. n : g[i] = f[i]
  BY <1>1, <1>4, <1>5
<1>7. f[1] <= f[n]
  <2>1. CASE n = 1
    BY <2>1, <1>5
  <2>2. CASE n # 1
    <3>1. n - 1 \in 1 .. n - 1 /\ (n - 1) + 1 = n
      BY <1>1, <2>2
    <3>2. f[n] = f[n - 1] + 1 + r[n - 1] /\ f[1] <= f[n - 1]
      BY <1>4, <3>1 DEF RecordsAt
    <3>3. f[n - 1] \in Nat /\ r[n - 1] \in Nat /\ f[1] \in Nat
      BY <1>1, <1>2, <1>5, <3>1
    <3>. QED  BY <3>2, <3>3
  <2>. QED  BY <2>1, <2>2
<1>8. plugin.offset + 1 <= chunk.offset /\ chunk.offset < task.ptr
  BY <1>1, <1>2, <1>4, <1>7
<1>9. ChunkSize(task) = r[n]
  BY <1>1, <1>2, <1>4 DEF ChunkSize
<1>10. PICK cell : cell = ChunkHeader(Saver, n, r[n])
  OBVIOUS
<1>11. cell \in Cells
  BY <1>1, <1>2, <1>10, HeaderTypes, CellKinds
<1>12. u = BackPatch(task, chunk.offset, cell)
  <2>1. [chunk.header EXCEPT !.length = r[n]] = cell
    BY <1>4, <1>10 DEF ChunkHeader
  <2>. QED  BY <1>3, <1>9, <2>1 DEF FlushWriteChunk
<1>13. /\ u \in Tasks /\ u.ptr = task.ptr /\ u.length = task.length + 1 /\ Size(u) = Size(task)
       /\ u.buffer[chunk.offset + 1] = cell
       /\ \A i \in 1 .. Size(task) : i # chunk.offset + 1 => u.buffer[i] = task.buffer[i]
  <2>1. chunk.offset \in Nat /\ chunk.offset < task.ptr /\ task.ptr <= Size(task) /\ task \in Tasks
    BY <1>1, <1>8
  <2>. QED  BY <1>11, <1>12, <2>1, BackPatchWrites
<1>14. \A i \in 1 .. chunk.offset : u.buffer[i] = task.buffer[i]
  <2>1. \A i \in 1 .. chunk.offset : i \in 1 .. Size(task) /\ i # chunk.offset + 1
    BY <1>1, <1>8
  <2>. QED  BY <1>13, <2>1
<1>15. RecordsAt(u.buffer, Saver, r, n - 1, f)
  <2>1. n - 1 \in 0 .. Len(r) /\ (n - 1) + 1 = n
    BY <1>1
  <2>2. \A k \in f[1] + 1 .. f[n] : k \in 1 .. chunk.offset
    BY <1>1, <1>4
  <2>3. \A k \in f[1] + 1 .. f[(n - 1) + 1] : u.buffer[k] = task.buffer[k]
    BY <1>14, <2>1, <2>2
  <2>. QED  BY <1>1, <1>4, <2>1, <2>3, RecordsSame
<1>16. BytesAt(u.buffer, Saver, n, r[n], chunk.offset)
  <2>1. \A j \in 1 .. r[n] : chunk.offset + 1 + j \in 1 .. Size(task) /\ chunk.offset + 1 + j # chunk.offset + 1
    <3>. SUFFICES ASSUME NEW o \in Nat, NEW m \in Nat, NEW s \in Nat, o + 1 + m <= s
                  PROVE  \A j \in 1 .. m : o + 1 + j \in 1 .. s /\ o + 1 + j # o + 1
      <4>1. chunk.offset + 1 + r[n] <= Size(task)
        BY <1>1, <1>4
      <4>. QED  BY <1>1, <1>2, <4>1
    <3>. QED  OBVIOUS
  <2>. QED  BY <1>4, <1>13, <2>1 DEF BytesAt
<1>17. RecordsAt(u.buffer, Saver, r, n, g)
  <2>. SUFFICES ASSUME NEW i \in 1 .. n
                PROVE  /\ g[i + 1] = g[i] + 1 + r[i] /\ g[1] <= g[i] /\ g[i + 1] <= g[n + 1]
                       /\ RecordAt(u.buffer, Saver, i, r[i], g[i])
    BY DEF RecordsAt
  <2>1. CASE i = n
    <3>1. g[i] = chunk.offset
      BY <1>1, <1>4, <1>6, <2>1
    <3>2. RecordAt(u.buffer, Saver, i, r[i], g[i])
      BY <1>10, <1>13, <1>16, <2>1, <3>1 DEF RecordAt
    <3>3. g[i + 1] = g[i] + 1 + r[i] /\ g[1] <= g[i] /\ g[i + 1] <= g[n + 1]
      BY <1>1, <1>4, <1>6, <1>8, <2>1, <3>1
    <3>. QED  BY <3>2, <3>3
  <2>2. CASE i # n
    <3>1. i \in 1 .. n - 1 /\ (n - 1) + 1 = n /\ i + 1 \in 1 .. n /\ 1 \in 1 .. n
      BY <1>1, <2>2
    <3>2. /\ f[i + 1] = f[i] + 1 + r[i] /\ f[1] <= f[i] /\ f[i + 1] <= f[n]
          /\ RecordAt(u.buffer, Saver, i, r[i], f[i])
      BY <1>15, <3>1 DEF RecordsAt
    <3>3. g[i] = f[i] /\ g[i + 1] = f[i + 1] /\ g[1] = f[1] /\ f[i + 1] \in Nat
      BY <1>5, <1>6, <3>1
    <3>4. f[i + 1] <= g[n + 1]
      BY <1>1, <1>4, <1>6, <1>8, <3>2, <3>3
    <3>. QED  BY <3>2, <3>3, <3>4
  <2>. QED  BY <2>1, <2>2
<1>18. FlushedHeader(task) = PluginHeader(Saver, n, task.ptr - g[1])
  <2>1. FlushedHeader(task) = [plugin.header EXCEPT !.length = @ + r[n] + 1]
    BY <1>3, <1>9 DEF FlushedHeader
  <2>2. /\ plugin.header \in PluginHeaders /\ plugin.header.base = Saver /\ plugin.header.numChunks = n
    BY WritingTypes DEF n
  <2>3. plugin.header.length + r[n] + 1 = task.ptr - g[1]
    <3>1. /\ plugin.header.length = chunk.offset - (plugin.offset + 1)
          /\ task.ptr = chunk.offset + 1 + r[n] /\ g[1] = plugin.offset + 1
      BY <1>4, <1>6
    <3>. PICK o \in Nat, s \in Nat, m \in Nat : o = chunk.offset /\ s = plugin.offset /\ m = r[n]
      BY <1>1, <1>2
    <3>2. plugin.header.length = o - (s + 1) /\ task.ptr = o + 1 + m /\ g[1] = s + 1
      BY <3>1
    <3>3. plugin.header.length + m + 1 = (o - (s + 1)) + m + 1 /\ task.ptr - g[1] = (o + 1 + m) - (s + 1)
      BY <3>2
    <3>4. (o - (s + 1)) + m + 1 = (o + 1 + m) - (s + 1)
      OBVIOUS
    <3>. QED  BY <3>3, <3>4
  <2>. QED  BY <2>1, <2>2, <2>3 DEF PluginHeader, PluginHeaders
<1>19. \A i \in 1 .. plugin.offset + 1 : u.buffer[i] = task.buffer[i]
  BY <1>1, <1>8, <1>14
<1>20. plugin.offset + 1 < task.ptr
  BY <1>1, <1>8
<1>. QED  BY <1>5, <1>6, <1>13, <1>17, <1>18, <1>19, <1>20 DEF n, r

LEMMA WritingOnly ==
  ASSUME Inv, pc = "writing", UNCHANGED <<session, handle>>,
         NEW r \in Seq(Nat), written' = [written EXCEPT ![Saver] = r]
  PROVE  /\ Saver' = Saver /\ written' \in Lengths /\ written'[Saver] = r /\ Count' = Len(r)
         /\ Others' = Others /\ Unsaved(handle + 1)' /\ handle' \in Handles'
<1>1. Saver \in Owners /\ Saver' = Saver /\ Saver = PluginOf(handle) /\ handle \in Handles /\ handle \in Nat
  BY WritingTypes, Types DEF Saver, PluginOf, session
<1>2. written \in Lengths /\ written' \in Lengths /\ written'[Saver] = r
      /\ \A p \in Owners : p # Saver => written'[p] = written[p]
  BY <1>1, Types DEF Lengths
<1>3. Others' = Others
  BY <1>1, <1>2 DEF Others, Lengths
<1>4. Unsaved(handle + 1)'
  <2>1. \A k \in Handles : k >= handle + 1 => PluginOf(k) \in Owners /\ PluginOf(k) # Saver
    <3>1. \A k \in Handles : k \in Nat
      BY DEF Handles
    <3>2. \A k \in Handles : k >= handle + 1 => k # handle
      BY <1>1, <3>1
    <3>. QED  BY <1>1, <3>2, Types, HandleTypes
  <2>2. Unsaved(handle + 1)
    BY DEF Inv, WritingFits
  <2>3. Handles' = Handles /\ handle' = handle /\ \A k \in Handles : PluginOf(k)' = PluginOf(k)
    BY DEF Handles, PluginOf, session
  <2>4. \A k \in Handles : k >= handle + 1 => written'[PluginOf(k)] = <<>>
    BY <1>2, <2>1, <2>2 DEF Unsaved
  <2>. QED  BY <2>3, <2>4 DEF Unsaved
<1>5. handle' \in Handles' /\ Count' = Len(r)
  BY <1>1, <1>2 DEF Handles, session, Count
<1>. QED  BY <1>1, <1>2, <1>3, <1>4, <1>5

(***************************************************************************)
(* What a save callback does keeps all that is not about the buffer.       *)
(***************************************************************************)
LEMMA WritingInv ==
  ASSUME Inv, pc = "writing", pc' = "writing",
         UNCHANGED <<session, disk, lastLoadSize, handle, chunkStart, hadData, pass, got, read, told>>,
         written' \in Lengths, task' \in Tasks, task'.ptr <= Size(task'), LengthAccounts',
         plugin' \in [header : PluginHeaders, offset : Nat],
         chunk' \in [header : ChunkHeaders, offset : Nat, open : BOOLEAN],
         WritingFits'
  PROVE  Inv'
<1>1. TypeOK'
  BY Types DEF TypeOK, session, disk, Handles, Lengths, Tasks
<1>2. InBuffer' /\ ReadsWhatWasWritten' /\ RestFits'
  <2>1. read = NothingRead
    BY DEF Inv, RestFits, Loading
  <2>. QED  BY <2>1 DEF InBuffer, ReadsWhatWasWritten, RestFits, Resting, Loading, NothingRead, Size
<1>3. SessionFits' /\ DiskFits'
  BY SessionSame, DiskSame DEF Inv
<1>4. SavingFits' /\ WalkFits' /\ LoadingFits' /\ ToldFits'
  BY DEF SavingFits, WalkFits, LoadingFits, ToldFits, Loading
<1>. QED  BY <1>1, <1>2, <1>3, <1>4 DEF Inv, BufferSound

LEMMA OpenRecordTypes ==
  ASSUME Inv, OpenRecord
  PROVE  /\ pc = "writing" /\ pc' = "writing" /\ written' \in Lengths
         /\ UNCHANGED <<session, disk, lastLoadSize, handle, chunkStart, hadData, pass, got, read, told>>
         /\ Saver' = Saver /\ Count' = Count + 1 /\ Count \in Nat
         /\ written'[Saver] \in Seq(Nat) /\ written'[Saver][Count + 1] = 0
         /\ \A i \in 1 .. Count : written'[Saver][i] = written[Saver][i]
         /\ Others' = Others /\ Unsaved(handle + 1)' /\ handle' \in Handles'
         /\ ChunkHeader(Saver, Count + 1, 0) \in ChunkHeaders
         /\ task.ptr + 2 < WordSize
<1>1. /\ pc = "writing" /\ pc' = "writing" /\ task.ptr + 2 < WordSize
      /\ UNCHANGED <<session, disk, lastLoadSize, handle, chunkStart, hadData, pass, got, read, told>>
      /\ written' = [written EXCEPT ![Saver] = Append(@, 0)]
  BY DEF OpenRecord, Allocatable
<1>2. Saver \in Owners /\ written[Saver] \in Seq(Nat) /\ Count \in Nat /\ Count = Len(written[Saver])
      /\ written \in Lengths
  BY <1>1, WritingTypes, Types DEF Count
<1>3. PICK r : r = Append(written[Saver], 0)
  OBVIOUS
<1>4. r \in Seq(Nat) /\ Len(r) = Count + 1 /\ r[Count + 1] = 0 /\ \A i \in 1 .. Count : r[i] = written[Saver][i]
  BY <1>2, <1>3
<1>5. written' = [written EXCEPT ![Saver] = r]
  BY <1>1, <1>3
<1>6. ChunkHeader(Saver, Count + 1, 0) \in ChunkHeaders
  BY <1>2, HeaderTypes
<1>. QED  BY <1>1, <1>2, <1>4, <1>5, <1>6, WritingOnly

LEMMA OpenFirstInv ==
  ASSUME Inv, OpenRecord, Count = 0
  PROVE  Inv'
<1>1. /\ task \in Tasks /\ task.ptr \in Nat /\ task.length \in Nat /\ Size(task) \in Nat /\ task.ptr >= 1
      /\ task.ptr <= Size(task) /\ Size(task) >= 1 /\ MinBuffer <= Size(task) /\ MinBuffer \in Nat
      /\ plugin.header.numChunks = 0 /\ plugin.header \in PluginHeaders /\ plugin.header.base = Saver
      /\ Saver \in Owners /\ pc = "writing"
      /\ chunk \in [header : ChunkHeaders, offset : Nat, open : BOOLEAN]
  BY OpenRecordTypes, WritingTypes, Types, ConstantsAssumption DEF TaskFits
<1>2. ~chunk.open /\ plugin.header.length = 0
  BY <1>1 DEF Inv, WritingFits
<1>3. PICK at \in Offsets : Tiled(task.buffer, written, at, task.ptr)
  BY <1>1 DEF Inv, WritingFits
<1>4. PICK t : t = SkipForWrite(task, 1)
  OBVIOUS
<1>5. /\ t \in Tasks /\ t.ptr = task.ptr + 1 /\ t.length = task.length /\ Grown(task.buffer, t.buffer, 0)
      /\ t.ptr <= Size(t)
  BY <1>1, <1>4, SkipForWriteMoves
<1>6. FlushWriteChunk(t) = t /\ FlushedHeader(t) = plugin.header
  BY <1>2 DEF FlushWriteChunk, FlushedHeader
<1>7. /\ task' = SkipForWrite(t, 1)
      /\ plugin' = [header |-> [plugin.header EXCEPT !.numChunks = @ + 1], offset |-> task.ptr]
      /\ chunk' = [header |-> ChunkHeader(Saver, Len(written[Saver]) + 1, 0), offset |-> t.ptr, open |-> TRUE]
  BY <1>1, <1>4, <1>6 DEF OpenRecord
<1>8. t.ptr \in Nat /\ Size(t) \in Nat /\ Size(t) >= Size(task) /\ Size(t) >= 1 /\ t.buffer \in Seq(Cells)
      /\ \A i \in 1 .. Size(task) : t.buffer[i] = task.buffer[i]
  <2>1. t.ptr \in Nat /\ t.buffer \in Seq(Cells) /\ Len(t.buffer) >= Len(task.buffer) + 0
        /\ \A i \in 1 .. Len(task.buffer) : t.buffer[i] = task.buffer[i]
    BY <1>5 DEF Tasks, Grown
  <2>. QED  BY <1>1, <2>1, LenProperties DEF Size
<1>9. PICK u : u = task'
  OBVIOUS
<1>10. /\ u \in Tasks /\ u.ptr = t.ptr + 1 /\ u.length = t.length /\ Grown(t.buffer, u.buffer, 0)
       /\ u.ptr <= Size(u)
  BY <1>5, <1>7, <1>8, <1>9, SkipForWriteMoves
<1>11. Size(u) \in Nat /\ Size(u) >= Size(t) /\ \A i \in 1 .. Size(task) : u.buffer[i] = task.buffer[i]
  <2>1. u.buffer \in Seq(Cells) /\ Len(u.buffer) >= Len(t.buffer) + 0
        /\ \A i \in 1 .. Len(t.buffer) : u.buffer[i] = t.buffer[i]
    BY <1>10 DEF Grown
  <2>2. \A i \in 1 .. Size(task) : i \in 1 .. Size(t)
    BY <1>1, <1>8
  <2>. QED  BY <1>8, <2>1, <2>2, LenProperties DEF Size
<1>12. Tiled(u.buffer, written, at, task.ptr)
  <2>1. \A k \in 2 .. task.ptr : u.buffer[k] = task.buffer[k]
    <3>1. \A k \in 2 .. task.ptr : k \in 1 .. Size(task)
      BY <1>1
    <3>. QED  BY <1>11, <3>1
  <2>. QED  BY <1>1, <1>3, <2>1, Types, TiledSame
<1>13. Others = written
  <2>1. written[Saver] = <<>>
    BY <1>1, WritingTypes DEF Count
  <2>. QED  BY <1>1, <2>1, Types DEF Others, Lengths
<1>14. /\ plugin'.header \in PluginHeaders /\ plugin'.header.numChunks = 1 /\ plugin'.header.base = Saver
       /\ plugin'.header.length = 0 /\ plugin'.offset = task.ptr
       /\ plugin' \in [header : PluginHeaders, offset : Nat]
  BY <1>1, <1>2, <1>7 DEF PluginHeaders
<1>15. /\ chunk'.header = ChunkHeader(Saver, 1, 0) /\ chunk'.offset = t.ptr /\ chunk'.open = TRUE
       /\ chunk' \in [header : ChunkHeaders, offset : Nat, open : BOOLEAN]
  <2>1. Len(written[Saver]) + 1 = 1 /\ Count + 1 = 1
    BY DEF Count
  <2>. QED  BY <1>7, <1>8, <2>1, OpenRecordTypes
<1>16. LengthAccounts'
  <2>1. task.ptr = task.length + 1
    BY <1>1, <1>2 DEF Inv, BufferSound, LengthAccounts
  <2>2. u.ptr = u.length + 1 + 1 + 1
    BY <1>1, <1>5, <1>8, <1>10, <2>1
  <2>. QED  BY <1>9, <1>14, <1>15, <2>2, OpenRecordTypes DEF LengthAccounts
<1>17. TaskFits'
  <2>1. u.ptr = task.ptr + 2 /\ MinBuffer <= Size(u)
    BY <1>1, <1>5, <1>8, <1>10, <1>11
  <2>. QED  BY <1>1, <1>9, <2>1, OpenRecordTypes DEF TaskFits
<1>. DEFINE f == [i \in Nat |-> t.ptr]
<1>18. f \in Places /\ f[1] = task.ptr + 1 /\ f[1] = t.ptr
  BY <1>5, <1>8 DEF Places
<1>. HIDE DEF f
<1>19. HalfWritten(f)'
  <2>1. Count' = 1 /\ Saver' = Saver /\ written'[Saver][1] = 0
    BY OpenRecordTypes
  <2>2. RecordsAt(task'.buffer, Saver, written'[Saver], 1 - 1, f)
    BY DEF RecordsAt
  <2>3. BytesAt(task'.buffer, Saver, 1, 0, chunk'.offset)
    BY DEF BytesAt
  <2>4. task'.ptr = chunk'.offset + 1 + 0
    BY <1>8, <1>9, <1>10, <1>15
  <2>5. plugin'.header.length = f[1] - f[1]
    BY <1>8, <1>14, <1>18
  <2>. QED  BY <1>14, <1>15, <1>18, <2>1, <2>2, <2>3, <2>4, <2>5 DEF HalfWritten
<1>20. WritingFits'
  <2>1. Count' = 1 /\ Saver' = Saver /\ Others' = written /\ Unsaved(handle + 1)' /\ handle' \in Handles'
    BY <1>13, OpenRecordTypes
  <2>2. (\E a \in Offsets : Tiled(task.buffer, Others, a, plugin.offset))'
    BY <1>9, <1>12, <1>14, <2>1
  <2>. QED  BY <1>1, <1>14, <1>15, <1>17, <1>18, <1>19, <2>1, <2>2 DEF WritingFits
<1>. QED  BY <1>1, <1>9, <1>10, <1>14, <1>15, <1>16, <1>20, OpenRecordTypes, WritingInv

LEMMA OpenAgainInv ==
  ASSUME Inv, OpenRecord, Count # 0
  PROVE  Inv'
<1>1. /\ task \in Tasks /\ task.ptr \in Nat /\ task.length \in Nat /\ Size(task) \in Nat /\ task.ptr >= 1
      /\ task.ptr <= Size(task) /\ Size(task) >= 1 /\ MinBuffer <= Size(task) /\ MinBuffer \in Nat
      /\ plugin.header.numChunks = Count /\ Saver \in Owners /\ pc = "writing"
      /\ plugin.offset \in Nat /\ Count \in Nat \ {0} /\ written[Saver] \in Seq(Nat) /\ Len(written[Saver]) = Count
      /\ Others \in Lengths
  BY OpenRecordTypes, WritingTypes, Types, ConstantsAssumption DEF TaskFits, Count
<1>2. chunk.open /\ plugin.offset >= 1
  BY <1>1 DEF Inv, WritingFits
<1>3. PICK at \in Offsets : Tiled(task.buffer, Others, at, plugin.offset)
  BY <1>1 DEF Inv, WritingFits
<1>4. PICK f \in Places : HalfWritten(f)
  BY <1>1 DEF Inv, WritingFits
<1>5. PICK t, g : t = FlushWriteChunk(task) /\ g = [f EXCEPT ![Count + 1] = task.ptr]
  OBVIOUS
<1>6. /\ g \in Places /\ g[1] = plugin.offset + 1 /\ g[Count + 1] = task.ptr
      /\ RecordsAt(t.buffer, Saver, written[Saver], Count, g)
      /\ t \in Tasks /\ t.ptr = task.ptr /\ t.length = task.length + 1 /\ Size(t) = Size(task)
      /\ plugin.offset + 1 < task.ptr
      /\ \A i \in 1 .. plugin.offset + 1 : t.buffer[i] = task.buffer[i]
      /\ FlushedHeader(task) = PluginHeader(Saver, Count, task.ptr - g[1])
  BY <1>1, <1>4, <1>5, FlushCompletes
<1>7. /\ task' = SkipForWrite(t, 1)
      /\ plugin' = [header |-> [FlushedHeader(task) EXCEPT !.numChunks = @ + 1], offset |-> plugin.offset]
      /\ chunk' = [header |-> ChunkHeader(Saver, Len(written[Saver]) + 1, 0), offset |-> t.ptr, open |-> TRUE]
  BY <1>1, <1>5 DEF OpenRecord
<1>8. PICK u : u = task'
  OBVIOUS
<1>9. /\ u \in Tasks /\ u.ptr = t.ptr + 1 /\ u.length = t.length /\ Grown(t.buffer, u.buffer, 0)
      /\ u.ptr <= Size(u)
  <2>1. t \in Tasks /\ Size(t) >= 1 /\ t.ptr <= Size(t) /\ 1 <= Size(t) /\ u = SkipForWrite(t, 1)
    BY <1>1, <1>6, <1>7, <1>8
  <2>. QED  BY <2>1, SkipForWriteMoves
<1>10. Size(u) \in Nat /\ Size(u) >= Size(task) /\ \A i \in 1 .. Size(task) : u.buffer[i] = t.buffer[i]
  <2>1. u.buffer \in Seq(Cells) /\ Len(u.buffer) >= Len(t.buffer) + 0
        /\ \A i \in 1 .. Len(t.buffer) : u.buffer[i] = t.buffer[i]
    BY <1>9 DEF Grown
  <2>. QED  BY <1>1, <1>6, <2>1, LenProperties DEF Size
<1>11. Tiled(u.buffer, Others, at, plugin.offset)
  <2>1. \A k \in 2 .. plugin.offset : k \in 1 .. plugin.offset + 1 /\ k \in 1 .. Size(task)
    BY <1>1, <1>6
  <2>2. \A k \in 2 .. plugin.offset : u.buffer[k] = task.buffer[k]
    BY <1>6, <1>10, <2>1
  <2>. QED  BY <1>1, <1>3, <2>2, TiledSame
<1>12. task.ptr - g[1] \in Nat /\ g[1] \in Nat
  BY <1>1, <1>6
<1>13. /\ plugin'.header \in PluginHeaders /\ plugin'.header.numChunks = Count + 1 /\ plugin'.header.base = Saver
       /\ plugin'.header.length = task.ptr - g[1] /\ plugin'.offset = plugin.offset
       /\ plugin' \in [header : PluginHeaders, offset : Nat]
  <2>1. plugin'.header = PluginHeader(Saver, Count + 1, task.ptr - g[1])
    BY <1>6, <1>7 DEF PluginHeader
  <2>2. PluginHeader(Saver, Count + 1, task.ptr - g[1]) \in PluginHeaders
    BY <1>1, <1>12, HeaderTypes
  <2>. QED  BY <1>1, <1>7, <2>1, <2>2 DEF PluginHeader
<1>14. /\ chunk'.header = ChunkHeader(Saver, Count + 1, 0) /\ chunk'.offset = task.ptr /\ chunk'.open = TRUE
       /\ chunk' \in [header : ChunkHeaders, offset : Nat, open : BOOLEAN]
  BY <1>1, <1>6, <1>7, OpenRecordTypes
<1>15. LengthAccounts'
  <2>1. task.ptr = task.length + 1 + 1 + 1
    BY <1>1, <1>2 DEF Inv, BufferSound, LengthAccounts
  <2>2. u.ptr = u.length + 1 + 1 + 1
    BY <1>1, <1>6, <1>9, <2>1
  <2>3. Count + 1 > 0
    BY <1>1
  <2>. QED  BY <1>8, <1>13, <1>14, <2>2, <2>3, OpenRecordTypes DEF LengthAccounts
<1>16. TaskFits'
  <2>1. u.ptr = task.ptr + 1 /\ MinBuffer <= Size(u) /\ task.ptr + 2 < WordSize /\ WordSize \in Nat
    BY <1>1, <1>6, <1>9, <1>10, OpenRecordTypes, ConstantsAssumption
  <2>2. 1 <= u.ptr /\ u.ptr < WordSize
    BY <1>1, <2>1
  <2>. QED  BY <1>8, <2>1, <2>2 DEF TaskFits
<1>17. HalfWritten(g)'
  <2>. PICK r \in Seq(Nat) : r = written'[Saver]
    BY OpenRecordTypes
  <2>1. /\ Count' = Count + 1 /\ Saver' = Saver /\ r[Count + 1] = 0
        /\ \A i \in 1 .. Count : r[i] = written[Saver][i]
    BY OpenRecordTypes
  <2>2. RecordsAt(u.buffer, Saver, written[Saver], Count, g)
    <3>1. \A k \in g[1] + 1 .. g[Count + 1] : k \in 1 .. Size(task)
      BY <1>1, <1>6, <1>12
    <3>2. \A k \in g[1] + 1 .. g[Count + 1] : u.buffer[k] = t.buffer[k]
      BY <1>10, <3>1
    <3>3. Count \in 0 .. Len(written[Saver])
      BY <1>1
    <3>. QED  BY <1>1, <1>6, <3>2, <3>3, RecordsSame
  <2>3. RecordsAt(u.buffer, Saver, r, Count, g)
    BY <2>1, <2>2 DEF RecordsAt
  <2>4. (Count + 1) - 1 = Count
    BY <1>1
  <2>5. BytesAt(u.buffer, Saver, Count + 1, 0, chunk'.offset)
    BY DEF BytesAt
  <2>6. u.ptr = chunk'.offset + 1 + 0
    BY <1>1, <1>6, <1>9, <1>14
  <2>7. plugin'.header.length = g[Count + 1] - g[1]
    BY <1>6, <1>13
  <2>. QED  BY <1>6, <1>8, <1>13, <1>14, <2>1, <2>3, <2>4, <2>5, <2>6, <2>7 DEF HalfWritten
<1>18. WritingFits'
  <2>1. Count' = Count + 1 /\ Saver' = Saver /\ Others' = Others /\ Unsaved(handle + 1)' /\ handle' \in Handles'
    BY OpenRecordTypes
  <2>2. (\E a \in Offsets : Tiled(task.buffer, Others, a, plugin.offset))'
    BY <1>8, <1>11, <1>13, <2>1
  <2>3. Count' # 0
    BY <1>1, <2>1
  <2>. QED  BY <1>2, <1>6, <1>13, <1>14, <1>16, <1>17, <2>1, <2>2, <2>3 DEF WritingFits
<1>. QED  BY <1>1, <1>8, <1>9, <1>13, <1>14, <1>15, <1>18, OpenRecordTypes, WritingInv

LEMMA WriteRecordDataInv ==
  ASSUME Inv, WriteRecordData
  PROVE  Inv'
<1>1. /\ pc = "writing" /\ chunk.open
      /\ UNCHANGED <<session, disk, plugin, chunk, lastLoadSize, handle, chunkStart,
                     hadData, pc, pass, got, read, told>>
  BY DEF WriteRecordData
<1>2. /\ task \in Tasks /\ task.ptr \in Nat /\ task.length \in Nat /\ Size(task) \in Nat /\ task.ptr >= 1
      /\ task.ptr <= Size(task) /\ Size(task) >= 1 /\ MinBuffer <= Size(task) /\ MinBuffer \in Nat
      /\ MaxWrite \in 0 .. MinBuffer
      /\ plugin.header.numChunks = Count /\ Saver \in Owners
      /\ plugin.offset \in Nat /\ Count \in Nat /\ written[Saver] \in Seq(Nat) /\ Len(written[Saver]) = Count
      /\ Others \in Lengths /\ chunk.offset \in Nat
  BY <1>1, WritingTypes, Types, ConstantsAssumption DEF TaskFits, Count
<1>3. Count # 0 /\ plugin.offset >= 1
  BY <1>1 DEF Inv, WritingFits
<1>4. PICK at \in Offsets : Tiled(task.buffer, Others, at, plugin.offset)
  BY <1>1, <1>3 DEF Inv, WritingFits
<1>5. PICK f \in Places : HalfWritten(f)
  BY <1>1, <1>3 DEF Inv, WritingFits
<1>. PICK i, j : i = Count /\ j = written[Saver][i]
  OBVIOUS
<1>6. i \in Nat \ {0} /\ j \in Nat /\ i \in 1 .. Len(written[Saver]) /\ j = written[Saver][i]
  BY <1>2, <1>3
<1>7. PICK n \in 1 .. MaxWrite :
        /\ j + n <= MaxData /\ Allocatable(n)
        /\ task' = WriteBuf(task, [k \in 1 .. n |-> Byte(Saver, i, j + k)])
        /\ written' = [written EXCEPT ![Saver][i] = j + n]
  BY <1>1, <1>6 DEF WriteRecordData, Count
<1>8. n \in Nat \ {0} /\ n <= MinBuffer /\ task.ptr + n < WordSize
  BY <1>2, <1>7 DEF Allocatable
<1>9. PICK cells : cells = [k \in 1 .. n |-> Byte(Saver, i, j + k)]
  OBVIOUS
<1>10. cells \in Seq(Cells) /\ Len(cells) = n /\ \A k \in 1 .. n : cells[k] = Byte(Saver, i, j + k)
  <2>1. \A k \in 1 .. n : j + k \in Nat
    BY <1>6, <1>8
  <2>2. \A k \in 1 .. n : Byte(Saver, i, j + k) \in Cells
    BY <1>2, <1>6, <2>1, CellKinds
  <2>. QED  BY <1>8, <1>9, <2>2
<1>11. PICK u : u = task'
  OBVIOUS
<1>12. /\ u \in Tasks /\ u.ptr = task.ptr + n /\ u.length = task.length + n
       /\ WrittenTo(task.buffer, u.buffer, task.ptr, cells) /\ u.ptr <= Size(u)
  <2>1. Len(cells) <= Size(task)
    BY <1>2, <1>8, <1>10
  <2>2. u = WriteBuf(task, cells)
    BY <1>7, <1>9, <1>11
  <2>. QED  BY <1>2, <1>10, <2>1, <2>2, WriteBufWrites
<1>13. /\ Size(u) \in Nat /\ Size(u) >= Size(task) /\ u.ptr \in Nat
       /\ \A k \in 1 .. task.ptr : u.buffer[k] = task.buffer[k]
       /\ \A k \in 1 .. n : u.buffer[task.ptr + k] = Byte(Saver, i, j + k)
  <2>1. /\ u.buffer \in Seq(Cells) /\ Len(u.buffer) >= Len(task.buffer)
        /\ \A k \in 1 .. Len(task.buffer) : k <= task.ptr => u.buffer[k] = task.buffer[k]
        /\ \A k \in 1 .. n : u.buffer[task.ptr + k] = cells[k]
    BY <1>10, <1>12 DEF WrittenTo
  <2>2. \A k \in 1 .. task.ptr : k \in 1 .. Len(task.buffer) /\ k <= task.ptr
    BY <1>2 DEF Size
  <2>3. u.ptr \in Nat
    BY <1>12 DEF Tasks
  <2>. QED  BY <1>10, <2>1, <2>2, <2>3, LenProperties DEF Size
<1>14. /\ f[1] = plugin.offset + 1 /\ f[i] = chunk.offset
       /\ RecordsAt(task.buffer, Saver, written[Saver], i - 1, f)
       /\ BytesAt(task.buffer, Saver, i, j, chunk.offset)
       /\ task.ptr = chunk.offset + 1 + j
       /\ chunk.header = ChunkHeader(Saver, i, 0)
       /\ plugin.header.length = f[i] - f[1]
  BY <1>5 DEF HalfWritten
<1>15. PICK r : r = [written[Saver] EXCEPT ![i] = j + n]
  OBVIOUS
<1>16. /\ r \in Seq(Nat) /\ Len(r) = Count /\ r[i] = j + n
       /\ \A k \in 1 .. i - 1 : r[k] = written[Saver][k]
  <2>1. j + n \in Nat
    BY <1>6, <1>8
  <2>2. \A k \in 1 .. i - 1 : k \in 1 .. Len(written[Saver]) /\ k # i
    BY <1>2, <1>6
  <2>. QED  BY <1>2, <1>6, <1>15, <2>1, <2>2
<1>17. written' = [written EXCEPT ![Saver] = r]
  BY <1>7, <1>15
<1>18. /\ Saver' = Saver /\ written' \in Lengths /\ written'[Saver] = r /\ Count' = Count
       /\ Others' = Others /\ Unsaved(handle + 1)' /\ handle' \in Handles'
  BY <1>1, <1>16, <1>17, WritingOnly
<1>19. plugin.offset + 1 <= f[i]
  <2>1. f \in Places
    OBVIOUS
  <2>2. PICK t, g : t = FlushWriteChunk(task) /\ g = [f EXCEPT ![Count + 1] = task.ptr]
    OBVIOUS
  <2>3. RecordsAt(t.buffer, Saver, written[Saver], Count, g) /\ g \in Places
    BY <1>1, <1>3, <1>5, <2>2, FlushCompletes
  <2>4. g[1] <= g[i]
    BY <1>2, <1>6, <2>3 DEF RecordsAt
  <2>5. g[1] = f[1] /\ g[i] = f[i]
    <3>1. 1 \in Nat /\ i \in Nat /\ i # Count + 1 /\ 1 # Count + 1
      BY <1>2, <1>6
    <3>. QED  BY <2>2, <3>1 DEF Places
  <2>. QED  BY <1>14, <2>4, <2>5
<1>20. Tiled(u.buffer, Others, at, plugin.offset)
  <2>1. \A k \in 2 .. plugin.offset : k \in 1 .. task.ptr
    BY <1>2, <1>6, <1>14, <1>19
  <2>2. \A k \in 2 .. plugin.offset : u.buffer[k] = task.buffer[k]
    BY <1>13, <2>1
  <2>. QED  BY <1>2, <1>4, <2>2, TiledSame
<1>21. RecordsAt(u.buffer, Saver, r, i - 1, f)
  <2>1. i - 1 \in 0 .. Len(written[Saver]) /\ (i - 1) + 1 = i /\ f[1] \in Nat /\ f[i] \in Nat
    <3>1. f[1] \in Nat /\ f[i] \in Nat
      BY <1>6 DEF Places
    <3>2. \A x, y \in Nat : x # 0 /\ x \in 1 .. y => x - 1 \in 0 .. y /\ (x - 1) + 1 = x
      OBVIOUS
    <3>3. i \in Nat /\ i # 0 /\ Len(written[Saver]) \in Nat
      BY <1>2, <1>6
    <3>. QED  BY <1>6, <3>1, <3>2, <3>3
  <2>2. \A k \in f[1] + 1 .. f[i] : k \in 1 .. task.ptr
    <3>1. f[i] <= task.ptr
      BY <1>2, <1>6, <1>14
    <3>. QED  BY <1>2, <2>1, <3>1
  <2>3. \A k \in f[1] + 1 .. f[(i - 1) + 1] : u.buffer[k] = task.buffer[k]
    BY <1>13, <2>1, <2>2
  <2>4. RecordsAt(u.buffer, Saver, written[Saver], i - 1, f)
    BY <1>2, <1>14, <2>1, <2>3, RecordsSame
  <2>. QED  BY <1>16, <2>4 DEF RecordsAt
<1>22. BytesAt(u.buffer, Saver, i, j + n, chunk.offset)
  <2>. SUFFICES ASSUME NEW k \in 1 .. j + n
                PROVE  u.buffer[chunk.offset + 1 + k] = Byte(Saver, i, k)
    BY DEF BytesAt
  <2>1. CASE k <= j
    <3>1. \A a, b, x \in Nat : x \in 1 .. a + b /\ x <= a =>
             x \in 1 .. a /\ \A o \in Nat : o + 1 + x \in 1 .. o + 1 + a
      OBVIOUS
    <3>2. n \in Nat /\ k \in Nat /\ j \in Nat /\ chunk.offset \in Nat
      BY <1>2, <1>6, <1>8
    <3>3. k \in 1 .. j /\ chunk.offset + 1 + k \in 1 .. task.ptr
      BY <1>14, <2>1, <3>1, <3>2
    <3>. QED  BY <1>13, <1>14, <3>3 DEF BytesAt
  <2>2. CASE ~(k <= j)
    <3>1. \A a, b, x \in Nat : x \in 1 .. a + b /\ ~(x <= a) =>
             x - a \in 1 .. b /\ \A o \in Nat : o + 1 + x = o + 1 + a + (x - a) /\ a + (x - a) = x
      OBVIOUS
    <3>2. n \in Nat /\ k \in Nat /\ j \in Nat /\ chunk.offset \in Nat
      BY <1>2, <1>6, <1>8
    <3>3. k - j \in 1 .. n /\ chunk.offset + 1 + k = task.ptr + (k - j) /\ j + (k - j) = k
      BY <1>14, <2>2, <3>1, <3>2
    <3>. QED  BY <1>13, <3>3
  <2>. QED  BY <2>1, <2>2
<1>23. LengthAccounts'
  <2>1. task.ptr = task.length + 1 + 1 + 1
    BY <1>1, <1>2, <1>3 DEF Inv, BufferSound, LengthAccounts
  <2>2. u.ptr = u.length + 1 + 1 + 1
    BY <1>2, <1>8, <1>12, <2>1
  <2>3. Count > 0
    BY <1>2, <1>3
  <2>. QED  BY <1>1, <1>2, <1>11, <2>2, <2>3 DEF LengthAccounts
<1>24. TaskFits'
  <2>1. 1 <= u.ptr /\ u.ptr < WordSize /\ MinBuffer <= Size(u)
    BY <1>2, <1>8, <1>12, <1>13
  <2>. QED  BY <1>11, <2>1 DEF TaskFits
<1>25. HalfWritten(f)'
  <2>1. u.ptr = chunk.offset + 1 + (j + n)
    BY <1>2, <1>6, <1>8, <1>12, <1>14
  <2>. QED  BY <1>1, <1>11, <1>14, <1>16, <1>18, <1>21, <1>22, <2>1 DEF HalfWritten
<1>26. WritingFits'
  <2>1. (\E a \in Offsets : Tiled(task.buffer, Others, a, plugin.offset))'
    BY <1>1, <1>11, <1>18, <1>20
  <2>. QED  BY <1>1, <1>2, <1>3, <1>18, <1>24, <1>25, <2>1, WritingTypes DEF WritingFits
<1>. QED  BY <1>1, <1>11, <1>12, <1>18, <1>23, <1>26, Types, WritingInv

LEMMA SaveReturnsInv ==
  ASSUME Inv, SaveReturns
  PROVE  Inv'
<1>1. /\ pc = "writing" /\ pc' = "saving" /\ handle' = handle + 1
      /\ chunk' = [chunk EXCEPT !.open = FALSE]
      /\ plugin' = [plugin EXCEPT !.header = FlushedHeader(task)]
      /\ task' = IF FlushedHeader(task).numChunks > 0
                 THEN BackPatch(FlushWriteChunk(task), plugin.offset, FlushedHeader(task))
                 ELSE FlushWriteChunk(task)
      /\ UNCHANGED <<session, disk, lastLoadSize, chunkStart, hadData, pass, written,
                     got, read, told>>
  BY DEF SaveReturns
<1>2. /\ task \in Tasks /\ task.ptr \in Nat /\ task.length \in Nat /\ Size(task) \in Nat
      /\ task.ptr <= Size(task) /\ TaskFits /\ handle \in Nat
      /\ plugin.header.numChunks = Count /\ Saver \in Owners /\ Count \in Nat
      /\ plugin.offset \in Nat /\ written[Saver] \in Seq(Nat) /\ Len(written[Saver]) = Count
      /\ Others \in Lengths /\ Others[Saver] = <<>> /\ written \in Lengths
  BY <1>1, WritingTypes, Types DEF Count
<1>3. /\ SessionFits' /\ DiskFits' /\ ReadsWhatWasWritten' /\ RestFits'
      /\ WritingFits' /\ WalkFits' /\ LoadingFits' /\ ToldFits'
  <2>1. SessionFits' /\ DiskFits'
    BY <1>1, SessionSame, DiskSame DEF Inv
  <2>2. read' = NothingRead
    BY <1>1 DEF Inv, RestFits, Loading
  <2>. QED  BY <1>1, <2>1, <2>2 DEF ReadsWhatWasWritten, RestFits, Resting, Loading, NothingRead,
             WritingFits, WalkFits, LoadingFits, ToldFits
<1>4. Unsaved(handle)'
  <2>1. Unsaved(handle + 1)
    BY <1>1 DEF Inv, WritingFits
  <2>. QED  BY <1>1, <2>1 DEF Unsaved, Handles, PluginOf, session
<1>5. chunk' \in [header : ChunkHeaders, offset : Nat, open : BOOLEAN]
  BY <1>1, Types
<1>6. ASSUME task' \in Tasks, task'.ptr = task.ptr, Size(task') = Size(task),
             task'.ptr = task'.length + 1, FlushedHeader(task) \in PluginHeaders,
             NEW at \in Offsets, Tiled(task'.buffer, written, at, task.ptr)
      PROVE  Inv'
  <2>1. plugin' \in [header : PluginHeaders, offset : Nat]
    BY <1>1, <1>6, Types
  <2>2. handle' \in Nat
    BY <1>1, <1>2
  <2>3. TypeOK'
    BY <1>1, <1>5, <1>6, <2>1, <2>2, Types DEF TypeOK, session, disk, Handles, Lengths, Tasks
  <2>4. InBuffer' /\ LengthAccounts'
    <3>1. task'.ptr <= Size(task')
      BY <1>2, <1>6
    <3>2. task'.ptr = task'.length + 1 + 0 + 0
      BY <1>2, <1>6 DEF Tasks
    <3>. QED  BY <1>1, <1>6, <3>1, <3>2 DEF InBuffer, LengthAccounts, Size
  <2>5. SavingFits'
    <3>1. TaskFits'
      BY <1>2, <1>6 DEF TaskFits, Size
    <3>. QED  BY <1>1, <1>4, <1>6, <3>1 DEF SavingFits
  <2>. QED  BY <1>3, <2>3, <2>4, <2>5 DEF Inv, BufferSound
<1>7. CASE Count = 0
  <2>1. ~chunk.open /\ \E at \in Offsets : Tiled(task.buffer, written, at, task.ptr)
    BY <1>1, <1>7 DEF Inv, WritingFits
  <2>2. task' = task /\ FlushedHeader(task) = plugin.header
    BY <1>1, <1>2, <1>7, <2>1 DEF FlushedHeader, FlushWriteChunk
  <2>3. task.ptr = task.length + 1
    BY <1>1, <1>2, <1>7, <2>1 DEF Inv, BufferSound, LengthAccounts
  <2>4. plugin.header \in PluginHeaders
    BY Types
  <2>. QED  BY <1>2, <1>6, <2>1, <2>2, <2>3, <2>4
<1>8. CASE Count # 0
  <2>1. chunk.open /\ plugin.offset >= 1
    BY <1>1, <1>8 DEF Inv, WritingFits
  <2>2. PICK at \in Offsets : Tiled(task.buffer, Others, at, plugin.offset)
    BY <1>1, <1>8 DEF Inv, WritingFits
  <2>3. PICK f \in Places : HalfWritten(f)
    BY <1>1, <1>8 DEF Inv, WritingFits
  <2>4. PICK t, g : t = FlushWriteChunk(task) /\ g = [f EXCEPT ![Count + 1] = task.ptr]
    OBVIOUS
  <2>5. /\ g \in Places /\ g[1] = plugin.offset + 1 /\ g[Count + 1] = task.ptr
        /\ RecordsAt(t.buffer, Saver, written[Saver], Count, g)
        /\ t \in Tasks /\ t.ptr = task.ptr /\ t.length = task.length + 1 /\ Size(t) = Size(task)
        /\ plugin.offset + 1 < task.ptr
        /\ \A i \in 1 .. plugin.offset + 1 : t.buffer[i] = task.buffer[i]
        /\ FlushedHeader(task) = PluginHeader(Saver, Count, task.ptr - g[1])
    BY <1>1, <1>8, <2>3, <2>4, FlushCompletes
  <2>6. PICK header : header = PluginHeader(Saver, Count, task.ptr - g[1])
    OBVIOUS
  <2>7. header \in PluginHeaders /\ header.numChunks > 0 /\ header \in Cells
    <3>1. task.ptr - g[1] \in Nat
      BY <1>2, <2>5
    <3>2. header \in PluginHeaders
      BY <1>2, <2>6, <3>1, HeaderTypes
    <3>3. Count > 0
      BY <1>2, <1>8
    <3>. QED  BY <2>6, <3>2, <3>3, CellKinds DEF PluginHeader
  <2>8. PICK u : u = task'
    OBVIOUS
  <2>9. /\ u \in Tasks /\ u.ptr = t.ptr /\ u.length = t.length + 1 /\ Size(u) = Size(t)
        /\ u.buffer[plugin.offset + 1] = header
        /\ \A i \in 1 .. Size(t) : i # plugin.offset + 1 => u.buffer[i] = t.buffer[i]
    <3>1. u = BackPatch(t, plugin.offset, header)
      BY <1>1, <2>4, <2>5, <2>6, <2>7, <2>8
    <3>2. t.ptr <= Size(t) /\ plugin.offset \in Nat /\ plugin.offset < t.ptr
      BY <1>2, <2>5
    <3>. QED  BY <2>5, <2>7, <3>1, <3>2, BackPatchWrites
  <2>10. Tiled(u.buffer, Others, at, plugin.offset)
    <3>1. \A k \in 2 .. plugin.offset : k \in 1 .. Size(t) /\ k # plugin.offset + 1 /\ k \in 1 .. plugin.offset + 1
      BY <1>2, <2>5
    <3>2. \A k \in 2 .. plugin.offset : u.buffer[k] = task.buffer[k]
      BY <2>5, <2>9, <3>1
    <3>. QED  BY <1>2, <2>2, <3>2, TiledSame
  <2>11. RecordsAt(u.buffer, Saver, written[Saver], Count, g)
    <3>1. \A k \in g[1] + 1 .. g[Count + 1] : k \in 1 .. Size(t) /\ k # plugin.offset + 1
      BY <1>2, <2>5
    <3>2. \A k \in g[1] + 1 .. g[Count + 1] : u.buffer[k] = t.buffer[k]
      BY <2>9, <3>1
    <3>3. Count \in 0 .. Len(written[Saver])
      BY <1>2
    <3>. QED  BY <1>2, <2>5, <3>2, <3>3, RecordsSame
  <2>12. \E h \in Offsets : Tiled(u.buffer, written, h, task.ptr)
    <3>. PICK s \in Nat, r \in Seq(Nat), p \in Owners, w \in Lengths :
           /\ s = plugin.offset /\ r = written[Saver] /\ p = Saver /\ w = Others
      BY <1>2
    <3>. PICK b, e : b = u.buffer /\ e = task.ptr
      OBVIOUS
    <3>1. r # <<>> /\ Len(r) = Count
      BY <1>2, <1>8
    <3>2. written = [w EXCEPT ![p] = r] /\ w[p] = <<>>
      BY <1>2 DEF Others, Lengths
    <3>3. b[s + 1] = PluginHeader(p, Len(r), e - g[1])
      BY <2>6, <2>9, <3>1
    <3>4. e = g[Len(r) + 1] /\ RecordsAt(b, p, r, Len(r), g) /\ g[1] = s + 1 /\ g \in Places
      BY <2>5, <2>11, <3>1
    <3>5. Tiled(b, w, at, s) /\ s >= 1
      BY <2>1, <2>10
    <3>6. PICK v : v = [w EXCEPT ![p] = r]
      OBVIOUS
    <3>7. s \in Nat /\ r \in Seq(Nat) /\ p \in Owners /\ w \in Lengths /\ at \in Offsets /\ e = g[Len(r) + 1]
      BY <3>4

    <3>8. \E h \in Offsets : Tiled(b, v, h, e)
      BY ONLY <3>1, <3>2, <3>3, <3>4, <3>5, <3>6, <3>7, TiledMore
    <3>. QED  BY <3>2, <3>6, <3>8
  <2>13. task.ptr = task.length + 1 + 1 + 1
    BY <1>1, <1>2, <1>8, <2>1 DEF Inv, BufferSound, LengthAccounts
  <2>14. u.ptr = u.length + 1
    BY <1>2, <2>5, <2>9, <2>13
  <2>. QED  BY <1>6, <2>5, <2>6, <2>7, <2>8, <2>9, <2>12, <2>14
<1>. QED  BY <1>7, <1>8

-----------------------------------------------------------------------------
(***************************************************************************)
(* A load.                                                                 *)
(***************************************************************************)
LEMMA LoadFileInv ==
  ASSUME Inv, pc \in {"playing", "preloaded"}, NEW kind \in {"preLoad", "load"}, LoadFile(kind)
  PROVE  Inv'
<1>1. /\ pass' = kind
      /\ UNCHANGED <<session, disk, plugin, chunk, handle, chunkStart, written, got, read>>
  BY DEF LoadFile
<1>2. read = NothingRead /\ handle = 0 /\ written = NoneWritten
  BY DEF Inv, RestFits, Resting, Loading
<1>3. SessionFits' /\ DiskFits'
  BY <1>1, SessionSame, DiskSame DEF Inv
<1>4. ReadsWhatWasWritten' /\ RestFits'
  BY <1>1, <1>2 DEF ReadsWhatWasWritten, RestFits, Loading, Resting, NothingRead
<1>5. NobodyTold \in [Owners -> Calls]
  BY DEF NobodyTold, Calls
<1>6. CASE GiveUp(kind)
  <2>1. /\ told' \in {ToldNewGame(NobodyTold), NobodyTold}
        /\ lastLoadSize' \in {lastLoadSize, 0, Len(file)}
        /\ pc' \in {"playing", "preloaded"}
        /\ task' = NoTask /\ hadData' = hadData
    BY <1>6 DEF GiveUp
  <2>2. told' \in [Owners -> Calls]
    BY <1>5, <2>1, ToldNewGameCalls
  <2>3. TypeOK'
    <3>1. lastLoadSize' \in Nat
      BY <2>1, Types
    <3>2. pc' \in {"playing", "saving", "writing", "preloaded", "loading", "reading",
                   "loaded", "killed", "undefined"}
      BY <2>1
    <3>. QED  BY <1>1, <2>1, <2>2, <3>1, <3>2, NothingTypes, Types
                 DEF TypeOK, session, disk, Handles, Lengths, Tasks, Calls
  <2>4. InBuffer' /\ LengthAccounts'
    BY <2>1 DEF InBuffer, LengthAccounts, NoTask, Size
  <2>5. SavingFits' /\ WritingFits' /\ WalkFits' /\ LoadingFits' /\ ToldFits'
    BY <2>1 DEF SavingFits, WritingFits, WalkFits, LoadingFits, ToldFits, Loading
  <2>. QED  BY <1>3, <1>4, <2>3, <2>4, <2>5 DEF Inv, BufferSound
<1>7. CASE OpenFile
  <2>1. /\ Accepted /\ told' = NobodyTold /\ lastLoadSize' = Len(file) /\ pc' = "loading"
        /\ task' = [buffer |-> file, ptr |-> 1, length |-> Len(file)]
        /\ hadData' = {}
    BY <1>7 DEF OpenFile
  <2>2. file \in Seq(Cells) /\ Len(file) \in Nat /\ Len(file) >= 1
    <3>1. file \in Seq(Cells) /\ file # <<>>
      BY <2>1, Types DEF Accepted, NoFile
    <3>2. Len(file) \in Nat /\ Len(file) # 0
      BY <3>1
    <3>. QED  BY <3>1, <3>2
  <2>3. task' \in Tasks /\ task'.ptr = 1 /\ task'.buffer = file /\ task'.length = Len(file)
    BY <2>1, <2>2 DEF Tasks
  <2>4. TypeOK'
    BY <1>1, <1>5, <2>1, <2>2, <2>3, Types DEF TypeOK, session, disk, Handles, Lengths, Tasks, Calls
  <2>5. InBuffer' /\ LengthAccounts'
    BY <2>1, <2>2, <2>3 DEF InBuffer, LengthAccounts, Size
  <2>6. SavingFits' /\ WritingFits'
    BY <2>1 DEF SavingFits, WritingFits
  <2>7. LoadingFits'
    BY <1>1, <2>1, <2>2, <2>3 DEF LoadingFits, Accepted, Size, disk
  <2>8. ToldFits'
    <3>1. \A h \in Handles : PluginOf(h) \in Owners
      BY HandleTypes, Types
    <3>2. Handles' = Handles /\ \A h \in Handles : PluginOf(h)' = PluginOf(h)
      BY <1>1 DEF Handles, PluginOf, session
    <3>3. \A h \in Handles' : told'[PluginOf(h)'] = <<>>
      BY <2>1, <3>1, <3>2 DEF NobodyTold
    <3>. QED  BY <2>1, <3>3 DEF ToldFits
  <2>9. WalkFits'
    <3>. SUFFICES ASSUME ~torn
                  PROVE  \E at \in Offsets : Tiled(file, saved, at, Len(file)) /\ AtBoundary(at)'
      BY <1>1, <2>1, <2>3 DEF WalkFits, disk
    <3>1. PICK at \in Offsets : Tiled(file, saved, at, Len(file))
      BY <2>1 DEF Inv, DiskFits, Accepted
    <3>2. Boundary(saved, at, Len(file), 1)
      BY <3>1 DEF Tiled
    <3>3. \A p \in HasData(saved) : ~(at[p][1] <= 1)
      <4>1. \A p \in HasData(saved) : at[p][1] \in Nat /\ at[p][1] >= 2
        BY <3>1, Types, OffsetTypes DEF Tiled, PluginAt, HasData
      <4>. QED  BY <4>1
    <3>4. HeardUpTo(at, 1)'
      BY <1>1, <2>1, <3>3 DEF HeardUpTo, disk
    <3>5. AtBoundary(at)'
      BY <1>1, <2>3, <3>2, <3>4 DEF AtBoundary, disk
    <3>. QED  BY <3>1, <3>5
  <2>. QED  BY <1>3, <1>4, <2>4, <2>5, <2>6, <2>7, <2>8, <2>9 DEF Inv, BufferSound
<1>. QED  BY <1>6, <1>7 DEF LoadFile

LEMMA GameLoadFailsInv ==
  ASSUME Inv, GameLoadFails
  PROVE  Inv'
<1>1. /\ pc = "preloaded" /\ pc' = "playing"
      /\ UNCHANGED <<session, disk, task, plugin, chunk, lastLoadSize, handle, chunkStart,
                     hadData, pass, written, got, read, told>>
  BY DEF GameLoadFails
<1>2. TypeOK'
  BY <1>1, Types DEF TypeOK, session, disk, Handles, Lengths, Tasks
<1>3. InBuffer' /\ LengthAccounts' /\ ReadsWhatWasWritten' /\ RestFits'
  BY <1>1 DEF Inv, BufferSound, InBuffer, LengthAccounts, ReadsWhatWasWritten, RestFits, Loading, Resting, disk
<1>4. SessionFits' /\ DiskFits'
  BY <1>1, SessionSame, DiskSame DEF Inv
<1>5. SavingFits' /\ WritingFits' /\ WalkFits' /\ LoadingFits' /\ ToldFits'
  BY <1>1 DEF SavingFits, WritingFits, WalkFits, LoadingFits, ToldFits, Loading
<1>. QED  BY <1>2, <1>3, <1>4, <1>5 DEF Inv, BufferSound

(***************************************************************************)
(* Between its header and its end, there is no other plugin.               *)
(***************************************************************************)
LEMMA PlacesOf ==
  ASSUME NEW b, NEW w \in Lengths, NEW at \in Offsets, NEW last \in Nat, Tiled(b, w, at, last),
         NEW q \in HasData(w)
  PROVE  /\ q \in Owners /\ w[q] \in Seq(Nat) /\ w[q] # <<>> /\ Len(w[q]) \in Nat
         /\ at[q] \in Places /\ \A i \in Nat : at[q][i] \in Nat
         /\ at[q][1] \in Nat /\ End(w, at, q) \in Nat
         /\ at[q][1] >= 2 /\ at[q][1] < End(w, at, q) /\ End(w, at, q) <= last
         /\ b[at[q][1]] = PluginHeader(q, Len(w[q]), End(w, at, q) - at[q][1])
         /\ RecordsAt(b, q, w[q], Len(w[q]), at[q])
         /\ Boundary(w, at, last, End(w, at, q))
<1>1. q \in Owners /\ w[q] # <<>>
  BY DEF HasData
<1>2. /\ w[q] \in Seq(Nat) /\ Len(w[q]) \in Nat /\ at[q] \in Places /\ at[q][1] \in Nat
      /\ End(w, at, q) \in Nat /\ \A i \in Nat : at[q][i] \in Nat
  BY <1>1, OffsetTypes
<1>3. PluginAt(b, w, at, q) /\ End(w, at, q) <= last /\ Boundary(w, at, last, End(w, at, q))
  BY DEF Tiled
<1>4. /\ at[q][1] >= 2 /\ b[at[q][1]] = PluginHeader(q, Len(w[q]), End(w, at, q) - at[q][1])
      /\ RecordsAt(b, q, w[q], Len(w[q]), at[q])
  BY <1>3 DEF PluginAt
<1>5. at[q][1] < End(w, at, q)
  BY <1>1, <1>2, <1>4, RecordsAscend DEF End
<1>. QED  BY <1>1, <1>2, <1>3, <1>4, <1>5

LEMMA NoneBetween ==
  ASSUME NEW b, NEW w \in Lengths, NEW at \in Offsets, NEW last \in Nat, Tiled(b, w, at, last),
         NEW q \in HasData(w), NEW o \in at[q][1] .. End(w, at, q), NEW p \in HasData(w)
  PROVE  at[p][1] <= o <=> p = q \/ at[p][1] <= at[q][1] - 1
<1>1. /\ at[q][1] \in Nat /\ End(w, at, q) \in Nat /\ at[q][1] < End(w, at, q)
      /\ at[p][1] \in Nat /\ End(w, at, p) \in Nat /\ at[p][1] < End(w, at, p)
  BY PlacesOf
<1>2. o \in Nat /\ at[q][1] <= o /\ o <= End(w, at, q)
  BY <1>1
<1>3. CASE p = q
  BY <1>2, <1>3
<1>4. CASE p # q
  <2>1. End(w, at, p) < at[q][1] \/ End(w, at, q) < at[p][1]
    BY <1>4 DEF Tiled
  <2>. QED  BY <1>1, <1>2, <1>4, <2>1
<1>. QED  BY <1>3, <1>4

(***************************************************************************)
(* What the loop of a load finds in a whole file.                          *)
(***************************************************************************)
LEMMA WalkTypes ==
  ASSUME Inv, Loading, ~torn
  PROVE  /\ task.buffer = file /\ task.length = Len(file) /\ Size(task) = Len(file)
         /\ Len(file) \in Nat /\ Len(file) < WordSize /\ pc # "loaded" /\ file # NoFile
         /\ task.ptr \in Nat /\ task.ptr <= Len(file) /\ saved \in Lengths
         /\ \A h \in Handles : PluginOf(h) \in Owners
<1>1. task.buffer = file /\ task.length = Len(file) /\ pc # "loaded" /\ file # NoFile
  BY DEF Inv, WalkFits, LoadingFits, Accepted
<1>2. Size(task) = Len(file) /\ task.ptr \in Nat /\ Len(file) \in Nat /\ saved \in Lengths
      /\ \A h \in Handles : PluginOf(h) \in Owners
  BY <1>1, Types, HandleTypes, LenProperties DEF Size
<1>3. task.ptr <= Size(task) /\ Len(file) < WordSize
  BY <1>1 DEF Inv, BufferSound, InBuffer, DiskFits
<1>. QED  BY <1>1, <1>2, <1>3

LEMMA AheadIs ==
  ASSUME Inv, pc = "loading", ~torn, NEW at \in Offsets, Tiled(file, saved, at, Len(file)),
         AtBoundary(at)
  PROVE  \/ task.ptr = Len(file) /\ Remain(task) = 0
         \/ /\ Remain(task) >= 1 /\ Valid(task, 1)
            /\ \E q \in HasData(saved) :
                 /\ at[q][1] = task.ptr + 1 /\ at[q][1] < End(saved, at, q) /\ End(saved, at, q) <= Len(file)
                 /\ Header = PluginHeader(q, Len(saved[q]), End(saved, at, q) - at[q][1])
                 /\ LengthIn(Header) > 0 /\ Valid(BehindHeader, Header.length)
<1>1. /\ task.buffer = file /\ task.length = Len(file) /\ Size(task) = Len(file)
      /\ Len(file) \in Nat /\ Len(file) < WordSize /\ WordSize \in Nat
      /\ task.ptr \in Nat /\ task.ptr <= Len(file) /\ saved \in Lengths /\ task \in Tasks
  BY WalkTypes, Types, ConstantsAssumption DEF Loading
<1>2. Remain(task) = Len(file) - task.ptr
  <2>1. Len(file) - task.ptr \in Nat /\ Len(file) - task.ptr < WordSize
    BY <1>1
  <2>2. (Len(file) - task.ptr) % WordSize = Len(file) - task.ptr
    BY <2>1, RemainIs
  <2>. QED  BY <1>1, <2>2 DEF Remain
<1>3. CASE task.ptr = Len(file)
  BY <1>1, <1>2, <1>3
<1>4. CASE task.ptr # Len(file)
  <2>1. PICK q \in HasData(saved) : at[q][1] = task.ptr + 1
    BY <1>4 DEF AtBoundary, Boundary
  <2>2. /\ q \in Owners /\ at[q][1] \in Nat /\ End(saved, at, q) \in Nat
        /\ at[q][1] < End(saved, at, q) /\ End(saved, at, q) <= Len(file)
        /\ file[at[q][1]] = PluginHeader(q, Len(saved[q]), End(saved, at, q) - at[q][1])
    BY <1>1, PlacesOf
  <2>3. Header = PluginHeader(q, Len(saved[q]), End(saved, at, q) - at[q][1])
    BY <1>1, <2>1, <2>2 DEF Header, Peek
  <2>4. Remain(task) >= 1 /\ Valid(task, 1)
    BY <1>1, <1>2, <1>4 DEF Valid
  <2>5. Header.cell = "plugin" /\ Header.length = End(saved, at, q) - at[q][1]
    BY <2>3 DEF PluginHeader
  <2>6. LengthIn(Header) > 0
    BY <2>2, <2>5 DEF LengthIn
  <2>7. BehindHeader.ptr = task.ptr + 1 /\ BehindHeader.buffer = task.buffer
    BY <1>1 DEF BehindHeader, Advance, Tasks
  <2>8. Valid(BehindHeader, Header.length)
    BY <1>1, <2>1, <2>2, <2>5, <2>7 DEF Valid, Size
  <2>. QED  BY <2>1, <2>2, <2>3, <2>4, <2>6, <2>8
<1>. QED  BY <1>3, <1>4

(***************************************************************************)
(* In the callback of a plugin, the open record is one of its own, and the *)
(* position in it is that of the bytes read.                               *)
(***************************************************************************)
\* What is left of the open record.
Left == IF chunk.open THEN chunk.header.length ELSE 0

LEMMA InRecordIs ==
  ASSUME Inv, pc = "reading", ~torn, NEW at \in Offsets, Tiled(file, saved, at, Len(file)),
         AtPlugin(at), NEW q, q = LoadReader
  PROVE  /\ q \in HasData(saved) /\ saved[q] \in Seq(Nat) /\ Record \in 0 .. Len(saved[q]) /\ Left \in Nat
         /\ got[2] \in Nat
         /\ task.ptr + Left = at[q][Record + 1] /\ at[q][Record + 1] \in Nat
         /\ at[q][1] <= task.ptr /\ at[q][Record + 1] <= End(saved, at, q)
         /\ chunk.open => /\ Record \in 1 .. Len(saved[q]) /\ RecordLength = saved[q][Record]
                          /\ got[2] + Left = RecordLength
                          /\ task.ptr = at[q][Record] + 1 + got[2]
<1>0. \A o, m, l \in Nat : o + 1 + m + l = o + 1 + (m + l)
  OBVIOUS
<1>1. /\ q \in HasData(saved) /\ got \in Nat \X Nat /\ saved \in Lengths /\ Len(file) \in Nat
      /\ chunk.header \in ChunkHeaders /\ chunk.open \in BOOLEAN
      /\ Record <= Len(saved[q]) /\ InRecord(at) /\ task.ptr \in Nat
  BY Types, WalkTypes DEF AtPlugin, Loading
<1>. DEFINE r == saved[q]
            n == Len(r)
            f == at[q]
            i == Record
            k == got[2]
<1>2. /\ r \in Seq(Nat) /\ n \in Nat /\ f \in Places /\ \A x \in Nat : f[x] \in Nat
      /\ End(saved, at, q) = f[n + 1] /\ RecordsAt(file, q, r, n, f) /\ r # <<>>
  BY <1>1, PlacesOf DEF End
<1>3. i \in 0 .. n /\ k \in Nat /\ chunk.header.length \in Nat /\ Left \in Nat
  BY <1>1, <1>2 DEF Record, ChunkHeaders, Left
<1>4. /\ r[i] \in Nat \/ i = 0
      /\ \A x \in 1 .. n : r[x] \in Nat /\ f[x] \in Nat /\ f[x + 1] \in Nat /\ f[n + 1] \in Nat /\ f[1] \in Nat
  <2>1. n + 1 \in Nat /\ 1 \in Nat /\ \A x \in 1 .. n : x \in Nat /\ x + 1 \in Nat
    BY <1>2
  <2>2. \A x \in 1 .. n : r[x] \in Nat
    BY <1>2
  <2>3. i = 0 \/ i \in 1 .. n
    BY <1>2, <1>3
  <2>. QED  BY <1>2, <2>1, <2>2, <2>3
<1>5. \A x \in 1 .. n : f[x + 1] = f[x] + 1 + r[x] /\ f[1] <= f[x] /\ f[x + 1] <= f[n + 1]
  BY <1>2 DEF RecordsAt
<1>6. f[1] <= f[n + 1] /\ f[1] \in Nat /\ f[n + 1] \in Nat
  <2>1. 1 \in 1 .. n
    BY <1>2
  <2>. QED  BY <1>4, <1>5, <2>1
<1>7. CASE chunk.open
  <2>1. i >= 1 /\ k + chunk.header.length = RecordLength /\ task.ptr = f[i] + 1 + k
    BY <1>1, <1>7 DEF InRecord
  <2>2. i \in 1 .. n
    BY <1>2, <1>3, <2>1
  <2>3. RecordLength = r[i]
    BY <1>1 DEF RecordLength
  <2>4. /\ f[i + 1] = f[i] + 1 + r[i] /\ f[1] <= f[i] /\ f[i + 1] <= f[n + 1]
        /\ f[i] \in Nat /\ f[i + 1] \in Nat /\ r[i] \in Nat
    BY <1>4, <1>5, <2>2
  <2>. PICK first \in Nat, offset \in Nat, done \in Nat, more \in Nat :
         first = f[1] /\ offset = f[i] /\ done = k /\ more = Left
    BY <1>3, <1>6, <2>4
  <2>5. task.ptr + Left = f[i + 1]
    <3>1. done + more = r[i] /\ task.ptr = offset + 1 + done /\ f[i + 1] = offset + 1 + r[i]
      BY <1>7, <2>1, <2>3, <2>4 DEF Left
    <3>2. offset + 1 + done + more = offset + 1 + (done + more)
      BY <1>0
    <3>. QED  BY <3>1, <3>2
  <2>6. f[1] <= task.ptr
    <3>1. first <= offset /\ task.ptr = offset + 1 + done
      BY <2>1, <2>4
    <3>2. first <= offset + 1 + done
      BY <3>1
    <3>. QED  BY <3>1, <3>2
  <2>7. k + Left = RecordLength
    BY <1>7, <2>1 DEF Left
  <2>. QED  BY <1>1, <1>2, <1>3, <2>1, <2>2, <2>3, <2>4, <2>5, <2>6, <2>7
<1>8. CASE ~chunk.open
  <2>1. i \in {0, n} /\ task.ptr = f[i + 1] /\ Left = 0
    BY <1>1, <1>8 DEF InRecord, Left
  <2>2. f[i + 1] \in Nat /\ f[1] <= f[i + 1] /\ f[i + 1] <= f[n + 1]
    <3>1. 0 + 1 = 1
      OBVIOUS
    <3>. QED  BY <1>6, <2>1, <3>1
  <2>. QED  BY <1>1, <1>2, <1>3, <1>8, <2>1, <2>2
<1>. QED  BY <1>7, <1>8

LEMMA HandlesSame ==
  ASSUME UNCHANGED session
  PROVE  /\ Handles' = Handles /\ \A h : PluginOf(h)' = PluginOf(h)
         /\ \A h, kind : HasCallback(h, kind)' = HasCallback(h, kind)
<1>1. loaded' = loaded /\ registers' = registers
  BY DEF session
<1>2. Handles' = Handles /\ \A h : PluginOf(h)' = PluginOf(h)
  BY <1>1 DEF Handles, PluginOf
<1>3. CallbacksSize' = CallbacksSize
  BY <1>1 DEF CallbacksSize, Handles, PluginOf
<1>4. \A h, kind : HasCallback(h, kind)' = HasCallback(h, kind)
  BY <1>1, <1>2, <1>3 DEF HasCallback
<1>. QED  BY <1>2, <1>4

(***************************************************************************)
(* What a step within a load has to keep.                                  *)
(***************************************************************************)
LEMMA LoadingInv ==
  ASSUME Inv, Loading, pc' \in {"loading", "reading", "loaded"},
         UNCHANGED <<session, disk, lastLoadSize, pass, written>>,
         task' \in Tasks, task'.length = task.length, Size(task') >= 1,
         plugin' \in [header : PluginHeaders, offset : Nat],
         chunk' \in [header : ChunkHeaders, offset : Nat, open : BOOLEAN],
         handle' \in Nat, pc' = "reading" => handle' \in Handles,
         chunkStart' \in Nat, hadData' \subseteq Handles, got' \in Nat \X Nat,
         told' \in [Owners -> Calls],
         \A h \in hadData' : HasCallback(h, pass) => told'[PluginOf(h)] # <<>>,
         ~torn => /\ task'.ptr <= Size(task') /\ read'.want = read'.got
                  /\ WalkFits' /\ ToldFits'
  PROVE  Inv'
<1>1. TypeOK'
  BY Types DEF TypeOK, session, disk, Handles, Lengths, Tasks, Calls
<1>2. /\ pc' # "saving" /\ pc' # "writing" /\ torn' = torn
      /\ pc' \notin {"playing", "preloaded", "killed"}
  BY DEF disk
<1>3. InBuffer' /\ LengthAccounts' /\ ReadsWhatWasWritten' /\ RestFits'
  <2>1. InBuffer'
    BY <1>2 DEF InBuffer, Size
  <2>2. LengthAccounts'
    BY <1>2 DEF LengthAccounts
  <2>3. ReadsWhatWasWritten'
    BY <1>2 DEF ReadsWhatWasWritten
  <2>4. RestFits'
    BY <1>2 DEF RestFits, Loading, Resting
  <2>. QED  BY <2>1, <2>2, <2>3, <2>4
<1>4. SessionFits' /\ DiskFits'
  BY SessionSame, DiskSame DEF Inv
<1>5. SavingFits' /\ WritingFits'
  BY <1>2 DEF SavingFits, WritingFits
<1>6. LoadingFits'
  <2>1. Accepted' /\ task'.length = Len(file')
    BY DEF Inv, LoadingFits, Accepted, disk
  <2>2. \A h \in hadData' : HasCallback(h, pass)' => told'[PluginOf(h)'] # <<>>
    BY HandlesSame
  <2>. QED  BY <2>1, <2>2, HandlesSame DEF LoadingFits, Size
<1>7. WalkFits' /\ ToldFits'
  BY <1>2 DEF WalkFits, ToldFits
<1>. QED  BY <1>1, <1>3, <1>4, <1>5, <1>6, <1>7 DEF Inv, BufferSound

LEMMA HeaderTypesAhead ==
  ASSUME Inv, HeaderAhead, Valid(task, 1)
  PROVE  /\ Header \in Cells /\ task \in Tasks /\ task.ptr \in Nat /\ Size(task) \in Nat /\ Size(task) >= 1
         /\ BehindHeader \in Tasks /\ BehindHeader.ptr = task.ptr + 1 /\ BehindHeader.buffer = task.buffer
         /\ BehindHeader.length = task.length /\ Size(BehindHeader) = Size(task)
         /\ BehindHeader.ptr <= Size(task)
<1>1. task \in Tasks /\ task.ptr \in Nat /\ Size(task) \in Nat /\ task.buffer \in Seq(Cells)
  BY Types
<1>2. task.ptr + 1 <= Size(task) /\ Size(task) >= 1
  BY <1>1 DEF Valid
<1>3. Header \in Cells
  <2>1. task.ptr + 1 \in 1 .. Len(task.buffer)
    BY <1>1, <1>2 DEF Size
  <2>. QED  BY <1>1, <2>1 DEF Header, Peek
<1>4. /\ BehindHeader \in Tasks /\ BehindHeader.ptr = task.ptr + 1 /\ BehindHeader.buffer = task.buffer
      /\ BehindHeader.length = task.length
  BY <1>1 DEF BehindHeader, Advance, Tasks
<1>. QED  BY <1>1, <1>2, <1>3, <1>4 DEF Size

LEMMA ReadNoHeaderInv ==
  ASSUME Inv, ReadNoHeader
  PROVE  Inv'
<1>1. /\ HeaderAhead /\ Valid(task, 1) /\ LengthIn(Header) = 0
      /\ pc' = "loaded" /\ task' = BehindHeader
      /\ UNCHANGED <<session, disk, plugin, chunk, lastLoadSize, handle, chunkStart,
                     hadData, pass, written, got, told>>
  BY DEF ReadNoHeader
<1>2. pc = "loading" /\ Remain(task) >= 1
  BY <1>1 DEF HeaderAhead
<1>3. torn
  <2>. SUFFICES ASSUME ~torn
                PROVE  FALSE
    OBVIOUS
  <2>1. PICK at \in Offsets : Tiled(file, saved, at, Len(file)) /\ AtBoundary(at)
    BY <1>2 DEF Inv, WalkFits, Loading
  <2>. QED  BY <1>1, <1>2, <2>1, AheadIs
<1>4. \A h \in hadData : HasCallback(h, pass) => told[PluginOf(h)] # <<>>
  BY <1>2 DEF Inv, LoadingFits, Loading
<1>5. Loading
  BY <1>2 DEF Loading
<1>6. task' \in Tasks /\ task'.length = task.length /\ Size(task') >= 1
  BY <1>1, HeaderTypesAhead DEF Size
<1>. QED  BY <1>1, <1>3, <1>4, <1>5, <1>6, Types, LoadingInv DEF Calls

LEMMA IndexPastEndInv ==
  ASSUME Inv, IndexPastEnd
  PROVE  Inv'
<1>1. /\ HeaderAhead /\ Valid(task, 1) /\ pc' = "undefined"
      /\ UNCHANGED <<session, disk, task, plugin, chunk, lastLoadSize, handle, chunkStart,
                     hadData, pass, written, got, read, told>>
  BY DEF IndexPastEnd
<1>2. TypeOK'
  BY <1>1, Types DEF TypeOK, session, disk, Handles, Lengths, Tasks
<1>3. InBuffer' /\ LengthAccounts' /\ ReadsWhatWasWritten' /\ RestFits'
  <2>1. task.ptr <= Size(task)
    BY <1>1, Types DEF Valid
  <2>. QED  BY <1>1, <2>1 DEF Inv, InBuffer, LengthAccounts, ReadsWhatWasWritten, RestFits, Loading, Resting, disk, Size
<1>4. SessionFits' /\ DiskFits'
  BY <1>1, SessionSame, DiskSame DEF Inv
<1>5. SavingFits' /\ WritingFits' /\ WalkFits' /\ LoadingFits' /\ ToldFits'
  BY <1>1 DEF SavingFits, WritingFits, WalkFits, LoadingFits, ToldFits, Loading
<1>. QED  BY <1>2, <1>3, <1>4, <1>5 DEF Inv, BufferSound

(***************************************************************************)
(* When the plugin ahead is heard of, all up to its end have been.         *)
(***************************************************************************)
LEMMA HeardNext ==
  ASSUME Inv, pc = "loading", ~torn, NEW at \in Offsets, Tiled(file, saved, at, Len(file)),
         NEW q \in HasData(saved), at[q][1] = task.ptr + 1, Header.base = q, HeardUpTo(at, task.ptr),
         NEW o \in at[q][1] .. End(saved, at, q)
  PROVE  /\ \A h \in Handles :
              h \in Heard(Reader) <=> PluginOf(h) \in HasData(saved) /\ at[PluginOf(h)][1] <= o
         /\ Reader \cap hadData = {} /\ \A g \in Reader : PluginOf(g) = q /\ Reader = {g} /\ g \in Handles
<1>1. saved \in Lengths /\ Len(file) \in Nat /\ task.ptr \in Nat
  BY WalkTypes DEF Loading
<1>2. \A p \in HasData(saved) : at[p][1] <= o <=> p = q \/ at[p][1] <= task.ptr
  <2>1. at[q][1] - 1 = task.ptr
    BY <1>1
  <2>2. \A p \in HasData(saved) : at[p][1] <= o <=> p = q \/ at[p][1] <= at[q][1] - 1
    BY <1>1, NoneBetween
  <2>. QED  BY <2>1, <2>2
<1>3. \A h \in Handles : h \in Reader <=> PluginOf(h) = q
  BY DEF Reader
<1>4. \A h \in Handles : h \in hadData <=> PluginOf(h) \in HasData(saved) /\ at[PluginOf(h)][1] <= task.ptr
  BY DEF HeardUpTo
<1>5. \A g \in Reader : g \in Handles /\ PluginOf(g) = q
  BY DEF Reader
<1>6. \A g \in Reader : Reader = {g}
  BY <1>5, Types, HandleTypes
<1>7. \A h \in Handles : h \in Reader => h \notin hadData
  BY <1>1, <1>3, <1>4
<1>. QED  BY <1>2, <1>3, <1>4, <1>5, <1>6, <1>7 DEF Heard

LEMMA SkipPluginInv ==
  ASSUME Inv, SkipPlugin
  PROVE  Inv'
<1>1. /\ HeaderAhead /\ Valid(task, 1) /\ LengthIn(Header) > 0
      /\ \A h \in Reader : ~HasCallback(h, pass)
      /\ UNCHANGED <<session, disk, lastLoadSize, pass>>
  BY DEF SkipPlugin
<1>2. CASE LoadThrows
  BY <1>1, <1>2, LoadThrowsInv
<1>3. CASE /\ Valid(BehindHeader, Header.length)
           /\ task' = Advance(BehindHeader, Header.length)
           /\ hadData' = Heard(Reader)
           /\ plugin' = [plugin EXCEPT !.header = Header]
           /\ chunkStart' = BehindHeader.ptr
           /\ HeaderRead /\ UNCHANGED <<chunk, handle, written, got, told, pc>>
  <2>1. pc = "loading" /\ Loading /\ pc' = "loading"
    BY <1>1, <1>3 DEF HeaderAhead, Loading
  <2>2. /\ Header \in PluginHeaders /\ Header.length \in Nat /\ BehindHeader \in Tasks
        /\ BehindHeader.ptr = task.ptr + 1 /\ BehindHeader.buffer = task.buffer /\ task.ptr \in Nat
        /\ BehindHeader.length = task.length /\ Size(BehindHeader) = Size(task) /\ Size(task) >= 1
        /\ BehindHeader.ptr \in Nat
    <3>1. Header \in PluginHeaders
      BY <1>1, HeaderTypesAhead, HeaderTypes
    <3>. QED  BY <1>1, <3>1, HeaderTypesAhead DEF PluginHeaders, Tasks
  <2>3. /\ task' \in Tasks /\ task'.ptr = task.ptr + 1 + Header.length /\ task'.length = task.length
        /\ task'.buffer = task.buffer /\ Size(task') = Size(task)
    BY <1>3, <2>2 DEF Advance, Tasks, Size
  <2>4. plugin' \in [header : PluginHeaders, offset : Nat]
    BY <1>3, <2>2, Types
  <2>5. hadData' \subseteq Handles
    BY <1>3, Types DEF Heard, Reader
  <2>6. \A h \in hadData' : HasCallback(h, pass) => told'[PluginOf(h)] # <<>>
    BY <1>1, <1>3, <2>1 DEF Inv, LoadingFits, Heard
  <2>7. ASSUME ~torn
        PROVE  /\ task'.ptr <= Size(task') /\ read'.want = read'.got
               /\ WalkFits' /\ ToldFits'
    <3>1. PICK at \in Offsets : Tiled(file, saved, at, Len(file)) /\ AtBoundary(at)
      BY <2>1, <2>7 DEF Inv, WalkFits
    <3>2. PICK q \in HasData(saved) :
             /\ at[q][1] = task.ptr + 1
             /\ Header = PluginHeader(q, Len(saved[q]), End(saved, at, q) - at[q][1])
      BY <1>1, <2>1, <2>7, <3>1, AheadIs DEF HeaderAhead
    <3>3. Header.cell = "plugin" /\ Header.base = q /\ Header.length = End(saved, at, q) - at[q][1]
      BY <3>2 DEF PluginHeader
    <3>4. /\ task.buffer = file /\ Size(task) = Len(file) /\ Len(file) \in Nat /\ saved \in Lengths
      BY <2>1, <2>7, WalkTypes
    <3>5. /\ at[q][1] \in Nat /\ End(saved, at, q) \in Nat /\ at[q][1] < End(saved, at, q)
          /\ End(saved, at, q) <= Len(file) /\ Boundary(saved, at, Len(file), End(saved, at, q))
      BY <3>1, <3>4, PlacesOf
    <3>6. task'.ptr = End(saved, at, q)
      BY <2>2, <2>3, <3>2, <3>3, <3>5
    <3>7. \A h \in Handles : h \in hadData' <=> PluginOf(h) \in HasData(saved) /\ at[PluginOf(h)][1] <= task'.ptr
      <4>1. task'.ptr \in at[q][1] .. End(saved, at, q)
        BY <3>5, <3>6
      <4>2. HeardUpTo(at, task.ptr)
        BY <3>1 DEF AtBoundary
      <4>. QED  BY <1>3, <2>1, <2>7, <3>1, <3>2, <3>3, <4>1, <4>2, HeardNext
    <3>8. AtBoundary(at)'
      BY <1>1, <3>5, <3>6, <3>7, HandlesSame DEF AtBoundary, HeardUpTo, disk
    <3>9. WalkFits'
      BY <1>1, <2>1, <2>3, <3>1, <3>4, <3>8 DEF WalkFits, disk
    <3>10. ToldFits'
      <4>1. \A h \in Handles : told[PluginOf(h)] = IF h \in hadData /\ HasCallback(h, pass) THEN <<"data">> ELSE <<>>
        BY <2>1, <2>7 DEF Inv, ToldFits
      <4>2. \A h \in Handles : told'[PluginOf(h)] = IF h \in hadData' /\ HasCallback(h, pass) THEN <<"data">> ELSE <<>>
        BY <1>1, <1>3, <4>1 DEF Heard
      <4>. QED  BY <1>1, <4>2, HandlesSame DEF ToldFits
    <3>11. read'.want = read'.got
      BY <1>3, <3>3 DEF HeaderRead
    <3>. QED  BY <2>3, <3>4, <3>5, <3>6, <3>9, <3>10, <3>11
  <2>. QED  BY <1>1, <1>3, <2>1, <2>2, <2>3, <2>4, <2>5, <2>6, <2>7, Types, LoadingInv DEF Calls
<1>. QED  BY <1>2, <1>3 DEF SkipPlugin

LEMMA CallLoadInv ==
  ASSUME Inv, CallLoad
  PROVE  Inv'
<1>1. /\ HeaderAhead /\ Valid(task, 1) /\ LengthIn(Header) > 0
      /\ plugin' = [plugin EXCEPT !.header = Header]
      /\ task' = BehindHeader /\ chunkStart' = BehindHeader.ptr
      /\ chunk' = [chunk EXCEPT !.open = FALSE]
      /\ HeaderRead /\ got' = <<0, 0>> /\ pc' = "reading"
      /\ UNCHANGED <<session, disk, lastLoadSize, pass, written>>
  BY DEF CallLoad
<1>2. PICK g \in Reader :
        /\ HasCallback(g, pass)
        /\ handle' = g /\ hadData' = Heard({g})
        /\ told' = [told EXCEPT ![PluginOf(g)] = Noted(@, "data")]
  BY DEF CallLoad
<1>3. pc = "loading" /\ Loading
  BY <1>1 DEF HeaderAhead, Loading
<1>4. g \in Handles /\ g \in Nat /\ PluginOf(g) \in Owners /\ told \in [Owners -> Calls]
      /\ \A h \in Handles : PluginOf(h) \in Owners /\ (PluginOf(h) = PluginOf(g) => h = g)
  BY Types, HandleTypes DEF Reader, Handles, Calls
<1>5. /\ Header \in PluginHeaders /\ BehindHeader \in Tasks
      /\ BehindHeader.ptr = task.ptr + 1 /\ BehindHeader.buffer = task.buffer /\ task.ptr \in Nat
      /\ BehindHeader.length = task.length /\ Size(BehindHeader) = Size(task) /\ Size(task) >= 1
      /\ BehindHeader.ptr \in Nat /\ BehindHeader.ptr <= Size(task)
  <2>1. Header \in PluginHeaders
    BY <1>1, HeaderTypesAhead, HeaderTypes
  <2>. QED  BY <1>1, <2>1, HeaderTypesAhead DEF Tasks
<1>6. /\ plugin' \in [header : PluginHeaders, offset : Nat] /\ plugin'.header = Header
      /\ chunk' \in [header : ChunkHeaders, offset : Nat, open : BOOLEAN] /\ chunk'.open = FALSE
  BY <1>1, <1>5, Types
<1>7. hadData' \subseteq Handles
  BY <1>2, <1>4, Types DEF Heard
<1>8. /\ told' \in [Owners -> Calls] /\ told'[PluginOf(g)] # <<>>
      /\ told[PluginOf(g)] = <<>> => told'[PluginOf(g)] = <<"data">>
      /\ \A p \in Owners : p # PluginOf(g) => told'[p] = told[p]
  <2>1. told[PluginOf(g)] \in Calls
    BY <1>4
  <2>2. /\ Noted(told[PluginOf(g)], "data") \in Calls /\ Noted(told[PluginOf(g)], "data") # <<>>
        /\ told[PluginOf(g)] = <<>> => Noted(told[PluginOf(g)], "data") = <<"data">>
    BY <2>1, NotedCalls
  <2>. QED  BY <1>2, <1>4, <2>2
<1>9. \A h \in hadData' : HasCallback(h, pass) => told'[PluginOf(h)] # <<>>
  <2>1. \A h \in hadData : HasCallback(h, pass) => told[PluginOf(h)] # <<>>
    BY <1>3 DEF Inv, LoadingFits
  <2>. QED  BY <1>2, <1>4, <1>7, <1>8, <2>1 DEF Heard
<1>10. ASSUME ~torn
       PROVE  /\ task'.ptr <= Size(task') /\ read'.want = read'.got
              /\ WalkFits' /\ ToldFits'
  <2>1. PICK at \in Offsets : Tiled(file, saved, at, Len(file)) /\ AtBoundary(at)
    BY <1>3, <1>10 DEF Inv, WalkFits
  <2>2. PICK q \in HasData(saved) :
          /\ at[q][1] = task.ptr + 1
          /\ Header = PluginHeader(q, Len(saved[q]), End(saved, at, q) - at[q][1])
    BY <1>1, <1>3, <1>10, <2>1, AheadIs DEF HeaderAhead
  <2>3. Header.cell = "plugin" /\ Header.base = q /\ Header.length = End(saved, at, q) - at[q][1]
        /\ Header.numChunks = Len(saved[q])
    BY <2>2 DEF PluginHeader
  <2>4. /\ task.buffer = file /\ Size(task) = Len(file) /\ Len(file) \in Nat /\ saved \in Lengths
    BY <1>3, <1>10, WalkTypes
  <2>5. /\ at[q][1] \in Nat /\ End(saved, at, q) \in Nat /\ at[q][1] < End(saved, at, q)
        /\ End(saved, at, q) <= Len(file) /\ Len(saved[q]) \in Nat
    BY <2>1, <2>4, PlacesOf
  <2>6. /\ \A h \in Handles : h \in Heard(Reader) <=> PluginOf(h) \in HasData(saved) /\ at[PluginOf(h)][1] <= at[q][1]
        /\ PluginOf(g) = q /\ Reader = {g} /\ g \notin hadData
    <3>1. at[q][1] \in at[q][1] .. End(saved, at, q)
      BY <2>5
    <3>2. HeardUpTo(at, task.ptr)
      BY <2>1 DEF AtBoundary
    <3>. QED  BY <1>3, <1>10, <2>1, <2>2, <2>3, <3>1, <3>2, HeardNext
  <2>7. \A h \in Handles : h \in hadData' <=> PluginOf(h) \in HasData(saved) /\ at[PluginOf(h)][1] <= at[q][1]
    BY <1>2, <2>6
  <2>8. AtPlugin(at)'
    <3>1. handle' \in Handles' /\ LoadReader' = q /\ saved' = saved /\ Record' = 0 /\ got'[2] = 0
      BY <1>1, <1>2, <1>4, <2>6, HandlesSame DEF LoadReader, disk, Record
    <3>2. chunkStart' = at[q][1]
      BY <1>1, <1>5, <2>2
    <3>3. HeardUpTo(at, chunkStart)'
      BY <1>1, <2>7, <3>2, HandlesSame DEF HeardUpTo, disk
    <3>4. InRecord(at)'
      <4>1. 0 + 1 = 1
        OBVIOUS
      <4>. QED  BY <1>1, <1>5, <1>6, <2>2, <3>1, <4>1 DEF InRecord
    <3>5. Len(saved[q]) - 0 = Len(saved[q]) /\ 0 <= Len(saved[q])
      BY <2>5
    <3>. QED  BY <1>6, <2>3, <3>1, <3>2, <3>3, <3>4, <3>5 DEF AtPlugin
  <2>9. WalkFits'
    BY <1>1, <1>5, <2>1, <2>4, <2>8 DEF WalkFits, disk
  <2>10. ToldFits'
    <3>1. \A h \in Handles : told[PluginOf(h)] = IF h \in hadData /\ HasCallback(h, pass) THEN <<"data">> ELSE <<>>
      BY <1>3, <1>10 DEF Inv, ToldFits
    <3>2. told[PluginOf(g)] = <<>>
      BY <1>4, <2>6, <3>1
    <3>3. \A h \in Handles : told'[PluginOf(h)] = IF h \in hadData' /\ HasCallback(h, pass) THEN <<"data">> ELSE <<>>
      <4>. SUFFICES ASSUME NEW h \in Handles
                    PROVE  told'[PluginOf(h)] = IF h \in hadData' /\ HasCallback(h, pass) THEN <<"data">> ELSE <<>>
        OBVIOUS
      <4>1. CASE h = g
        BY <1>2, <1>8, <3>2, <4>1 DEF Heard
      <4>2. CASE h # g
        BY <1>2, <1>4, <1>8, <3>1, <4>2 DEF Heard
      <4>. QED  BY <4>1, <4>2
    <3>. QED  BY <1>1, <3>3, HandlesSame DEF ToldFits
  <2>11. read'.want = read'.got
    BY <1>1, <2>3 DEF HeaderRead
  <2>. QED  BY <1>1, <1>5, <2>9, <2>10, <2>11
<1>11. got' \in Nat \X Nat
  BY <1>1
<1>. QED  BY <1>1, <1>2, <1>3, <1>4, <1>5, <1>6, <1>7, <1>8, <1>9, <1>10, <1>11, LoadingInv

LEMMA LoadReturnsInv ==
  ASSUME Inv, LoadReturns
  PROVE  Inv'
<1>1. /\ pc = "reading" /\ pc' = "loading"
      /\ task' = IF task.ptr = ExpectedOffset THEN task ELSE SetOffset(task, ExpectedOffset)
      /\ UNCHANGED <<session, disk, plugin, chunk, lastLoadSize, handle, chunkStart,
                     hadData, pass, written, got, read, told>>
  BY DEF LoadReturns
<1>2. Loading
  BY <1>1 DEF Loading
<1>3. /\ task \in Tasks /\ task.ptr \in Nat /\ Size(task) \in Nat /\ Size(task) >= 1
      /\ ExpectedOffset \in Nat
  <2>1. plugin.header \in PluginHeaders /\ chunkStart \in Nat
    BY Types
  <2>2. plugin.header.length \in Nat
    BY <2>1 DEF PluginHeaders
  <2>. QED  BY <1>2, <2>1, <2>2, Types DEF Inv, LoadingFits, ExpectedOffset
<1>4. /\ task' \in Tasks /\ task'.length = task.length /\ Size(task') >= 1
      /\ task'.ptr = ExpectedOffset
      /\ ExpectedOffset <= Size(task) => task'.buffer = task.buffer
  <2>1. CASE task.ptr = ExpectedOffset
    BY <1>1, <1>3, <2>1
  <2>2. CASE task.ptr # ExpectedOffset /\ ExpectedOffset > Size(task)
    <3>. PICK r : r = Resize(task, ExpectedOffset)
      OBVIOUS
    <3>1. r = [task EXCEPT !.buffer = r.buffer] /\ Grown(task.buffer, r.buffer, Size(task))
          /\ Size(r) >= ExpectedOffset
      BY <1>3, ResizeGrows
    <3>2. task' = [r EXCEPT !.ptr = ExpectedOffset]
      BY <1>1, <2>2 DEF SetOffset
    <3>3. r.buffer \in Seq(Cells) /\ Len(r.buffer) \in Nat
      BY <3>1, LenProperties DEF Grown
    <3>4. /\ task' \in Tasks /\ task'.length = task.length /\ task'.ptr = ExpectedOffset
          /\ task'.buffer = r.buffer
      BY <1>3, <3>1, <3>2, <3>3 DEF Tasks
    <3>5. Size(task') >= 1
      BY <1>3, <2>2, <3>1, <3>3, <3>4 DEF Size
    <3>. QED  BY <1>3, <2>2, <3>4, <3>5
  <2>3. CASE task.ptr # ExpectedOffset /\ ~(ExpectedOffset > Size(task))
    <3>1. task' = [task EXCEPT !.ptr = ExpectedOffset]
      BY <1>1, <2>3 DEF SetOffset
    <3>. QED  BY <1>3, <3>1 DEF Tasks, Size
  <2>. QED  BY <2>1, <2>2, <2>3
<1>5. \A h \in hadData : HasCallback(h, pass) => told[PluginOf(h)] # <<>>
  BY <1>2 DEF Inv, LoadingFits
<1>6. ASSUME ~torn
      PROVE  /\ task'.ptr <= Size(task') /\ read'.want = read'.got
             /\ WalkFits' /\ ToldFits'
  <2>1. PICK at \in Offsets : Tiled(file, saved, at, Len(file)) /\ AtPlugin(at)
    BY <1>1, <1>2, <1>6 DEF Inv, WalkFits
  <2>2. /\ task.buffer = file /\ Size(task) = Len(file) /\ Len(file) \in Nat /\ saved \in Lengths
    BY <1>2, <1>6, WalkTypes
  <2>. PICK q : q = LoadReader
    OBVIOUS
  <2>3. /\ q \in HasData(saved) /\ chunkStart = at[q][1] /\ HeardUpTo(at, chunkStart)
        /\ plugin.header.length = End(saved, at, q) - chunkStart
    BY <2>1 DEF AtPlugin
  <2>4. /\ at[q][1] \in Nat /\ End(saved, at, q) \in Nat /\ at[q][1] < End(saved, at, q)
        /\ End(saved, at, q) <= Len(file) /\ Boundary(saved, at, Len(file), End(saved, at, q))
    BY <2>1, <2>2, <2>3, PlacesOf
  <2>5. ExpectedOffset = End(saved, at, q)
    BY <2>3, <2>4 DEF ExpectedOffset
  <2>6. task'.ptr = End(saved, at, q) /\ task'.buffer = file
    BY <1>4, <2>2, <2>4, <2>5
  <2>7. HeardUpTo(at, task'.ptr)
    <3>1. \A p \in HasData(saved) : at[p][1] <= End(saved, at, q) <=> at[p][1] <= at[q][1]
      <4>1. at[q][1] \in at[q][1] .. End(saved, at, q) /\ End(saved, at, q) \in at[q][1] .. End(saved, at, q)
        BY <2>4
      <4>2. \A p \in HasData(saved) : at[p][1] <= End(saved, at, q) <=> p = q \/ at[p][1] <= at[q][1] - 1
        BY <2>1, <2>2, <2>3, <4>1, NoneBetween
      <4>3. \A p \in HasData(saved) : at[p][1] <= at[q][1] <=> p = q \/ at[p][1] <= at[q][1] - 1
        BY <2>1, <2>2, <2>3, <4>1, NoneBetween
      <4>. QED  BY <4>2, <4>3
    <3>. QED  BY <2>3, <2>6, <3>1 DEF HeardUpTo
  <2>8. AtBoundary(at)'
    BY <1>1, <2>4, <2>6, <2>7, HandlesSame DEF AtBoundary, HeardUpTo, disk
  <2>9. WalkFits'
    BY <1>1, <2>1, <2>6, <2>8 DEF WalkFits, disk
  <2>10. ToldFits'
    <3>1. \A h \in Handles : told[PluginOf(h)] = IF h \in hadData /\ HasCallback(h, pass) THEN <<"data">> ELSE <<>>
      BY <1>2, <1>6 DEF Inv, ToldFits
    <3>. QED  BY <1>1, <3>1, HandlesSame DEF ToldFits
  <2>11. read'.want = read'.got
    BY <1>1, <1>6 DEF Inv, ReadsWhatWasWritten
  <2>12. Size(task') = Len(file)
    BY <2>6 DEF Size
  <2>. QED  BY <2>4, <2>6, <2>9, <2>10, <2>11, <2>12
<1>. QED  BY <1>1, <1>2, <1>4, <1>5, <1>6, Types, LoadingInv DEF Calls

(***************************************************************************)
(* A callback that reads leaves what its plugin and the load are alone.    *)
(***************************************************************************)
LEMMA ReadingInv ==
  ASSUME Inv, pc = "reading", pc' = "reading",
         UNCHANGED <<session, disk, lastLoadSize, pass, written, handle, chunkStart, hadData, told>>,
         task' \in Tasks, task'.length = task.length, Size(task') >= Size(task),
         plugin' \in [header : PluginHeaders, offset : Nat],
         chunk' \in [header : ChunkHeaders, offset : Nat, open : BOOLEAN], got' \in Nat \X Nat,
         plugin'.header.length = plugin.header.length,
         ~torn => \A at \in Offsets : Tiled(file, saved, at, Len(file)) /\ AtPlugin(at) =>
           /\ task'.ptr <= Len(file) /\ task'.buffer = file /\ read'.want = read'.got
           /\ Record' <= Len(saved[LoadReader])
           /\ plugin'.header.numChunks = Len(saved[LoadReader]) - Record'
           /\ InRecord(at)'
  PROVE  Inv'
<1>1. Loading
  BY DEF Loading
<1>2. Size(task') >= 1 /\ (pc' = "reading" => handle' \in Handles)
  <2>1. Size(task) >= 1 /\ handle \in Handles /\ Size(task) \in Nat
    BY <1>1, Types DEF Inv, LoadingFits
  <2>2. Size(task') \in Nat
    BY LenProperties DEF Size, Tasks
  <2>. QED  BY <2>1, <2>2
<1>3. \A h \in hadData : HasCallback(h, pass) => told[PluginOf(h)] # <<>>
  BY <1>1 DEF Inv, LoadingFits
<1>4. ASSUME ~torn
      PROVE  /\ task'.ptr <= Size(task') /\ read'.want = read'.got
             /\ WalkFits' /\ ToldFits'
  <2>1. PICK at \in Offsets : Tiled(file, saved, at, Len(file)) /\ AtPlugin(at)
    BY <1>1, <1>4 DEF Inv, WalkFits
  <2>2. /\ task'.ptr <= Len(file) /\ task'.buffer = file /\ read'.want = read'.got
        /\ Record' <= Len(saved[LoadReader])
        /\ plugin'.header.numChunks = Len(saved[LoadReader]) - Record'
        /\ InRecord(at)'
    BY <1>4, <2>1
  <2>3. Size(task') = Len(file)
    BY <2>2 DEF Size
  <2>4. LoadReader' = LoadReader /\ saved' = saved
    BY DEF LoadReader, PluginOf, session, disk
  <2>5. HeardUpTo(at, chunkStart)'
    BY <2>1, HandlesSame DEF AtPlugin, HeardUpTo, disk
  <2>6. AtPlugin(at)'
    <3>1. handle' \in Handles'
      BY <2>1, HandlesSame DEF AtPlugin
    <3>. QED  BY <2>1, <2>2, <2>4, <2>5, <3>1 DEF AtPlugin
  <2>7. WalkFits'
    BY <2>1, <2>2, <2>6 DEF WalkFits, disk
  <2>8. ToldFits'
    <3>1. \A h \in Handles : told[PluginOf(h)] = IF h \in hadData /\ HasCallback(h, pass) THEN <<"data">> ELSE <<>>
      BY <1>1, <1>4 DEF Inv, ToldFits
    <3>. QED  BY <3>1, HandlesSame DEF ToldFits
  <2>. QED  BY <2>2, <2>3, <2>7, <2>8
<1>. QED  BY <1>1, <1>2, <1>3, <1>4, Types, LoadingInv DEF Calls

LEMMA GetNextRecordInfoInv ==
  ASSUME Inv, GetNextRecordInfo
  PROVE  Inv'
<1>. DEFINE t == Advance(task, Left)
            more == plugin.header.numChunks > 0
            owed == Record < Len(saved[LoadReader])
<1>1. pc = "reading" /\ UNCHANGED <<session, disk, lastLoadSize, pass>>
  BY DEF GetNextRecordInfo
<1>2. \/ LoadThrows
      \/ /\ Valid(task, Left + IF more THEN 1 ELSE 0)
         /\ task' = IF more THEN Advance(t, 1) ELSE t
         /\ chunk' = IF more THEN [chunk EXCEPT !.header = ChunkIn(Peek(t)), !.open = TRUE]
                             ELSE [chunk EXCEPT !.open = FALSE]
         /\ plugin' = IF more THEN [plugin EXCEPT !.header.numChunks = @ - 1] ELSE plugin
         /\ got' = IF more THEN <<Record + 1, 0>> ELSE got
         /\ read' = [want |-> IF owed THEN ChunkHeader(LoadReader, Record + 1, saved[LoadReader][Record + 1])
                              ELSE Nothing,
                     got |-> IF more THEN Peek(t) ELSE Nothing]
         /\ UNCHANGED <<handle, chunkStart, hadData, pc, written, told>>
  BY DEF GetNextRecordInfo, Left
<1>3. CASE LoadThrows
  BY <1>1, <1>3, LoadThrowsInv
<1>4. CASE ~LoadThrows
  <2>1. /\ Valid(task, Left + IF more THEN 1 ELSE 0)
        /\ read' = [want |-> IF owed THEN ChunkHeader(LoadReader, Record + 1, saved[LoadReader][Record + 1])
                             ELSE Nothing,
                    got |-> IF more THEN Peek(t) ELSE Nothing]
        /\ UNCHANGED <<handle, chunkStart, hadData, pc, written, told>>
    BY <1>2, <1>4
  <2>2. /\ task \in Tasks /\ task.ptr \in Nat /\ task.length \in Nat /\ task.buffer \in Seq(Cells)
        /\ Size(task) \in Nat /\ Left \in Nat /\ plugin.header \in PluginHeaders
        /\ plugin.header.numChunks \in Nat /\ Record \in Nat /\ got \in Nat \X Nat
        /\ chunk \in [header : ChunkHeaders, offset : Nat, open : BOOLEAN]
        /\ plugin \in [header : PluginHeaders, offset : Nat]
    BY Types DEF Left, ChunkHeaders, PluginHeaders, Record
  <2>3. /\ t \in Tasks /\ t.ptr = task.ptr + Left /\ t.buffer = task.buffer /\ t.length = task.length
        /\ Size(t) = Size(task) /\ t.ptr \in Nat
    BY <2>2 DEF Advance, Tasks, Size
  <2>. HIDE DEF t
  <2>4. CASE more
    <3>1. /\ task' = Advance(t, 1) /\ chunk' = [chunk EXCEPT !.header = ChunkIn(Peek(t)), !.open = TRUE]
          /\ plugin' = [plugin EXCEPT !.header.numChunks = @ - 1]
          /\ got' = <<Record + 1, 0>> /\ read'.got = Peek(t)
      BY <1>2, <1>4, <2>4
    <3>2. t.ptr + 1 <= Size(task)
      BY <2>1, <2>2, <2>3, <2>4 DEF Valid
    <3>3. Peek(t) \in Cells
      <4>1. t.ptr + 1 \in 1 .. Len(task.buffer)
        BY <2>2, <2>3, <3>2 DEF Size
      <4>. QED  BY <2>2, <2>3, <4>1 DEF Peek
    <3>4. /\ task' \in Tasks /\ task'.length = task.length /\ task'.buffer = task.buffer
          /\ Size(task') = Size(task) /\ task'.ptr = t.ptr + 1
      BY <2>3, <3>1 DEF Advance, Tasks, Size
    <3>5. /\ chunk' \in [header : ChunkHeaders, offset : Nat, open : BOOLEAN]
          /\ chunk'.header = ChunkIn(Peek(t)) /\ chunk'.open = TRUE
      BY <2>2, <3>1, <3>3, HeaderTypes
    <3>6. /\ plugin' \in [header : PluginHeaders, offset : Nat]
          /\ plugin'.header.length = plugin.header.length
          /\ plugin'.header.numChunks = plugin.header.numChunks - 1
      <4>1. plugin.header.numChunks - 1 \in Nat
        BY <2>2, <2>4
      <4>. QED  BY <2>2, <3>1, <4>1 DEF PluginHeaders
    <3>7. got' \in Nat \X Nat /\ Record' = Record + 1 /\ got'[2] = 0
      BY <2>2, <3>1 DEF Record
    <3>8. ASSUME ~torn, NEW at \in Offsets, Tiled(file, saved, at, Len(file)), AtPlugin(at)
          PROVE  /\ task'.ptr <= Len(file) /\ task'.buffer = file /\ read'.want = read'.got
                 /\ Record' <= Len(saved[LoadReader])
                 /\ plugin'.header.numChunks = Len(saved[LoadReader]) - Record'
                 /\ InRecord(at)'
      <4>. PICK q : q = LoadReader
        OBVIOUS
      <4>1. /\ task.buffer = file /\ Size(task) = Len(file) /\ Len(file) \in Nat /\ saved \in Lengths
        BY <1>1, <3>8, WalkTypes DEF Loading
      <4>2. /\ q \in HasData(saved) /\ saved[q] \in Seq(Nat) /\ Record \in 0 .. Len(saved[q])
            /\ t.ptr = at[q][Record + 1] /\ at[q][Record + 1] \in Nat
        BY <1>1, <2>3, <3>8, InRecordIs
      <4>3. plugin.header.numChunks = Len(saved[q]) - Record /\ Len(saved[q]) \in Nat
        BY <3>8, <4>2, LenProperties DEF AtPlugin
      <4>4. Record + 1 \in 1 .. Len(saved[q]) /\ owed
        BY <2>2, <2>4, <4>3
      <4>5. saved[q][Record + 1] \in Nat
        BY <4>2, <4>4
      <4>6. file[t.ptr + 1] = ChunkHeader(q, Record + 1, saved[q][Record + 1])
        <5>1. RecordsAt(file, q, saved[q], Len(saved[q]), at[q])
          BY <3>8, <4>1, <4>2, PlacesOf
        <5>2. RecordAt(file, q, Record + 1, saved[q][Record + 1], at[q][Record + 1])
          BY <4>4, <5>1 DEF RecordsAt
        <5>. QED  BY <4>2, <5>2 DEF RecordAt
      <4>7. Peek(t) = ChunkHeader(q, Record + 1, saved[q][Record + 1])
        BY <2>3, <4>1, <4>6 DEF Peek
      <4>8. read'.want = read'.got
        BY <2>1, <3>1, <4>4, <4>7
      <4>9. chunk'.header.length = saved[q][Record + 1]
        BY <3>5, <4>7 DEF ChunkIn, ChunkHeader
      <4>10. LoadReader' = q /\ saved' = saved /\ RecordLength' = saved[q][Record + 1]
        <5>1. LoadReader' = q /\ saved' = saved
          BY <1>1, <2>1 DEF LoadReader, PluginOf, session, disk
        <5>2. Record + 1 <= Len(saved[q])
          BY <4>4, <4>3, <2>2
        <5>. QED  BY <3>7, <5>1, <5>2 DEF RecordLength
      <4>11. InRecord(at)'
        <5>1. 0 + saved[q][Record + 1] = saved[q][Record + 1] /\ Record + 1 >= 1
          BY <2>2, <4>5
        <5>2. task'.ptr = at[q][Record + 1] + 1 + 0
          BY <2>3, <3>4, <4>2
        <5>. QED  BY <3>5, <3>7, <4>9, <4>10, <5>1, <5>2 DEF InRecord
      <4>12. Record + 1 <= Len(saved[q]) /\ plugin.header.numChunks - 1 = Len(saved[q]) - (Record + 1)
        BY <2>2, <4>3, <4>4
      <4>. QED  BY <3>2, <3>4, <3>6, <3>7, <4>1, <4>8, <4>11, <4>12
    <3>9. pc' = "reading" /\ Size(task') >= Size(task)
      BY <1>1, <2>1, <2>2, <3>4
    <3>. QED  BY <1>1, <2>1, <3>4, <3>5, <3>6, <3>7, <3>8, <3>9, ReadingInv
  <2>5. CASE ~more
    <3>1. /\ task' = t /\ chunk' = [chunk EXCEPT !.open = FALSE]
          /\ plugin' = plugin /\ got' = got /\ read'.got = Nothing
      BY <1>2, <1>4, <2>5
    <3>2. /\ chunk' \in [header : ChunkHeaders, offset : Nat, open : BOOLEAN] /\ chunk'.open = FALSE
      BY <2>2, <3>1
    <3>3. t.ptr <= Size(task)
      BY <2>1, <2>2, <2>3, <2>5 DEF Valid
    <3>4. ASSUME ~torn, NEW at \in Offsets, Tiled(file, saved, at, Len(file)), AtPlugin(at)
          PROVE  /\ task'.ptr <= Len(file) /\ task'.buffer = file /\ read'.want = read'.got
                 /\ Record' <= Len(saved[LoadReader])
                 /\ plugin'.header.numChunks = Len(saved[LoadReader]) - Record'
                 /\ InRecord(at)'
      <4>. PICK q : q = LoadReader
        OBVIOUS
      <4>1. /\ task.buffer = file /\ Size(task) = Len(file)
        BY <1>1, <3>4, WalkTypes DEF Loading
      <4>2. /\ saved[q] \in Seq(Nat) /\ Record \in 0 .. Len(saved[q])
            /\ t.ptr = at[q][Record + 1]
        BY <1>1, <2>3, <3>4, InRecordIs
      <4>3. plugin.header.numChunks = Len(saved[q]) - Record /\ Len(saved[q]) \in Nat
        BY <3>4, <4>2, LenProperties DEF AtPlugin
      <4>4. Record = Len(saved[q]) /\ ~owed
        BY <2>2, <2>5, <4>2, <4>3
      <4>5. read'.want = read'.got
        BY <2>1, <3>1, <4>4
      <4>6. LoadReader' = q /\ saved' = saved /\ Record' = Record
        BY <1>1, <2>1, <3>1 DEF LoadReader, PluginOf, session, disk, Record
      <4>7. InRecord(at)'
        BY <3>1, <3>2, <4>2, <4>4, <4>6 DEF InRecord
      <4>. QED  BY <2>3, <3>1, <3>3, <4>1, <4>3, <4>4, <4>5, <4>6, <4>7
    <3>5. pc' = "reading" /\ Size(task') >= Size(task)
      BY <1>1, <2>1, <2>2, <2>3, <3>1
    <3>. QED  BY <1>1, <2>1, <2>2, <2>3, <3>1, <3>2, <3>4, <3>5, ReadingInv
  <2>. QED  BY <2>4, <2>5
<1>. QED  BY <1>3, <1>4

(***************************************************************************)
(* Reading or skipping n bytes of the open record.                         *)
(***************************************************************************)
LEMMA TakenMoves ==
  ASSUME Inv, pc = "reading", chunk.open, NEW n \in Nat, n <= chunk.header.length, Taken(n)
  PROVE  /\ chunk' \in [header : ChunkHeaders, offset : Nat, open : BOOLEAN]
         /\ chunk'.open = TRUE /\ chunk'.header.length = chunk.header.length - n
         /\ got' \in Nat \X Nat /\ got'[1] = got[1] /\ got'[2] = got[2] + n
<1>1. chunk \in [header : ChunkHeaders, offset : Nat, open : BOOLEAN] /\ got \in Nat \X Nat
  BY Types
<1>2. chunk.header \in ChunkHeaders /\ chunk.header.length \in Nat
  BY <1>1 DEF ChunkHeaders
<1>3. chunk.header.length - n \in Nat
  BY <1>2
<1>4. chunk' = [chunk EXCEPT !.header.length = @ - n] /\ got' = [got EXCEPT ![2] = @ + n]
  BY DEF Taken
<1>5. [chunk.header EXCEPT !.length = @ - n] \in ChunkHeaders
  BY <1>2, <1>3 DEF ChunkHeaders
<1>6. /\ chunk' \in [header : ChunkHeaders, offset : Nat, open : BOOLEAN]
      /\ chunk'.open = chunk.open /\ chunk'.header = [chunk.header EXCEPT !.length = @ - n]
  BY <1>1, <1>4, <1>5
<1>7. got' = <<got[1], got[2] + n>> /\ got[1] \in Nat /\ got[2] + n \in Nat
  BY <1>1, <1>4
<1>8. chunk'.open = TRUE
  BY <1>1, <1>6
<1>. QED  BY <1>2, <1>6, <1>7, <1>8 DEF ChunkHeaders

LEMMA TakenInRecord ==
  ASSUME Inv, pc = "reading", chunk.open, NEW n \in Nat, n <= chunk.header.length, Taken(n),
         ~torn, NEW at \in Offsets, Tiled(file, saved, at, Len(file)), AtPlugin(at),
         UNCHANGED <<session, disk, handle, plugin>>, task'.ptr = task.ptr + n
  PROVE  /\ task.ptr + n <= Len(file) /\ Size(task) = Len(file)
         /\ Record' <= Len(saved[LoadReader])
         /\ plugin'.header.numChunks = Len(saved[LoadReader]) - Record'
         /\ InRecord(at)'
<1>. PICK q : q = LoadReader
  OBVIOUS
<1>1. /\ saved[q] \in Seq(Nat) /\ Record \in 1 .. Len(saved[q]) /\ Left \in Nat /\ got[2] \in Nat
      /\ task.ptr + Left = at[q][Record + 1] /\ at[q][Record + 1] <= End(saved, at, q)
      /\ at[q][Record + 1] \in Nat /\ q \in HasData(saved)
      /\ RecordLength = saved[q][Record] /\ got[2] + Left = RecordLength
      /\ task.ptr = at[q][Record] + 1 + got[2]
  BY InRecordIs
<1>2. /\ Size(task) = Len(file) /\ Len(file) \in Nat /\ saved \in Lengths /\ task.ptr \in Nat
  BY WalkTypes DEF Loading
<1>3. End(saved, at, q) <= Len(file) /\ End(saved, at, q) \in Nat
  BY <1>1, <1>2, PlacesOf
<1>4. Left = chunk.header.length
  BY DEF Left
<1>5. task.ptr + n <= Len(file)
  <2>1. task.ptr + n <= task.ptr + Left
    BY <1>1, <1>2, <1>4
  <2>2. task.ptr + Left <= Len(file) /\ task.ptr + Left \in Nat /\ task.ptr + n \in Nat
    BY <1>1, <1>2, <1>3
  <2>. QED  BY <1>2, <2>1, <2>2
<1>6. /\ chunk'.open = TRUE /\ chunk'.header.length = Left - n
      /\ Record' = Record /\ got'[2] = got[2] + n
  BY <1>4, TakenMoves DEF Record
<1>7. LoadReader' = q /\ saved' = saved /\ RecordLength' = RecordLength
  <2>1. LoadReader' = q /\ saved' = saved
    BY DEF LoadReader, PluginOf, session, disk
  <2>. QED  BY <1>6, <2>1 DEF RecordLength
<1>8. InRecord(at)'
  <2>1. (got[2] + n) + (Left - n) = got[2] + Left
    BY <1>1
  <2>2. Record >= 1
    BY <1>1
  <2>3. task'.ptr = at[q][Record] + 1 + (got[2] + n)
    <3>1. at[q][Record] \in Nat
      <4>1. at[q] \in Places /\ Record \in Nat
        BY <1>1, <1>2, PlacesOf
      <4>. QED  BY <4>1 DEF Places
    <3>2. \A a, b, c \in Nat : (a + 1 + b) + c = a + 1 + (b + c)
      OBVIOUS
    <3>3. task'.ptr = (at[q][Record] + 1 + got[2]) + n
      BY <1>1
    <3>. QED  BY <1>1, <3>1, <3>2, <3>3
  <2>4. got'[2] + chunk'.header.length = RecordLength'
    BY <1>1, <1>6, <1>7, <2>1
  <2>. QED  BY <1>6, <1>7, <2>2, <2>3, <2>4 DEF InRecord
<1>9. Record <= Len(saved[q]) /\ plugin.header.numChunks = Len(saved[q]) - Record
  BY DEF AtPlugin
<1>. QED  BY <1>2, <1>5, <1>6, <1>8, <1>9

LEMMA ReadRecordDataInv ==
  ASSUME Inv, ReadRecordData
  PROVE  Inv'
<1>. DEFINE n == Take(1)
<1>1. pc = "reading" /\ chunk.open /\ UNCHANGED <<session, disk, lastLoadSize, pass>>
  BY DEF ReadRecordData
<1>2. /\ task \in Tasks /\ task.ptr \in Nat /\ task.buffer \in Seq(Cells)
      /\ Size(task) \in Nat /\ chunk.header.length \in Nat
      /\ plugin \in [header : PluginHeaders, offset : Nat]
  BY Types DEF ChunkHeaders
<1>3. n \in {0, 1} /\ n <= chunk.header.length /\ n \in Nat /\ (n = 1 <=> chunk.header.length > 0)
  BY <1>2, LeastOf DEF Take
<1>4. \/ LoadThrows
      \/ /\ Valid(task, n)
         /\ read' = [want |-> IF got[2] < RecordLength THEN Byte(LoadReader, Record, got[2] + 1) ELSE Nothing,
                     got |-> IF n = 1 THEN Peek(task) ELSE Nothing]
         /\ task' = Advance(task, n) /\ Taken(n)
         /\ UNCHANGED <<plugin, handle, chunkStart, hadData, pc, written, told>>
  BY DEF ReadRecordData
<1>. HIDE DEF n
<1>5. CASE LoadThrows
  BY <1>1, <1>5, LoadThrowsInv
<1>6. CASE ~LoadThrows
  <2>1. /\ Valid(task, n) /\ task' = Advance(task, n) /\ Taken(n)
        /\ UNCHANGED <<plugin, handle, chunkStart, hadData, pc, written, told>>
        /\ read' = [want |-> IF got[2] < RecordLength THEN Byte(LoadReader, Record, got[2] + 1) ELSE Nothing,
                    got |-> IF n = 1 THEN Peek(task) ELSE Nothing]
    BY <1>4, <1>6
  <2>2. /\ task' \in Tasks /\ task'.ptr = task.ptr + n /\ task'.buffer = task.buffer
        /\ task'.length = task.length /\ Size(task') = Size(task)
    BY <1>2, <1>3, <2>1 DEF Advance, Tasks, Size
  <2>3. /\ chunk' \in [header : ChunkHeaders, offset : Nat, open : BOOLEAN] /\ got' \in Nat \X Nat
    BY <1>1, <1>3, <2>1, TakenMoves
  <2>4. ASSUME ~torn, NEW at \in Offsets, Tiled(file, saved, at, Len(file)), AtPlugin(at)
        PROVE  /\ task'.ptr <= Len(file) /\ task'.buffer = file /\ read'.want = read'.got
               /\ Record' <= Len(saved[LoadReader])
               /\ plugin'.header.numChunks = Len(saved[LoadReader]) - Record'
               /\ InRecord(at)'
    <3>. PICK q : q = LoadReader
      OBVIOUS
    <3>1. /\ task.ptr + n <= Len(file)
          /\ Record' <= Len(saved[LoadReader])
          /\ plugin'.header.numChunks = Len(saved[LoadReader]) - Record'
          /\ InRecord(at)'
      BY <1>1, <1>3, <2>1, <2>2, <2>4, TakenInRecord
    <3>2. /\ saved[q] \in Seq(Nat) /\ Record \in 1 .. Len(saved[q]) /\ Left \in Nat /\ got[2] \in Nat
          /\ q \in HasData(saved)
          /\ RecordLength = saved[q][Record] /\ got[2] + Left = RecordLength
          /\ task.ptr = at[q][Record] + 1 + got[2]
      BY <1>1, <2>4, InRecordIs
    <3>3. task.buffer = file /\ saved \in Lengths /\ Len(file) \in Nat
      BY <1>1, <2>4, WalkTypes DEF Loading
    <3>4. Left = chunk.header.length
      BY <1>1 DEF Left
    <3>5. read'.want = read'.got
      <4>1. CASE n = 1
        <5>1. got[2] < RecordLength /\ got[2] + 1 \in 1 .. saved[q][Record]
          BY <1>2, <1>3, <3>2, <3>4, <4>1
        <5>2. BytesAt(file, q, Record, saved[q][Record], at[q][Record])
          <6>1. RecordsAt(file, q, saved[q], Len(saved[q]), at[q])
            BY <2>4, <3>2, <3>3, PlacesOf
          <6>. QED  BY <3>2, <6>1 DEF RecordsAt, RecordAt
        <5>3. file[at[q][Record] + 1 + (got[2] + 1)] = Byte(q, Record, got[2] + 1)
          BY <5>1, <5>2 DEF BytesAt
        <5>4. task.ptr + 1 = at[q][Record] + 1 + (got[2] + 1)
          <6>1. at[q][Record] \in Nat
            <7>1. at[q] \in Places
              BY <2>4, <3>2, <3>3, PlacesOf
            <7>2. Record \in Nat
              BY <3>2
            <7>. QED  BY <7>1, <7>2 DEF Places
          <6>2. \A a, b \in Nat : (a + 1 + b) + 1 = a + 1 + (b + 1)
            OBVIOUS
          <6>. QED  BY <3>2, <6>1, <6>2
        <5>. QED  BY <2>1, <3>3, <4>1, <5>1, <5>3, <5>4 DEF Peek
      <4>2. CASE n # 1
        <5>1. ~(got[2] < RecordLength)
          BY <1>2, <1>3, <3>2, <3>4, <4>2
        <5>. QED  BY <2>1, <4>2, <5>1
      <4>. QED  BY <4>1, <4>2
    <3>. QED  BY <2>2, <3>1, <3>3, <3>5
  <2>5. pc' = "reading" /\ Size(task') >= Size(task)
    BY <1>1, <1>2, <2>1, <2>2
  <2>. QED  BY <1>1, <1>2, <2>1, <2>2, <2>3, <2>4, <2>5, ReadingInv
<1>. QED  BY <1>5, <1>6

LEMMA SkipNBytesInv ==
  ASSUME Inv, SkipNBytes
  PROVE  Inv'
<1>1. /\ pc = "reading" /\ chunk.open
      /\ UNCHANGED <<session, disk, plugin, lastLoadSize, handle, chunkStart, hadData, pc,
                     pass, written, read, told>>
  BY DEF SkipNBytes
<1>2. PICK m \in 1 .. MaxData : task' = SkipForWrite(task, Take(m)) /\ Taken(Take(m))
  BY DEF SkipNBytes
<1>3. PICK n : n = Take(m)
  OBVIOUS
<1>4. /\ task \in Tasks /\ task.ptr \in Nat /\ task.buffer \in Seq(Cells)
      /\ Size(task) \in Nat /\ chunk.header.length \in Nat
      /\ plugin \in [header : PluginHeaders, offset : Nat]
  BY Types DEF ChunkHeaders
<1>5. n <= chunk.header.length /\ n \in Nat
  <2>1. m \in Nat
    BY <1>2, ConstantsAssumption
  <2>. QED  BY <1>3, <1>4, <2>1, LeastOf DEF Take
<1>6. Size(task) >= 1
  BY <1>1 DEF Inv, LoadingFits, Loading
<1>7. PICK u : u = task'
  OBVIOUS
<1>8. /\ u \in Tasks /\ u.ptr = task.ptr + n /\ u.length = task.length
      /\ Grown(task.buffer, u.buffer, 0)
      /\ task.ptr + n <= Size(task) => u.buffer = task.buffer
  BY <1>2, <1>3, <1>4, <1>5, <1>6, <1>7, SkipForWriteMoves
<1>9. Size(u) >= Size(task)
  BY <1>4, <1>8 DEF Grown, Size
<1>10. /\ chunk' \in [header : ChunkHeaders, offset : Nat, open : BOOLEAN] /\ got' \in Nat \X Nat
  BY <1>1, <1>2, <1>3, <1>5, TakenMoves
<1>11. ASSUME ~torn, NEW at \in Offsets, Tiled(file, saved, at, Len(file)), AtPlugin(at)
       PROVE  /\ task'.ptr <= Len(file) /\ task'.buffer = file /\ read'.want = read'.got
              /\ Record' <= Len(saved[LoadReader])
              /\ plugin'.header.numChunks = Len(saved[LoadReader]) - Record'
              /\ InRecord(at)'
  <2>1. /\ task.ptr + n <= Len(file) /\ Size(task) = Len(file)
        /\ Record' <= Len(saved[LoadReader])
        /\ plugin'.header.numChunks = Len(saved[LoadReader]) - Record'
        /\ InRecord(at)'
    BY <1>1, <1>2, <1>3, <1>5, <1>7, <1>8, <1>11, TakenInRecord
  <2>2. task.buffer = file
    BY <1>1, <1>11, WalkTypes DEF Loading
  <2>3. read.want = read.got
    BY <1>11 DEF Inv, ReadsWhatWasWritten
  <2>. QED  BY <1>1, <1>7, <1>8, <2>1, <2>2, <2>3
<1>12. pc' = "reading" /\ plugin'.header.length = plugin.header.length
  BY <1>1
<1>. QED  BY <1>1, <1>4, <1>7, <1>8, <1>9, <1>10, <1>11, <1>12, ReadingInv

-----------------------------------------------------------------------------
(***************************************************************************)
(* Every step keeps the invariant.                                         *)
(***************************************************************************)
LEMMA NextInv == Inv /\ [Next]_vars => Inv'
<1>. SUFFICES ASSUME Inv, [Next]_vars
              PROVE  Inv'
  OBVIOUS
<1>1. CASE Restart
  BY <1>1, RestartInv
<1>2. CASE HandleSaveGame
  BY <1>2, HandleSaveGameInv
<1>3. CASE OpenRecord
  BY <1>3, OpenFirstInv, OpenAgainInv
<1>4. CASE WriteRecordData
  BY <1>4, WriteRecordDataInv
<1>5. CASE SaveThrows
  BY <1>5, SaveThrowsInv
<1>6. CASE CallSave
  BY <1>6, CallSaveInv
<1>7. CASE SaveReturns
  BY <1>7, SaveReturnsInv
<1>8. CASE SaveEnds
  BY <1>8, SaveEndsInv
<1>9. CASE KilledInSave
  BY <1>9, KilledInSaveInv
<1>10. CASE HandlePreLoadGame \/ HandleLoadGame
  BY <1>10, LoadFileInv DEF HandlePreLoadGame, HandleLoadGame
<1>11. CASE GameLoadFails
  BY <1>11, GameLoadFailsInv
<1>12. CASE ReadHeaderThrows
  BY <1>12, LoadThrowsInv DEF ReadHeaderThrows
<1>13. CASE ReadNoHeader
  BY <1>13, ReadNoHeaderInv
<1>14. CASE SkipPlugin
  BY <1>14, SkipPluginInv
<1>15. CASE CallLoad
  BY <1>15, CallLoadInv
<1>16. CASE IndexPastEnd
  BY <1>16, IndexPastEndInv
<1>17. CASE LoadEnds
  BY <1>17, LoadEndsInv
<1>18. CASE GetNextRecordInfo
  BY <1>18, GetNextRecordInfoInv
<1>19. CASE ReadRecordData
  BY <1>19, ReadRecordDataInv
<1>20. CASE SkipNBytes
  BY <1>20, SkipNBytesInv
<1>21. CASE LoadReturns
  BY <1>21, LoadReturnsInv
<1>22. CASE FileReplaced
  BY <1>22, FileReplacedInv
<1>23. CASE UNCHANGED vars
  <2>1. TypeOK'
    BY <1>23, Types DEF TypeOK, vars, session, ghosts, Handles, Lengths, Tasks
  <2>2. InBuffer' /\ LengthAccounts' /\ ReadsWhatWasWritten' /\ RestFits'
    BY <1>23 DEF Inv, BufferSound, InBuffer, LengthAccounts, ReadsWhatWasWritten, RestFits,
                 Loading, Resting, vars, ghosts
  <2>3. UNCHANGED session /\ UNCHANGED disk
    BY <1>23 DEF vars, ghosts, disk
  <2>4. SessionFits' /\ DiskFits'
    BY <2>3, SessionSame, DiskSame DEF Inv
  <2>5. SavingFits' /\ WritingFits'
    BY <1>23 DEF Inv, SavingFits, WritingFits, TaskFits, Unsaved, Handles, PluginOf, Saver, Count,
                 Others, HalfWritten, vars, session, ghosts
  <2>6. WalkFits' /\ LoadingFits' /\ ToldFits'
    <3>1. LoadingFits' /\ ToldFits'
      BY <1>23, <2>3, HandlesSame DEF Inv, LoadingFits, Accepted, ToldFits, Loading, Size, vars, ghosts
    <3>2. WalkFits'
      BY <1>23, <2>3, HandlesSame DEF Inv, WalkFits, Loading, AtBoundary, AtPlugin, HeardUpTo,
              LoadReader, Record, RecordLength, InRecord, vars, ghosts
    <3>. QED  BY <3>1, <3>2
  <2>. QED  BY <2>1, <2>2, <2>4, <2>5, <2>6 DEF Inv, BufferSound
<1>. QED
  BY <1>1, <1>2, <1>3, <1>4, <1>5, <1>6, <1>7, <1>8, <1>9, <1>10, <1>11, <1>12, <1>13, <1>14, <1>15,
     <1>16, <1>17, <1>18, <1>19, <1>20, <1>21, <1>22, <1>23
     DEF Next, SaveCallback, Save, LoadCallback, LoadLoop

LEMMA InvAlways == Spec => []Inv
<1>. QED  BY InitInv, NextInv, PTL DEF Spec

(***************************************************************************)
(* The position stays in the buffer, and the bytes that are counted are    *)
(* those that were written, in every save and load (SerializationTask).    *)
(***************************************************************************)
THEOREM CosaveBufferSound == Spec => []BufferSound
<1>1. Inv => BufferSound
  BY DEF Inv
<1>. QED  BY <1>1, InvAlways, PTL

(***************************************************************************)
(* Whatever plugins there are and whatever they save, skip or leave, each  *)
(* reads from a whole file its own records, in the order and with the      *)
(* lengths and bytes that it wrote (GetNextRecordInfo, ReadRecordData).    *)
(***************************************************************************)
THEOREM CosaveReadsWhatWasWritten == Spec => []ReadsWhatWasWritten
<1>1. Inv => ReadsWhatWasWritten
  BY DEF Inv
<1>. QED  BY <1>1, InvAlways, PTL

(***************************************************************************)
(* Whom a load has told when it ends (HandleLoadGame).                     *)
(***************************************************************************)
LEMMA ToldAtEnd ==
  ASSUME Inv, LoadEnds, NEW h \in Handles
  PROVE  told'[PluginOf(h)] = IF h \notin hadData /\ HasCallback(h, pass)
                              THEN Noted(told[PluginOf(h)], "none") ELSE told[PluginOf(h)]
<1>1. told' = [p \in Owners |->
                IF \E g \in Handles \ hadData : PluginOf(g) = p /\ HasCallback(g, pass)
                THEN Noted(told[p], "none") ELSE told[p]]
  BY DEF LoadEnds
<1>2. PluginOf(h) \in Owners /\ \A g \in Handles : PluginOf(g) = PluginOf(h) => g = h
  BY Types, HandleTypes
<1>. QED  BY <1>1, <1>2

LEMMA ToldOnce ==
  ASSUME Inv, LoadEnds, ~torn, NEW h \in Handles
  PROVE  told'[PluginOf(h)] =
           IF HasCallback(h, pass)
           THEN <<IF saved[PluginOf(h)] # <<>> THEN "data" ELSE "none">>
           ELSE <<>>
<1>1. pc = "loading" /\ Remain(task) = 0
  BY DEF LoadEnds, Inv, WalkFits, Loading
<1>2. PICK at \in Offsets : Tiled(file, saved, at, Len(file)) /\ AtBoundary(at)
  BY <1>1 DEF Inv, WalkFits, Loading
<1>3. task.ptr = Len(file)
  BY <1>1, <1>2, AheadIs
<1>4. /\ saved \in Lengths /\ Len(file) \in Nat /\ PluginOf(h) \in Owners
  BY <1>1, WalkTypes DEF Loading
<1>5. h \in hadData <=> PluginOf(h) \in HasData(saved)
  <2>1. h \in hadData <=> PluginOf(h) \in HasData(saved) /\ at[PluginOf(h)][1] <= Len(file)
    BY <1>2, <1>3 DEF AtBoundary, HeardUpTo
  <2>2. ASSUME PluginOf(h) \in HasData(saved)
        PROVE  at[PluginOf(h)][1] <= Len(file)
    <3>. PICK q : q = PluginOf(h)
      OBVIOUS
    <3>1. /\ at[q][1] \in Nat /\ End(saved, at, q) \in Nat /\ at[q][1] < End(saved, at, q)
          /\ End(saved, at, q) <= Len(file)
      BY <1>2, <1>4, <2>2, PlacesOf
    <3>. QED  BY <1>4, <3>1
  <2>. QED  BY <2>1, <2>2
<1>6. h \in hadData <=> saved[PluginOf(h)] # <<>>
  BY <1>4, <1>5 DEF HasData
<1>7. told[PluginOf(h)] = IF h \in hadData /\ HasCallback(h, pass) THEN <<"data">> ELSE <<>>
  BY <1>1 DEF Inv, ToldFits, Loading
<1>8. <<>> \in Calls
  BY DEF Calls
<1>9. told[PluginOf(h)] = <<>> => Noted(told[PluginOf(h)], "none") = <<"none">>
  BY <1>8, NotedCalls
<1>. QED  BY <1>6, <1>7, <1>9, ToldAtEnd

LEMMA EveryoneHears ==
  ASSUME Inv, Next, pass' = "load", pc' = "playing", pc \in {"preloaded", "loading", "reading", "loaded"},
         ~GameLoadFails, ~Refused, NEW h \in Handles,
         {"load", "newGame"} \subseteq registers[PluginOf(h)]
  PROVE  told'[PluginOf(h)] # <<>>
<1>. DEFINE p == PluginOf(h)
<1>1. told \in [Owners -> Calls] /\ TypeOK /\ SessionFits /\ p \in Owners
  BY Types, HandleTypes DEF Calls
<1>2. ASSUME LoadThrows, pass = "load"
      PROVE  told'[p] # <<>>
  BY <1>1, <1>2, ToldNewGameCalls DEF LoadThrows
<1>3. CASE HandleLoadGame
  <2>1. /\ told' = ToldNewGame(NobodyTold)
    BY <1>3 DEF HandleLoadGame, LoadFile, OpenFile, GiveUp
  <2>2. NobodyTold \in [Owners -> Calls]
    BY DEF NobodyTold, Calls
  <2>. QED  BY <1>1, <2>1, <2>2, ToldNewGameCalls
<1>4. CASE LoadEnds
  <2>1. pass = "load" /\ Loading
    BY <1>4 DEF LoadEnds, Loading
  <2>2. HasCallback(h, pass)
    <3>1. registers[p] # {}
      OBVIOUS
    <3>. QED  BY <1>1, <2>1, <3>1, CallbacksSizeIs DEF HasCallback
  <2>3. h \in hadData => told[p] # <<>>
    BY <2>1, <2>2 DEF Inv, LoadingFits
  <2>4. told[p] \in Calls
    BY <1>1
  <2>5. Noted(told[p], "none") # <<>>
    BY <2>4, NotedCalls
  <2>. QED  BY <1>4, <2>2, <2>3, <2>5, ToldAtEnd
<1>5. CASE ReadHeaderThrows \/ SkipPlugin \/ GetNextRecordInfo \/ ReadRecordData
  <2>1. pass' = pass
    BY <1>5 DEF ReadHeaderThrows, SkipPlugin, GetNextRecordInfo, ReadRecordData
  <2>2. LoadThrows
    <3>1. pc # "playing"
      OBVIOUS
    <3>2. CASE ReadHeaderThrows
      BY <3>2 DEF ReadHeaderThrows
    <3>3. CASE SkipPlugin
      BY <3>1, <3>3 DEF SkipPlugin
    <3>4. CASE GetNextRecordInfo
      BY <3>1, <3>4 DEF GetNextRecordInfo
    <3>5. CASE ReadRecordData
      BY <3>1, <3>5 DEF ReadRecordData
    <3>. QED  BY <1>5, <3>2, <3>3, <3>4, <3>5
  <2>. QED  BY <1>2, <2>1, <2>2
<1>6. ~(Restart \/ FileReplaced \/ HandleSaveGame \/ SaveCallback \/ Save \/ HandlePreLoadGame)
  BY DEF Restart, FileReplaced, HandleSaveGame, SaveCallback, OpenRecord, WriteRecordData, SaveThrows,
         Save, CallSave, SaveReturns, SaveEnds, KilledInSave, HandlePreLoadGame
<1>7. ~(ReadNoHeader \/ CallLoad \/ IndexPastEnd \/ SkipNBytes \/ LoadReturns)
  BY DEF ReadNoHeader, CallLoad, IndexPastEnd, SkipNBytes, LoadReturns
<1>. QED  BY <1>3, <1>4, <1>5, <1>6, <1>7 DEF Next, LoadLoop, LoadCallback

(***************************************************************************)
(* Of a file whose header is refused no plugin hears anything.             *)
(***************************************************************************)
LEMMA NobodyHears ==
  ASSUME Inv, Next, pass' = "load", pc' = "playing", pc \in {"preloaded", "loading", "reading", "loaded"},
         ~GameLoadFails, Refused
  PROVE  told' = NobodyTold
<1>1. ~Accepted
  BY CellKinds DEF Refused, Accepted
<1>2. pc = "preloaded"
  BY <1>1 DEF Inv, LoadingFits, Loading
<1>3. ~(Restart \/ FileReplaced \/ HandleSaveGame \/ SaveCallback \/ Save \/ HandlePreLoadGame)
  BY <1>2 DEF Restart, FileReplaced, HandleSaveGame, SaveCallback, OpenRecord, WriteRecordData,
              SaveThrows, Save, CallSave, SaveReturns, SaveEnds, KilledInSave, HandlePreLoadGame
<1>4. ~(LoadLoop \/ LoadCallback \/ LoadReturns)
  BY <1>2 DEF LoadLoop, HeaderAhead, ReadHeaderThrows, ReadNoHeader, SkipPlugin, CallLoad,
              IndexPastEnd, LoadEnds, LoadCallback, GetNextRecordInfo, ReadRecordData, SkipNBytes,
              LoadReturns
<1>5. HandleLoadGame
  BY <1>3, <1>4 DEF Next
<1>. QED  BY <1>1, <1>5 DEF HandleLoadGame, LoadFile, OpenFile, GiveUp

(***************************************************************************)
(* A load of a whole file calls every callback once, with data exactly for *)
(* the plugins that wrote some; and however a load ends, every plugin with *)
(* a load and a newGame callback has been called by one or the other,      *)
(* unless the header of the file is refused, of which nobody hears         *)
(* (HandleLoadGame, HandleNewGame).                                        *)
(***************************************************************************)
THEOREM CosaveEachTold == Spec => EachTold
<1>1. Inv /\ [Next]_vars =>
        [LoadEnds /\ ~torn =>
           \A h \in Handles :
             told'[PluginOf(h)] =
               IF HasCallback(h, pass)
               THEN <<IF saved[PluginOf(h)] # <<>> THEN "data" ELSE "none">>
               ELSE <<>>]_vars
  BY ToldOnce
<1>2. Inv /\ [Next]_vars =>
        [pass' = "load" /\ pc' = "playing" /\ pc \in {"preloaded", "loading", "reading", "loaded"}
         /\ ~GameLoadFails
           => IF Refused THEN told' = NobodyTold
              ELSE \A h \in Handles :
                     {"load", "newGame"} \subseteq registers[PluginOf(h)]
                       => told'[PluginOf(h)] # <<>>]_vars
  BY EveryoneHears, NobodyHears
<1>3. Spec => EachToldOnce
  BY <1>1, InvAlways, PTL DEF Spec, EachToldOnce
<1>4. Spec => EveryLoadIsHeard
  BY <1>2, InvAlways, PTL DEF Spec, EveryLoadIsHeard
<1>. QED  BY <1>3, <1>4, PTL DEF EachTold
=============================================================================

# A verification of columnix

columnix (`src/lib`) is a C library for an immutable columnar file format: a
writer that gathers cells into row groups and writes them front to back, and a
reader that finds the row groups from the end of the file, skips those that a
predicate rules out, and iterates or counts the rows of the others, with several
threads if asked to. This directory holds TLA+ models of that code, the TLC
configurations that check them on small instances, and proofs that TLAPS checks.

Run `tlc -config X.cfg M` on the pairs in "Runs" below and `tlapm M.tla` on
`SequenceLemmas` and the `*Proofs` modules. Line numbers are those of the sources at this commit.

## 1. Inventory

| component | source | state | operations |
|---|---|---|---|
| parallel query | `lib/reader.c:209-283` | a context on the caller's stack: `position`, `error`, a mutex; the reader; what the caller's callback updates | `cx_reader_query`: start threads, join them; thread: take a group, open it, hand a cursor to the callback |
| row group writer and file format | `lib/writer.c:246-614`, `lib/file.h` | the stream, descriptors, strings, row group headers, `row_count`, `header_written`, `footer_written` | `add_column`, `metadata`, `put`, `finish`, `free` |
| writer | `lib/writer.c:1-245` | the row group being filled (a values column and a nulls column for each column), `position`, `row_group_size`, a row group writer | `add_column`, `put_<type>`, `put_null`, `finish` |
| row group reader | `lib/reader.c:330-590` | the mapped file and where its parts are | `new`, `get`, names, types, metadata |
| reader iteration | `lib/reader.c:1-207, 285-328` | the current row group and its cursor, `position`, `error`, the predicate | `next`, `rewind`, `get_<type>`, `row_count`, `query` |
| row cursor | `lib/row.c` | a batch: its mask of matching rows, its count, the position in it; `index_match`, `error` | `new`, `rewind`, `next`, `count`, `get_<type>` |
| row group and its cursor | `lib/row_group.c` | columns, compressed or not, with two indexes each; per column a cursor and the number of values it is behind | `add_column`, `add_lazy_column`, cursor `next`, `skip`, `batch_<type>` |
| column index | `lib/index.c` | `count`, `min`, `max` | `cx_index_new`, `cx_index_match_<type>_<op>` |
| predicate | `lib/predicate.c`, `lib/match.c` | a tree: comparisons, null, custom, AND, OR, each perhaps negated | `valid`, `optimize`, `match_indexes`, `match_rows` |
| column | `lib/column.c` | a buffer, its `count`, `offset` and `size`, whether it is mapped; a cursor's position | `new`, `new_mmapped`, `new_compressed`, `put_<type>`; cursor `new`, `rewind`, `next_batch`, `skip` |
| compression | `lib/compress.c` | none | compress and decompress through lz4 and zstd |
| columnix_cat | `bin/columnix_cat.c` | a writer, the reader of the current file, where it is in both | copies the rows of several files to one |
| bindings, other tools | `lib/java.c`, `contrib/`, `bin/` | none of their own | one call of the library each, or a loop over a reader that prints |

How they interact. The caller of a `cx_writer` puts cells; a full row group is
handed, by a call, to the `cx_row_group_writer`, which compresses its columns and
writes them to a stream of stdio. Nothing but the file connects writers with
readers. A `cx_reader` maps the file, validates its predicate and reorders it
against the first row group, and then, for each row group, asks the indexes
through the predicate whether the row group is needed, and lets a row cursor ask
the predicate for a mask of matching rows, 64 rows at a time. `cx_reader_query`
does this from several threads, which share a context under one mutex that they
also hand to the caller's callback.

A column passes through most of these: it grows under the writer's puts, is
indexed over a cursor when its row group is flushed - and again if that flush
fails and is repeated -, is written, compressed or not, and freed; a row group of
the reader makes it anew from the mapped file or by decompression when it is
first wanted, and lets a cursor skip and read it. `columnix_cat` puts the two
halves together: what it reads, cell by cell, it puts.

What is hard about it, and what would make each part correct:

* **query** - real concurrency: a shared position, a shared error flag, a
  callback that updates the caller's data, threads of which some may fail to
  start and some meet an unreadable row group. Every row group is worked on
  once; the result says exactly whether all were; nobody runs on when the call
  has returned; the call returns.
* **row group writer** - partial failure, retry, crash: every write can fail
  half-way, a failed call seeks back and may be made again, stdio buffers what
  `ftruncate` and `fsync` do not see, the process may die between two writes.
  Row groups that were accepted are never damaged; the finished file is exact; a
  reader sees all of it or no file.
* **writer** - one call is a chain of steps that can each fail (flush, allocate,
  value, null bit), and only the first column counts rows. No cell is lost or
  shifted, and none doubled but where finding 2 says; row groups are full; a caller
  that keeps to rows is never stuck.
* **index and predicate** - boundary cases: negative values with a maximum that
  starts at zero, NaN, empty row groups, masks with bits beyond the rows of a
  batch, negated and skipped operands, operands reordered on one row group and
  used on all. Masks are exactly the matching rows; verdicts never contradict
  the rows.
* **cursors and reader iteration** - sequential, but lazily: columns are skipped
  over and caught up with, errors stick, two paths (`next` and `count`) answer
  the same question in different ways. Both must answer what the rows say.
* **column** - widths: bits share words, the last word of a column is partial, a
  batch of bits is used as a mask as it is, sizes double and have spare bytes, a
  mapped column has neither. What is read is what was put, at its place, and no
  bit beyond it is set.
* **columnix_cat** - its success must mean that nothing is missing, although the
  end of a file and an unreadable row group answer alike, and each of its readers
  must be freed, once.

`PROJECT.json` lists the hazards one by one with the properties that cover them.

## 2. The modules

| module | what it is | code |
|---|---|---|
| `Query` | the calling thread and its workers, one step per access to shared memory | `lib/reader.c:209-281`, `test/file.c:47-58` |
| `GroupScan` | abstract: a scan of the row groups in any order that ends with an answer | what callers of `cx_reader_query` rely on |
| `QueryProofs` | proofs about `Query` | |
| `StdioFile` | the file behind a stdio stream: buffer, seek, truncate | external, as `lib/writer.c` uses it |
| `RowGroupWriter` | the row group writer, a step per write, with what a reader makes of the file | `lib/writer.c:246-614`, `lib/reader.c:374-506, 533-584`, `lib/file.h` |
| `Writer` | the cell by cell writer above it | `lib/writer.c:48-265, 436-524` |
| `Cat` | columnix_cat as a caller of `Writer` | `bin/columnix_cat.c:85-236` |
| `SealedLog` | abstract: row groups are appended to a file nobody can open, which at one moment becomes readable and never changes again; both writers implement it | |
| `IndexMatch` | the verdict functions of an index | `lib/index.c` |
| `Index` | the scan that builds an index, and what its verdicts mean for the rows | `lib/index.c` |
| `Column` | a column's buffer, its puts, and its cursor | `lib/column.c` |
| `IndexedColumn` | `Index` and `Column` together: a column put, indexed over its cursor, refused or written, opened again and read | `lib/index.c:16-168`, `lib/writer.c:99-124, 395-434`, `lib/row_group.c:69-85, 205-342` |
| `RowCursor` | the cursor of a row group, with columns that are read when they are wanted, and the row cursor on it | `lib/row.c`, `lib/row_group.c:257-468`, `lib/column.c:289-426` |
| `Reader` | the calls of a reader's caller: next, get, row_count, rewind | `lib/reader.c:55-207, 312-366` |
| `RowScan` | abstract: the matching rows one by one, then the end, or an error that stays | what callers of a reader rely on |
| `ReaderProofs` | proofs about `Reader` | |
| `Predicate` | validity, optimization, row masks and verdicts of predicates, over the row groups of a file | `lib/predicate.c`, `lib/match.c` |
| `RowGroupWriterProofs`, `WriterProofs`, `CatProofs`, `ColumnProofs`, `PredicateProofs` | proofs about `RowGroupWriter`, `Writer`, `Cat`, `Index` and `IndexedColumn`, and `Predicate` | |
| `SequenceLemmas` | induction, sums, flattened sequences, bounds of sets, for the proofs | |
| `Totals` | the sum of a sequence of numbers | |
| `MC...` | the instances TLC checks | |

**State and actions against the code.** *Query*: `main` and `pc` are the program
counters of the caller and the workers; `position`, `error`, `mutex` are the
context; `claim`, `cursorError` and `seen` are locals of a worker and of the
test's callback `count_rows`; `total` is the caller's count, kept as the set of
groups that have rows in it, whole or in part, so that a lost or doubled update
shows. The lock, the read of
`position` and its write are three steps. *RowGroupWriter*: `columns`, `headers`,
`row_count`, `header_written`, `footer_written` are the fields of the C struct;
`strings` is the column of strings, to which `add_column` adds a name and every
attempt at `finish` the metadata, and `names` has the place in it that each
descriptor holds, 0 where the name could not be stored; `named` is history, the
columns that the caller was told are there.
`os`, `disk` and `buffer` divide the file into what fsync made durable, what the
operating system has and what stdio still holds; `pc` with `group`, `base`,
`offsets` and `sync` are the call in progress. Every `fwrite` is one step that
succeeds, fails before it wrote, or fails torn. Bytes are blocks that know what
they are, two units of offset to the writer's alignment of eight bytes, so that
overwriting, tearing and misalignment are visible while the encodings are not. A
block longer than two units, the strings, lies in several pieces (`Pieces`), and
is found only where all of them are (`HasPieces`).
`Read` is what the reader's open and get make of a file, names and metadata by
their places among the strings (`StringIn`) included; `Shows` says that they find
a given content. `failed` keeps the failures that properties make exceptions for
(`Grave`) and no others. *Writer*: one step per
function that can fail on the way of a put. `given` is what the caller was told
is accepted, and `written` has every row group that the footer will count: those
accepted, and those refused at their column headers, which `writer.c:507` has
counted by then. *Index*: one step per batch and per value of the scan. *Column* and
*IndexedColumn*: `stored` is the C struct with the buffer as a sequence of slots,
a word of bits being the set of those that are one, `position` the cursor's in
slots, `passed` the sum of what its skips and batches have answered; `column` is
what was put, and `page` what is in the file. *Cat*: `cat_pc` says where `main`
is, `reader` what its variable points to, `source` what the readers have
answered; a put is the call of `Writer`, whose steps are taken one by one, and a
reader is what `RowScan` promises, a row, the end, or an error. *Predicate*:
masks are sets of bits; a predicate is the sequence of its structs, each after its
operands, the root last, and a recursive C function is a function over this
sequence: what it answers for a struct, from what it answers for the operands
(`NodeRows`, `NodeVerdict`). A custom predicate is given by the values that its
caller's functions take and those they fail on (`CallerFails`). The loops over operands are given by the operand at
which they end. A row group has any number of rows, and what the cursor reads of
it at one position is a batch (`BatchAt`), like a row group of at most `Width`
rows. The actions are opening a reader (validate, reorder) and going to another
row group.

*Reader* and *RowCursor*: `group_position`, `initialized`, `row_mask`, `position`
and the two errors are fields of the C structs; per column, `read` is how many
values its cursor has gone over and `first` the row its current batch begins
with, and a value is known by its row. A step is one round of a loop (open a row
group, one batch, next row group). Which columns the predicate reads in a batch
is any subset, because operands are skipped (`Predicate` is about that), and the
verdict of the indexes is any that is right (`Index` is about that).

Definitions called "Variant" are not part of any specification. Each is an action
or operator with a mistake of the kind one makes in such code (a guard dropped,
an off-by-one, a step forgotten); `PROJECT.json` pairs each with the property
that must fail when it is put in the place of the real one.

## 3. Runs

| run (`.cfg`) | instance | result |
|---|---|---|
| `MCQuery` on `MCQuery` | up to 3 threads, 3 row groups, any thread may fail to start, any group to open or to be read | passes, liveness included |
| `MCQueryAbandoned` on `MCQuery` | 2 threads, one row group | `QuiescentOnReturn` fails: workers outlive the call |
| `MCRowGroupWriter` on `MCRowGroupWriter` | one column, 2 puts of a row group with a row or without, no metadata or one of two, which are interchangeable (symmetry), 2 failures of any of 13 kinds | passes |
| `MCRowGroupWriterHeaders` | the same with failing column headers | `RowCountIsRowsRead` fails |
| `MCRowGroupWriterSync` | the same without failures | `SyncedFileIsDurable` fails |
| `MCWriter` on `MCWriter` | 2 columns, 3 cells each, row groups of 0, 1 or 2 rows, callers by row and by cell and columnix_cat with up to 2 files, 2 failures of any of 7 kinds and of any read | passes |
| `MCIndexedColumn` on `MCIndexedColumn` | all columns of up to 5 of the values -1, 0, 1, 2, NaN, or of bits, or of lengths; words and batches of 2; written compressed and not, any flush refused, any skips and batches | passes |
| `MCColumnPadding` on `MCIndexedColumn` | columns of up to 3 of them | `ValuesArePadded` fails: the spare bytes are filled |
| `MCIndexNaN` on `MCIndex` | columns of up to 3 of them | `VerdictsAreSound` fails on NaN |
| `MCReader` on `MCReader` | files of up to two row groups of up to 3 rows, or one of up to 5, any rows matching, any right verdict; 2 columns, batches of 2, anything unreadable at any time | passes, liveness included |
| `MCPredicate` on `MCPredicate` | 1460 predicates of up to three levels, with custom ones that fail, on row groups of up to 3 rows of numbers or strings, one of them unreadable; batches of 2 | passes |
| `MCPredicateNullFile` on `MCPredicate` | null predicates on row groups read from a file | `VerdictsAgreeWithRows` fails |

What the properties say is written above each of them. Those that no short
test reaches: `OutcomeIsExact` and `ClaimedOnce` (Query), which relate the answer
to what every worker did in any interleaving; `AcceptedGroupsIntact` and
`FinishedFileIsExact` (RowGroupWriter), which relate the file to the history of
accepted calls through failures and retries, strings left by earlier finishes
included; `WrittenRowsAreTheCallers` (Writer), over flushes that are refused, counted or not,
and made again;
`BatchIsWhatWasPut` and `CursorCountsWhatItPasses` (IndexedColumn), which relate
what a cursor answers to what was put before the column was written, freed and
made again; `CopiesAreComplete` (Cat), over failures of readers and writer;
`OptimizeKeepsAnswers` (Predicate); and `ImplementsRowScan` with `GetReadsTheRow`
(Reader), over any sequence of calls and failures.

**Why these bounds.** Query: with three workers, one can be inside the mutex, one
inside the callback and one failing; three groups let each worker take one and
leave none, or one worker take two. The proofs below hold for all numbers. Row
group writer: two puts are one accepted and one failed or following; two failures
are a failure and one of the retry; a column has two parts (values and nulls), so
that a part can fail after another was written; two metadata are a stale one,
which a finish that failed has left among the strings, and the last. With two columns and one
metadata the same properties were found to hold, in more time. Writer: two columns are the
first, which counts the rows, and one that does not; three rows fill row groups of
two and leave one over; two files are one whose reader is left freed and one
that may not open. Columns: five values make three batches and, of bits, three
words, the last of them partial, so that the shift wraps round twice; a buffer of
one unit and one spare is just full, resized, and just full again. `Wrap` stands
for 2^64: it is larger than anything counted, and only a subtraction below zero
reaches it. Reader: five rows
in batches of two are three batches, so that a column can be left out of one and
catch up in the next, the last of them short; two row groups are one to come from
and one to go to. Predicate: batches as wide as a mask and one row less than it, with
an AND and an OR under each of them, are where capping and skipping differ, and
three rows are one batch of each; three operands or more go through the same loop. The strings are the empty one, one
in two cases, and one that contains another at its end and not at its start.

**Where deadlock is allowed.** Nowhere: final states are actions that change
nothing (`Terminated`, `Closed`, `Done`, `Exited`, `Refused`), and a reader can always be
called again.

**Fairness.** `Query` and `Reader` assume some. `Reader`: the thread that is
inside a call goes on with it; nobody has to make a call. `Query`: weak fairness
of each thread, that is, the
operating system keeps running a thread that can run. A thread waiting for the
mutex cannot run while another holds it, and the mutex is not assumed to be fair:
`CallReturns` holds because each worker enters the mutex a bounded number of
times per group and the groups run out.

## 4. What the violations show

Six places where the code does not do what a test, a comment or a caller takes
for granted; `PROJECT.json`, "findings", quotes the lines.

1. `reader.c:269`: when `pthread_create` fails after some threads have started,
   the call returns at once; they go on using the context on its stack.
2. `writer.c:507`: a row group is counted before its column headers are written;
   when that fails, the refused row group stays in the file, and a retry of the
   flush puts the same rows into the next one.
3. `writer.c:591`: `fsync` without `fflush`: what stdio still buffers is not
   durable when finish with sync returns true.
4. `index.c:125`: NaN enters neither bound, so that a column of 0 and NaN is
   said to match `< 10` in all rows.
5. `writer.c:494`: the index written with the null bits is that of the values.
6. `column.c:181`: the 16 spare bytes that a comment promises after each value
   are counted into the size of the buffer, and values fill them; the strings of
   such a column are read up to 15 bytes beyond its end.

Three more are exceptions that a property names. `ReadersAreFreedOnce`: when the
last `cx_writer_finish` of columnix_cat fails, the reader that the loop has freed
is freed again (`columnix_cat.c:154, 175`). `CursorCountsWhatItPasses`: a cursor
of bits at its end, in a word that is not full, answers a number below zero when
it is asked for more (`column.c:322`), which its callers in the library do not do.
`FlushableExactlyAtRowBoundaries`: a caller of `cx_writer` that puts a cell into
another column ahead of a full first one (`writer.c:161`) has made a row group that
no later put in the first column and no finish gets past, without any failure.

Properties that state what remains true beside them have their condition in their
definition: `FinishedFileIsExact` (`ContentAtRisk`), `ClosedFileIsExact` (both),
`ImplementsSealedLog` (`SealAtRisk`) and `QuiescentOnceStarted`; and the properties
of `Writer` speak of accepted row groups and say of a refused one (finding 2) what
it holds. The number of rows in `ReadLayout` is the footer's `row_count`; `Reader`
counts a whole file from its row groups, which is the same but for finding 2.

## 5. Proofs

Every property that a passing run checks is proved for all values of the
constants, liveness excepted, and so is every refinement. The
assumptions are the named `ASSUME`s of the modules, and they say no more than
what things are: bounds are natural numbers, sizes are positive, `None` is none of
the values it stands apart from, a predicate and a row group have the parts their
C structs have (`PredicateAssumption`). Three say more. `IndexedColumnAssumption`
takes the index's batch for a word of the column, and 2^64 for more than any
column holds. `IndexAssumption` takes values
other than NaN as integers, which stand for the ordered values of a type.
`ReaderAssumption` takes files of row groups whose index verdicts are right, which
`PredicateGivesRowGroups` shows of whole predicates and the theorems of
`ColumnProofs` of their columns, those with NaN excepted; with NaN, `next` and
`row_count` can disagree with the rows as finding 4 says, and with each other.

None of the properties is inductive alone. Each module has an invariant that is,
a conjunction of named parts; `Initially` and `Inductive`, or the lemmas of the
same role, show it with a case for each action and a step for each part, and the
properties are read off it.

`QueryProofs`, for any number of threads and row groups:

* `MutexInv`: a worker between lock and unlock is the one that holds the mutex;
* `PositionInv`: a worker about to write `position` back still has its current
  value, and every group in hand, counted or lost is below it - this is what
  makes `ClaimedOnce` preserved by `BumpPosition`;
* `SeenInv`: a worker about to write the total back has read its current value;
* `AccountInv`: each group below `position` is counted, lost or in someone's
  hands - with `ExitInv` (a worker stops only after an error or when no group is
  left) this gives `total = Groups` at a true answer;
* `FailureInv`: a group is lost exactly if the error flag is up or a worker is on
  its way to raise it;
* `MainInv`: which workers exist and which have been joined.

`ImplementsScan` is the step simulation of `GroupScan` under
`visited <- total, outcome <- Answer`.

`RowGroupWriterProofs`, for any row groups, columns, calls and failures. The file
is seen as its size and a block at each offset, so that a write is one more block
and what a failed call leaves in the buffer is a suffix of its writes (`Handing`,
`Composition`). `Start` is where the next call will write, or the call in progress
began; what was accepted lies below it (`AcceptedInv`: column parts, column
headers, row group header, each at its place, `Laid`), and no write comes below it
(`FileStep`: `Kept`). A failed call may seek back to `Start` and no further. Two
failures weaken this, and the invariant names them: after `columnHeaders` a
counted header may belong to a refused row group, so that an accepted one is only
known to have one at its index or later; after `seek`, the place the next call
writes at need not be aligned. `FinishInv` follows finish, section by section; that
a footer is the last write to reach the operating system (`LastIsFooter`, but for
`SealAtRisk`) is why a reader that finds one finds everything, why
`ImplementsSealedLog` holds at a crash at any moment, and why a file that `fclose`
has left short is no file to a reader. `NamesInv` says that strings are only ever
added, so that a name stays where its descriptor says, and `MetadataIsLast` that
the metadata is the string that the finish in progress has added, whatever others
have added before.

`WriterProofs`, for any columns, rows, row group sizes, orders of cells and
failures. A column is two sequences, values and null bits, that a failure between
the two leaves askew for good. `DataInv` says, column by column, that the written
cells are a prefix of the given ones, all of them when no row group is being
filled, and that written and buffered cells together are exactly the given ones
while the column is not askew; written cells are those of accepted row groups.
`GroupsInv` says of every counted row group, a refused one too, that it was handed
over with the cells that come next. `FullInv` lets the last row group be short once
finish has flushed. `WrittenRowsAreTheCallers`, `FinishedHoldsEverything`,
`RowGroupsAreFull`, `FlushableExactlyAtRowBoundaries` and the refinement of
`SealedLog` follow.

`CatProofs`. columnix_cat's steps are steps of a caller of `Writer`
(`CatIsACaller`), so that what `WriterProofs` shows holds of its output.
`SourceInv` adds that what the readers answered is what the writer was given,
except for the one cell of a put in progress; `RefusedInv` that after a row group
was refused it is on its way to an exit that is not 0, as it tries nothing again;
`FreeInv` where main has a reader to free.

`ColumnProofs` begins with `Index`, for columns of any length, any values and any
batch size. `Bounded` is the loop invariant of `cx_index_new`; from it follow
`NumericVerdicts`, `SkippingIsSound` (NaN included), `BitVerdicts` and
`LengthVerdicts`. It holds through any number of refused flushes, after which the
index is built again (`Discard`).

It goes on with `IndexedColumn`, for any type, values, word, batch and initial
size. `StoredInv` says what the slots hold (`Holds`: the values themselves, or of bits, word by
word, those that are one, with the last word partial and no bit beyond the
values) and that they lie in the buffer, which is doubled until they do
(`ResizedIsEnough`). `PageInv` keeps this of the column in the file, whether it is
mapped or decompressed again. `CursorInv` ties what skips and batches have
answered to the values before the cursor's place (`Before`), and a batch to the values at
its place. `ScanInv` does so for the cursor that
`cx_index_new` runs, so that `IndexedColumn` implements `Index`
(`ColumnImplementsIndex`), and `StoredVerdicts` restates the theorems on verdicts of
columns as they are stored.

`ReaderProofs`, for any batch size, columns and files, in two parts. `GetIsRight`
needs to know where every column's cursor stands: `BatchInv` says that a column
past the start of the current batch holds exactly this batch, and that every other
will be past it after its next fetch, however many batches it was left out of
(`FetchReaches`); `MaskInv` that the row the cursor is at lies in the batch.
`ImplementsScan` needs to know what has been decided: `ExactInv` says that the mask
holds all the matches of its batch, `FlagInv` that a row group is counted by its
index from its start or not at all, and `PlaceInv` that the rows handed out, or
counted, are exactly the matching rows before `Frontier`, the first row not yet
decided on. Going to the next row, batch or row group moves the frontier over no
match, or over one that is handed out; the counting lemmas add what a batch or a
row group has. The simulation of `RowScan` maps `rows` to `MatchingRows` and
`failed` to `error`.

`PredicateProofs`, for predicates of any size and depth, batches of any width, and
row groups of any length and content. `Suits` is the invariant of the reader: the predicate
is one it was opened with, but for the order of operands (`SamePredicate`), and
suits the row group being read. All that remains is about operators. A predicate
has answers (`AnswersExist`), which depend on those of the structs before only,
and `StrongInduction` carries from the operands of a struct to the struct what
`NodeExact` and `NodeAgrees` show for one: the mask is the set of the rows that
satisfy it, within the batch, and its count that of the batch, and there is one
unless a struct has a cause to fail (`Exact`, `NoCause`); a
certain verdict is right for all of them (`Agrees`). Where a loop over operands
stops early, the mask is already empty, or already has every bit, and no further
operand could change it (`AndLoop`, `OrLoop`). `IndexBounds` and `LengthBounds`
give the bounds of an index, on which the verdicts of leaves rest. Operands in
another order are the same set of answers (`SameOperands`), and neither the
meaning of a struct nor its verdict depends on more (`SameAnswers`). A predicate
means for a batch what it means for the rows of it (`MeaningOfBatch`), so that
masks of batches are exact because those of row groups no longer than a batch are.
`VerdictsAgree` has a hypothesis, `NullsAreIndexed`: the index that decides
predicates on nulls is that of the nulls, or there are none of them. It does not
hold of files, which is finding 5. Under the same hypothesis
`PredicateGivesRowGroups` joins this module to the row cursor: `RowCursor` knows a
row group by its rows, those that match and the verdict, any that are consistent
(`RowGroups`), and expects of a batch that is read the mask `BatchMatches`. The
theorem instantiates `RowCursor` with what the predicate makes of the row group,
and shows that it is one of its row groups and that every mask read is the one
expected; so what `ReaderProofs` shows holds of readers with such predicates.

`SequenceLemmas` has what several of these share. The library's induction theorems
take an operator as a parameter, which no installed prover can instantiate;
`NatInductive` states induction of a set of numbers instead, which they can.
With it, sums, flattened sequences and bounds of sets of numbers are treated, and
induction over the places of a sequence.

Only model-checked: `CallReturns` and `CallsReturn`, as liveness is out of the
prover's reach.

## 6. Not modelled

* The bytes of compression and vector instructions: they are data-parallel forms
  of the loops that are modelled. That compression can fail is a failure of the
  column.
* What reading beyond the spare bytes of a column does: it is undefined in C.
* Files no writer made.
* `cx_writer_add_column` after the first cell, which the code accepts and then
  runs over more columns than were allocated: the model's caller names its
  columns first.
* `cx_reader_get_<type>` after a next that failed inside a row group: the code
  asserts that it does not happen, and the model's caller keeps to it.
* Failed allocations that return before anything has changed.
* The options of columnix_cat; the other tools, which print what a reader yields.
* The bindings: one call of the library per function, with arguments converted and
  false turned into an exception, and no state between calls. The test framework
  is third-party code.

## 7. Plan

Order of work, the most important first:

1. done - `Query` with `GroupScan`, `QueryProofs`; `RowGroupWriter` with
   `StdioFile` and `SealedLog`; `Writer`; `IndexMatch`, `Index` and proofs about
   it; `Predicate`; `RowCursor`, `Reader` with `RowScan`, `ReaderProofs`.
2. done - what was put is what is read back: `Column` and `IndexedColumn`, for one
   column; `Cat`, for what a reader yields and a writer is given; strings and
   custom predicates in `Predicate`.
3. done - proofs about `Writer`, `RowGroupWriter` and `Cat`, with the
   implementation of `SealedLog` by both writers.
4. done - the implementation of `RowScan` by `Reader`, for all files.
5. done - the invariants of `Column`, and from them that `IndexedColumn`
   implements `Index`.
6. done - `Predicate` with its recursion as functions over the structs of a
   predicate, and from that, by induction over them, that row masks are exact,
   that verdicts agree with the rows and that reordering changes no answer; and
   that this is what `RowCursor` and `Reader` take for granted.

What could follow: batches of the columns of `IndexedColumn` in the place of the
values of `Predicate`. `NullsAreIndexed` stays a hypothesis as long as a file has
the index of the values where that of the nulls is read (finding 5).

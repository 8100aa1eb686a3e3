---------------------------- MODULE RowGroupWriter ----------------------------
(***************************************************************************)
(* cx_row_group_writer (lib/writer.c): the file format, written front to   *)
(* back, with every write able to fail and every call able to be retried,  *)
(* and the reader that opens what is on disk (cx_row_group_reader_new and  *)
(* cx_row_group_reader_get of lib/reader.c).                               *)
(*                                                                         *)
(* Each fwrite is a step, so that what a killed process leaves behind is   *)
(* the value of os in any state.  Blocks stand for the bytes written: the  *)
(* file header, the values and the nulls of a column, the column headers   *)
(* of a row group, the strings, the row group headers, the column          *)
(* descriptors and the footer.                                             *)
(***************************************************************************)
EXTENDS StdioFile, Totals

CONSTANTS
    Groups,       \* row groups the caller may put
    RowsIn,       \* their number of rows, a function from Groups to Nat
    MaxColumns,   \* bound on cx_row_group_writer_add_column
    MaxPuts,      \* bound on cx_row_group_writer_put
    Metadata,     \* strings the caller may give cx_row_group_writer_metadata
    None,         \* no metadata, no row group, no promise
    Faults,       \* what may fail: block kinds, "seek", "truncate", "sync"...
    MaxFaults     \* bound on failures

ASSUME RowGroupWriterAssumption ==
    /\ RowsIn \in [Groups -> Nat]
    /\ MaxColumns \in Nat /\ MaxPuts \in Nat /\ MaxFaults \in Nat
    /\ None \notin Groups /\ None \notin Metadata

VARIABLES
    columns,          \* columns.count: the descriptors
    headers,          \* row_groups.headers, up to row_groups.count
    row_count,
    metadata,         \* strings.metadata
    strings,          \* strings.column: a column's name is its number
    names,            \* of each descriptor, the place of its name in strings
    header_written,
    footer_written,
    os,               \* the file as the operating system has it
    disk,             \* the part of it that fsync has made durable
    buffer,           \* the writes stdio still holds, in order
    position,         \* ftello
    pc,               \* the call in progress, or "idle", or "closed"
    group,            \* the row group being put
    base,             \* its row_group_offset; in finish, offset
    offsets,          \* the column headers filled in so far, as offsets
    sync,             \* the argument of the finish in progress
    named,            \* columns for which add_column returned true
    accepted,         \* row groups for which put returned true
    promised,         \* what the file held when finish returned true
    failed,           \* what has failed so far, of Grave
    puts, faults      \* calls and failures so far

callVars   == <<pc, group, base, offsets, sync>>
formatVars == <<columns, headers, row_count, metadata, strings, names,
                header_written, footer_written>>
fileVars   == <<os, disk, buffer, position>>
faultVars  == <<failed, faults>>
ghostVars  == <<named, accepted, promised, puts, faultVars>>
vars == <<callVars, formatVars, fileVars, ghostVars>>

Init ==
    /\ columns = 0 /\ headers = <<>> /\ row_count = 0 /\ metadata = None
    /\ strings = <<>> /\ names = <<>> /\ named = {}
    /\ header_written = FALSE /\ footer_written = FALSE
    /\ os = EmptyFile /\ disk = EmptyFile /\ buffer = <<>> /\ position = 0
    /\ pc = "idle" /\ group = None /\ base = 0 /\ offsets = <<>>
    /\ sync = FALSE
    /\ accepted = <<>> /\ promised = None
    /\ failed = {} /\ puts = 0 /\ faults = 0

------------------------------------------------------------------------------
(* Writing *)

\* The failures that properties make exceptions for.
Grave == {"columnHeaders", "seek", "truncate", "sync"}

MayFail(what) == /\ what \in Faults /\ faults < MaxFaults
                 /\ faults' = faults + 1
                 /\ failed' = failed \cup ({what} \cap Grave)

\* fwrite of a block at the aligned position; stdio hands over as much of the
\* buffer as it likes.  An empty block is not written and nothing moves.
Write(block, size) ==
    IF size = 0 THEN UNCHANGED <<os, buffer, position>>
    ELSE LET start == Align(position)
             all == buffer \o Pieces(start, size, block)
         IN /\ position' = start + size
            /\ \E n \in 0..Len(all) : Handed(os, os', all, buffer', n)

\* fwrite fails, with or without having written part of the block.
WriteFails(block, size) ==
    /\ size > 0
    /\ MayFail(block.kind)
    /\ \/ /\ position' = position
          /\ \E n \in 0..Len(buffer) : Handed(os, os', buffer, buffer', n)
       \/ \E part \in 1..size : Write(Torn, part)

\* fseeko back to offset at the end of a call that failed.  The writer ignores
\* its result: when it fails too, the position stays where the write left it.
SeekBack(offset) ==
    \/ /\ os' = ApplyAll(os, buffer)
       /\ buffer' = <<>>
       /\ position' = offset
       /\ UNCHANGED faultVars
    \/ /\ MayFail("seek")
       /\ \E n \in 0..Len(buffer) : Handed(os, os', buffer, buffer', n)
       /\ UNCHANGED position

\* Between the steps of a call only its own local variables matter.
Goto(label) == pc' = label
Return      == /\ pc' = "idle"
               /\ group' = None /\ base' = 0 /\ offsets' = <<>> /\ sync' = FALSE

------------------------------------------------------------------------------
(* What is written *)

HeaderBlock == [kind |-> "header"]

\* A row group is written as the values and the nulls of each column in turn:
\* the i-th part is the values of a column if i is odd, its nulls otherwise.
Part(g, i)     == [kind |-> "column", of |-> <<g, i>>]
PartSize(g, i) == IF RowsIn[g] = 0 THEN 0 ELSE 2 - (i % 2)
Parts          == 1..(2 * columns)

ColumnHeaders(list) == [kind |-> "columnHeaders", list |-> list]
StringsBlock   == [kind |-> "strings", list |-> strings]
StringsSize    == Len(strings)
GroupHeaders   == [kind |-> "groupHeaders", list |-> headers]
GroupHeadersSize(n) == IF n = 0 THEN 0 ELSE 2
Descriptors    == [kind |-> "descriptors", names |-> names]
DescriptorsSize(n)  == IF n = 0 THEN 0 ELSE 2
\* Variant: the metadata comes right after the names.
MetadataAfterNames == IF metadata = None THEN -1 ELSE columns

\* The metadata is the last string that finish has added.
MetadataId     == IF metadata = None THEN -1 ELSE Len(strings) - 1
FooterSize     == 2
FooterBlock    == [kind |-> "footer", strings_offset |-> base,
                   strings_size |-> StringsSize, metadata |-> MetadataId,
                   row_group_count |-> Len(headers), column_count |-> columns,
                   row_count |-> row_count]

------------------------------------------------------------------------------
(* What cx_row_group_reader_new and cx_row_group_reader_get make of a file *)

Rejected   == [kind |-> "rejected"]
Garbage    == [kind |-> "garbage"]     \* bytes that are not what they should be
NoGroup    == <<Garbage>>

\* cx_row_group_reader_get: the column headers follow the row group, and give
\* the place and the size of each part.
ReadPart(file, entry) ==
    IF entry.size = 0 THEN Hole
    ELSE IF entry.offset + entry.size > file.size THEN Garbage
    ELSE BlockAt(file, entry.offset)

ReadGroup(file, header) ==
    LET at == BlockAt(file, header.offset + header.size)
    IN IF at.kind # "columnHeaders" THEN NoGroup
       ELSE [i \in DOMAIN at.list |-> ReadPart(file, at.list[i])]

\* cx_row_group_reader_string: None is no string.
StringIn(list, id) == IF id < Len(list) THEN list[id + 1] ELSE None

ReadStrings(file, offset, size) ==
    LET block == BlockAt(file, offset)
    IN IF size > 0 /\ block.kind = "strings" /\ HasPieces(file, offset, size, block)
       THEN block.list ELSE <<>>

\* cx_row_group_reader_metadata: there is none, or it is a string that may be
\* missing.
ReadMetadata(list, id) ==
    IF id < 0 THEN None
    ELSE IF id >= Len(list) THEN Garbage ELSE StringIn(list, id)

\* cx_row_group_reader_column_name, of all the columns.
ReadNames(block, list) ==
    IF block.kind # "descriptors" THEN <<>>
    ELSE [i \in DOMAIN block.names |-> StringIn(list, block.names[i])]

\* The row group headers and the descriptors are found from the end of the
\* file, the strings from the offset in the footer.
ReadLayout(file, footer) ==
    LET descriptorsAt == file.size - FooterSize
                             - DescriptorsSize(footer.column_count)
        headersAt     == descriptorsAt
                             - GroupHeadersSize(footer.row_group_count)
        list          == ReadStrings(file, footer.strings_offset,
                                     footer.strings_size)
        at            == BlockAt(file, headersAt)
    IN IF headersAt < 0 \/ footer.strings_offset + footer.strings_size > file.size
       THEN Rejected
       ELSE [columns  |-> footer.column_count,
             rows     |-> footer.row_count,
             names    |-> IF footer.column_count = 0 THEN <<>>
                          ELSE ReadNames(BlockAt(file, descriptorsAt), list),
             metadata |-> ReadMetadata(list, footer.metadata),
             groups   |-> IF footer.row_group_count = 0 THEN <<>>
                          ELSE IF at.kind # "groupHeaders" THEN <<NoGroup>>
                          ELSE [i \in DOMAIN at.list |->
                                   ReadGroup(file, at.list[i])]]

Read(file) ==
    IF file.size < FooterSize THEN Rejected
    ELSE LET footer == BlockAt(file, file.size - FooterSize)
         IN IF footer.kind # "footer" THEN Rejected ELSE ReadLayout(file, footer)

\* The same content, as the writer's callers know it.
Whole(g) == [i \in Parts |-> IF PartSize(g, i) = 0 THEN Hole ELSE Part(g, i)]
RowsOf(list) == Total([i \in DOMAIN list |-> RowsIn[list[i]]])
Content == [columns  |-> columns,
            rows     |-> RowsOf(accepted),
            named    |-> named,
            metadata |-> metadata,
            groups   |-> [i \in DOMAIN accepted |-> Whole(accepted[i])]]

\* A reader of the file finds this content.  A column whose name could not be
\* stored is one of its columns, but nothing is said of its name.
Shows(file, content) ==
    LET read == Read(file) IN
    /\ read # Rejected
    /\ read.columns = content.columns /\ read.rows = content.rows
    /\ \A c \in content.named : c \in DOMAIN read.names /\ read.names[c] = c
    /\ read.metadata = content.metadata
    /\ read.groups = content.groups

\* What the file holds once stdio's buffer has reached it.
Stream == ApplyAll(os, buffer)

------------------------------------------------------------------------------
(* The operations, step by step *)

\* cx_row_group_writer_add_column, refused once the header is written.  The
\* descriptor is counted before its name is stored, and stays counted, with the
\* place 0 that memset left, when the name cannot be.
AddColumn == /\ pc = "idle" /\ ~header_written /\ columns < MaxColumns
             /\ columns' = columns + 1
             /\ \/ /\ strings' = Append(strings, columns + 1)
                   /\ names' = Append(names, Len(strings))
                   /\ named' = named \cup {columns + 1}
                   /\ UNCHANGED faultVars
                \/ /\ MayFail("name")
                   /\ names' = Append(names, 0)
                   /\ UNCHANGED <<strings, named>>
             /\ UNCHANGED <<callVars, headers, row_count, metadata, header_written,
                            footer_written, fileVars, accepted, promised, puts>>

SetMetadata(m) == /\ pc = "idle"
                  /\ metadata' = m
                  /\ UNCHANGED <<callVars, columns, headers, row_count, strings,
                                 names, header_written, footer_written, fileVars,
                                 ghostVars>>

\* ensure_header, in put and in finish; on error, rewind.
WriteHeader == /\ pc \in {"put:header", "finish:header"}
               /\ Write(HeaderBlock, 2)
               /\ header_written' = TRUE
               /\ base' = position'
               /\ Goto(IF pc = "put:header" THEN "put:part" ELSE "finish:metadata")
               /\ UNCHANGED <<group, offsets, sync, columns, headers, row_count,
                              metadata, strings, names, footer_written, disk,
                              ghostVars>>

HeaderFails == /\ pc \in {"put:header", "finish:header"}
               /\ WriteFails(HeaderBlock, 2)
               /\ base' = 0
               /\ Goto("error")
               /\ UNCHANGED <<group, offsets, sync, formatVars, disk, named,
                              accepted, promised, puts>>

\* cx_row_group_writer_put of row group g with n columns: refused after the
\* footer and when the columns do not match, nothing to do without columns.
Put(g, n) ==
    /\ pc = "idle" /\ puts < MaxPuts
    /\ puts' = puts + 1
    /\ IF footer_written \/ n # columns \/ n = 0 THEN UNCHANGED callVars
       ELSE /\ group' = g
            /\ base' = position
            /\ Goto(IF header_written THEN "put:part" ELSE "put:header")
            /\ UNCHANGED <<offsets, sync>>
    /\ UNCHANGED <<formatVars, fileVars, named, accepted, promised, faultVars>>

NextPart == Len(offsets) + 1

\* cx_row_group_writer_put_column: the aligned offset goes to the header.
PutPart == /\ pc = "put:part" /\ NextPart \in Parts
           /\ Write(Part(group, NextPart), PartSize(group, NextPart))
           /\ offsets' = Append(offsets, [offset |-> Align(position),
                                          size |-> PartSize(group, NextPart)])
           /\ UNCHANGED <<pc, group, base, sync, formatVars, disk, ghostVars>>

PartFails == /\ pc = "put:part" /\ NextPart \in Parts
             /\ WriteFails(Part(group, NextPart), PartSize(group, NextPart))
             /\ Goto("error")
             /\ UNCHANGED <<group, base, offsets, sync, formatVars, disk, named,
                            accepted, promised, puts>>

\* Variant: the size of a row group with its terms swapped.
CountGroupSwapped == headers' = Append(headers, [offset |-> base,
                                                 size |-> base - Align(position)])

\* The row group header is counted before the column headers are written.
CountGroup == headers' = Append(headers, [offset |-> base,
                                          size |-> Align(position) - base])

PutHeaders == /\ pc = "put:part" /\ NextPart \notin Parts
              /\ CountGroup
              /\ Write(ColumnHeaders(offsets), 2)
              /\ row_count' = row_count + RowsIn[group]
              /\ accepted' = Append(accepted, group)
              /\ Return
              /\ UNCHANGED <<columns, metadata, strings, names, header_written,
                             footer_written, disk, named, promised, puts, faultVars>>

HeadersFail == /\ pc = "put:part" /\ NextPart \notin Parts
               /\ CountGroup
               /\ WriteFails(ColumnHeaders(offsets), 2)
               /\ Goto("error")
               /\ UNCHANGED <<group, base, offsets, sync, columns, row_count,
                              metadata, strings, names, header_written,
                              footer_written, disk, named, accepted, promised, puts>>

\* Variant: back to the start of the file, as ensure_header does.
FailCallRewinding == /\ pc = "error"
                     /\ SeekBack(0)
                     /\ Return
                     /\ UNCHANGED <<formatVars, disk, named, accepted, promised, puts>>

\* The error exits: seek back to where the call began, and return false.
FailCall == /\ pc = "error"
            /\ SeekBack(base)
            /\ Return
            /\ UNCHANGED <<formatVars, disk, named, accepted, promised, puts>>

\* cx_row_group_writer_finish, a noop once it has succeeded.
Finish(s) == /\ pc = "idle" /\ ~footer_written
             /\ base' = position
             /\ sync' = s
             /\ Goto(IF header_written THEN "finish:metadata" ELSE "finish:header")
             /\ UNCHANGED <<group, offsets, formatVars, fileVars, ghostVars>>

\* Variant: the footer before what is found from it.
SectionsFooterFirst == {
    <<"finish:strings",     StringsBlock, StringsSize, "finish:footer">>,
    <<"finish:footer",      FooterBlock, FooterSize, "finish:groups">>,
    <<"finish:groups",      GroupHeaders, GroupHeadersSize(Len(headers)),
                            "finish:descriptors">>,
    <<"finish:descriptors", Descriptors, DescriptorsSize(columns),
                            "finish:truncate">>}

\* The sections finish writes, in order: label, block, size, next label.
Sections == {
    <<"finish:strings",     StringsBlock, StringsSize, "finish:groups">>,
    <<"finish:groups",      GroupHeaders, GroupHeadersSize(Len(headers)),
                            "finish:descriptors">>,
    <<"finish:descriptors", Descriptors, DescriptorsSize(columns),
                            "finish:footer">>,
    <<"finish:footer",      FooterBlock, FooterSize, "finish:truncate">>}

\* The metadata goes to the strings, each time finish gets here: what an attempt
\* that failed has added stays.
AddMetadata == /\ pc = "finish:metadata"
               /\ strings' = IF metadata = None THEN strings
                             ELSE Append(strings, metadata)
               /\ Goto("finish:strings")
               /\ UNCHANGED <<group, base, offsets, sync, columns, headers, row_count,
                              metadata, names, header_written, footer_written,
                              fileVars, ghostVars>>

\* It cannot be added: return without a seek.
MetadataFails == /\ pc = "finish:metadata" /\ metadata # None
                 /\ MayFail("metadata")
                 /\ Return
                 /\ UNCHANGED <<formatVars, fileVars, named, accepted, promised, puts>>

WriteSection == \E s \in Sections :
    /\ pc = s[1]
    /\ Write(s[2], s[3])
    /\ Goto(s[4])
    /\ UNCHANGED <<group, base, offsets, sync, formatVars, disk, ghostVars>>

SectionFails == \E s \in Sections :
    /\ pc = s[1]
    /\ WriteFails(s[2], s[3])
    /\ Goto("error")
    /\ UNCHANGED <<group, base, offsets, sync, formatVars, disk, named,
                   accepted, promised, puts>>

\* ftruncate to ftello; what stdio still holds is written over it later.
SetSize == /\ pc = "finish:truncate"
           /\ os' = Truncate(os, position)
           /\ Goto("finish:sync")
           /\ UNCHANGED <<group, base, offsets, sync, formatVars, disk, buffer,
                          position, ghostVars>>

\* fsync, if asked for, then return true.
SyncAndReturn == /\ pc = "finish:sync"
                 /\ disk' = IF sync THEN os ELSE disk
                 /\ footer_written' = TRUE
                 /\ promised' = [content |-> Content, synced |-> sync]
                 /\ Return
                 /\ UNCHANGED <<columns, headers, row_count, metadata, strings,
                                names, header_written, os, buffer, position, named,
                                accepted, puts, faultVars>>

SystemCallFails == /\ \/ pc = "finish:truncate" /\ MayFail("truncate")
                      \/ pc = "finish:sync" /\ sync /\ MayFail("sync")
                   /\ Goto("error")
                   /\ UNCHANGED <<group, base, offsets, sync, formatVars,
                                  fileVars, named, accepted, promised, puts>>

\* Variant: close without handing over the buffer.
FreeWithoutFlush == /\ pc = "idle"
                    /\ buffer' = <<>>
                    /\ Goto("closed")
                    /\ UNCHANGED <<group, base, offsets, sync, formatVars, os, disk,
                                   position, ghostVars>>

\* cx_row_group_writer_free: fclose hands over the buffer, or fails to, and
\* nobody looks at its result.
Free == /\ pc = "idle"
        /\ \/ os' = ApplyAll(os, buffer) /\ buffer' = <<>> /\ UNCHANGED faultVars
           \/ /\ MayFail("close")
              /\ \E n \in 0..Len(buffer) : Handed(os, os', buffer, buffer', n)
        /\ Goto("closed")
        /\ UNCHANGED <<group, base, offsets, sync, formatVars, disk, position,
                       named, accepted, promised, puts>>

Closed == pc = "closed" /\ UNCHANGED vars

Next == \/ AddColumn
        \/ \E m \in Metadata : SetMetadata(m)
        \/ WriteHeader \/ HeaderFails
        \/ \E g \in Groups, n \in 0..MaxColumns : Put(g, n)
        \/ PutPart \/ PartFails \/ PutHeaders \/ HeadersFail
        \/ FailCall
        \/ \E s \in BOOLEAN : Finish(s)
        \/ AddMetadata \/ MetadataFails \/ WriteSection \/ SectionFails
        \/ SetSize \/ SyncAndReturn \/ SystemCallFails
        \/ Free \/ Closed

Spec == Init /\ [][Next]_vars

------------------------------------------------------------------------------
(* Properties *)

Labels == {"idle", "put:header", "put:part", "error", "finish:header",
           "finish:metadata", "finish:strings", "finish:groups",
           "finish:descriptors", "finish:footer", "finish:truncate",
           "finish:sync", "closed"}
Extent == [offset : Nat, size : Nat]
Block ==
    {Hole, Torn, Rest, HeaderBlock}
    \cup [kind : {"column"}, of : Groups \X Nat]
    \cup [kind : {"columnHeaders", "groupHeaders"}, list : Seq(Extent)]
    \cup [kind : {"strings"}, list : Seq(Metadata \cup Nat)]
    \cup [kind : {"descriptors"}, names : Seq(Nat)]
    \cup [kind : {"footer"}, strings_offset : Nat, strings_size : Nat,
          metadata : Int, row_group_count : Nat, column_count : Nat,
          row_count : Nat]
Promise == [synced : BOOLEAN,
            content : [columns : 0..MaxColumns, rows : Nat,
                       named : SUBSET (1..MaxColumns),
                       metadata : Metadata \cup {None}, groups : Seq(Seq(Block))]]

FilesOK == /\ os \in File(Block) /\ disk \in File(Block) /\ position \in Nat
           /\ buffer \in Seq(Writes(Block)) /\ Within(buffer, position)

\* Every variable keeps its type: what has reached the file and what stdio still
\* holds are blocks of the format, and stdio holds nothing that ends past ftello,
\* through failed writes, seeks back and finishes that are retried.
TypeOK ==
    /\ columns \in 0..MaxColumns
    /\ headers \in Seq(Extent)
    /\ row_count \in Nat
    /\ metadata \in Metadata \cup {None}
    /\ strings \in Seq(Metadata \cup Nat)
    /\ names \in Seq(Nat) /\ Len(names) = columns
    /\ header_written \in BOOLEAN /\ footer_written \in BOOLEAN
    /\ FilesOK
    /\ pc \in Labels
    /\ group \in Groups \cup {None}
    /\ base \in Nat /\ sync \in BOOLEAN
    /\ offsets \in Seq(Extent)
    /\ named \subseteq 1..columns
    /\ accepted \in Seq(Groups)
    /\ promised \in Promise \cup {None}
    /\ failed \subseteq Faults \cap Grave
    /\ puts \in 0..MaxPuts /\ faults \in 0..MaxFaults

\* A row group that put accepted stays readable, through a row group header the
\* writer keeps for it, whatever fails or is retried after it: no rewind, no
\* seek back and no overwrite touches its parts or its column headers.
AcceptedGroupsIntact ==
    \A i \in DOMAIN accepted :
        \E j \in i..Len(headers) :
            ReadGroup(Stream, headers[j]) = Whole(accepted[i])

\* A row group refused for its column headers stays counted, and a seek that
\* fails leaves the strings where the footer does not say: after one of these
\* the content of the file is that of AcceptedGroupsIntact and no more.
ContentAtRisk == failed \cap {"columnHeaders", "seek"} # {}

\* A footer that is out stays out when ftruncate or fsync then fails.
SealAtRisk == failed \cap {"columnHeaders", "truncate", "sync"} # {}

\* Once finish has returned true, a reader finds exactly the row groups and rows
\* of the puts that returned true, in their order, the metadata of the last call
\* before, and under its name every column whose add_column returned true,
\* however many calls failed and were retried before, finish among them: not a
\* copy of the metadata that an earlier finish has left among the strings.
FinishedFileIsExact ==
    promised # None /\ ~ContentAtRisk => Shows(Stream, promised.content)

\* After finish has returned true, free leaves that file to the operating
\* system: ftruncate, which does not see stdio's buffer, never cuts off what is
\* still to be written.  If fclose fails to hand over the buffer, which nobody
\* is told, the file is that one or one that cannot be opened; only after an
\* ftruncate or fsync failed, with a footer out, may it be another.
ClosedFileIsExact ==
    pc = "closed" /\ promised # None /\ ~ContentAtRisk =>
        \/ Shows(os, promised.content)
        \/ buffer # <<>> /\ (Read(os) = Rejected \/ SealAtRisk)

RowsReadFrom(groups) ==
    FoldLeft(LAMBDA n, parts : n + Max({0} \cup {RowsIn[g] : g \in
                                        {g \in Groups : parts = Whole(g)}}),
             0, groups)

\* The footer's row count, which cx_reader_row_count answers, is the number of
\* rows in the row groups the file leads to (test/file.c:105 and 149).
RowCountIsRowsRead ==
    promised # None => Read(Stream).rows = RowsReadFrom(Read(Stream).groups)

\* When finish(writer, true) has returned true, "sync the file" (writer.c:585)
\* has made the whole file durable.
SyncedFileIsDurable ==
    promised # None /\ promised.synced => Shows(disk, promised.content)

\* A file is readable by others, even after the process is killed, only when
\* it is whole, and then it never changes.  The code makes no such effort once a
\* footer is out and ftruncate or fsync fails, or for a row group it refused.
Log == INSTANCE SealedLog WITH
    Unreadable <- None,
    appended   <- [i \in DOMAIN accepted |-> Whole(accepted[i])],
    visible    <- LET read == Read(os)
                  IN IF read = Rejected THEN None ELSE read.groups
ImplementsSealedLog == Log!Init /\ [][SealAtRisk' \/ Log!Next]_(Log!vars)
===============================================================================

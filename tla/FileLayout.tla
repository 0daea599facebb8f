----------------------------- MODULE FileLayout -----------------------------
(***************************************************************************)
(* A torrent is one row of bytes that is cut into pieces for the network   *)
(* and into files for the disk.  This module has the two algorithms of the *)
(* code that go from one to the other, and what they ought to compute:     *)
(*                                                                         *)
(*  - DiskIo::Private::describeLocation, the places in the files where a   *)
(*    block is, with its hint for the next block;                          *)
(*  - CommandTask::Private::resetScheduledPiecesMask, the pieces that are  *)
(*    wanted because of the files that are.                                *)
(*                                                                         *)
(* Sizes are counted in some unit; offsets and pieces start at 0, files    *)
(* at 1.                                                                   *)
(***************************************************************************)
EXTENDS Integers, Sequences, FiniteSets, SequencesExt

CONSTANTS PieceSize, BlockSize

ASSUME SizeAssumption ==
    /\ PieceSize \in Nat \ {0}
    /\ BlockSize \in 1..PieceSize

Smallest(S) == CHOOSE n \in S : \A m \in S : n <= m

\* FileDescriptor::absOffset; the last value is the size of the torrent.
Starts(files) ==
    LET start[f \in 1..Len(files)+1] == IF f = 1 THEN 0 ELSE start[f - 1] + files[f - 1]
    IN  start
TorrentSize(files) == Starts(files)[Len(files) + 1]

\* TorrentModel::pieceCount and lastPieceSize.
PieceCount(files) == (TorrentSize(files) + PieceSize - 1) \div PieceSize
SizeOfPiece(files, i) ==
    IF i < PieceCount(files) - 1 THEN PieceSize
    ELSE TorrentSize(files) - i * PieceSize

PieceAddresses(files, i) == i * PieceSize .. i * PieceSize + SizeOfPiece(files, i) - 1

----------------------------------------------------------------------------
\* describeLocation.

NoHint == [offset |-> 0, index |-> 1]

\* The search halves the range of files until the place, which is in the torrent,
\* is in the middle one; 0: not found, where an assert fails.
Middle(range) == range.left + (range.right - range.left) \div 2
Halve(files, where, range) ==
    LET start == Starts(files)[Middle(range)]
    IN  IF range.left >= range.right THEN range
        ELSE IF where < start THEN [range EXCEPT !.right = Middle(range)]
        ELSE IF where >= start + files[Middle(range)] THEN [range EXCEPT !.left = Middle(range)]
        ELSE range
BinarySearch(files, where) ==
    LET range[n \in 0..Len(files)] ==
            IF n = 0 THEN [left |-> 1, right |-> Len(files) + 1]
            ELSE Halve(files, where, range[n - 1])
        last == range[Len(files)]
    IN  IF last.left >= last.right THEN 0 ELSE Middle(last)

FindFile(files, where, hint) ==
    IF where = hint.offset THEN hint.index ELSE BinarySearch(files, where)

\* The files that the block fills to their end, the file after them and what
\* is left for that file: one turn of the loop, and all of them.
FillFile(files, at) ==
    IF at.remaining > 0 /\ at.index <= Len(files) /\ at.remaining >= files[at.index]
    THEN [runs |-> at.runs \o IF files[at.index] = 0 THEN <<>>
                              ELSE <<[file |-> at.index, offset |-> 0]>>,
          index |-> at.index + 1,
          remaining |-> at.remaining - files[at.index]]
    ELSE at
Fill(files, first, size) ==
    LET fill[n \in 0..Len(files)] ==
            IF n = 0 THEN [runs |-> <<>>, index |-> first, remaining |-> size]
            ELSE FillFile(files, fill[n - 1])
    IN  fill[Len(files)]

\* Mutant: the offset in the torrent for the offset in the file.
LocateAbsolute(files, where, size, hint) ==
    LET first == FindFile(files, where, hint)
    IN  [runs |-> <<[file |-> first, offset |-> where]>>,
         hint |-> [offset |-> where + size, index |-> first]]

\* From the first file on.
LocateFrom(files, where, size, first) ==
    LET offset == where - Starts(files)[first]
        fits  == size <= files[first] - offset
        exact == size = files[first] - offset
        rest  == Fill(files, first + 1, size - (files[first] - offset))
        run   == [file |-> first, offset |-> offset]
    IN  IF fits
        THEN [runs |-> <<run>>,
              hint |-> [offset |-> where + size, index |-> IF exact THEN first + 1 ELSE first]]
        ELSE IF rest.remaining = 0
        THEN [runs |-> <<run>> \o rest.runs,
              hint |-> [offset |-> where + size, index |-> rest.index + 1]]
        ELSE [runs |-> <<run>> \o rest.runs \o <<[file |-> rest.index, offset |-> 0]>>,
              hint |-> [offset |-> where + size, index |-> rest.index]]

\* A wrong hint may be ahead of the block: the offset in the file is then below
\* zero (2^64 less a little in the code), or there is no such file: one more than
\* there are.
Locate(files, where, size, hint) ==
    LET found == {f \in FindFile(files, where, hint)..Len(files) : files[f] > 0}
    IN  IF found = {}
        THEN [runs |-> <<[file |-> Len(files) + 1, offset |-> 0]>>, hint |-> hint]
        ELSE LocateFrom(files, where, size, Smallest(found))

\* What it ought to find: the non-empty files that the block touches, in order.
FilesTouched(files, where, size) ==
    {f \in DOMAIN files : /\ files[f] > 0
                          /\ Starts(files)[f] < where + size
                          /\ Starts(files)[f] + files[f] > where}

\* The blocks of a piece, in the order in which BlockCache keeps them.
Blocks(files, i) ==
    [n \in 1..(SizeOfPiece(files, i) + BlockSize - 1) \div BlockSize |->
        [where |-> i * PieceSize + (n - 1) * BlockSize,
         size  |-> IF n * BlockSize <= SizeOfPiece(files, i) THEN BlockSize
                   ELSE SizeOfPiece(files, i) - (n - 1) * BlockSize]]

\* The location of each block of a request, each found with the hint of the
\* one before.
Locations(files, blocks) ==
    LET locate[n \in 0..Len(blocks)] ==
            IF n = 0 THEN [runs |-> <<>>, hint |-> NoHint]
            ELSE Locate(files, blocks[n].where, blocks[n].size, locate[n - 1].hint)
    IN  locate

\* A block that begins in one file and ends with the end of another one: the hint
\* it leaves is one file too far.
Overshoots(files, b) ==
    /\ Cardinality(FilesTouched(files, b.where, b.size)) > 1
    /\ \E f \in DOMAIN files : files[f] > 0 /\ Starts(files)[f] + files[f] = b.where + b.size

----------------------------------------------------------------------------
\* resetScheduledPiecesMask.

\* filesUnmaskedOnEdge after a file that goes beyond its first piece; mutant: it is
\* always reset.
EdgeForgotten(unmasked, f, edge) == 0
EdgeCount(unmasked, f, edge) == IF edge > 0 /\ f \in unmasked THEN 1 ELSE 0

\* One file: piece is the piece in which it begins, edge the offset at which it
\* begins there, count the wanted files before it in that piece.  A file that
\* ends inside its piece moves nothing on; one that ends with the piece does not
\* reset the count.
SweepFile(files, unmasked, acc, f) ==
    LET size    == SizeOfPiece(files, acc.piece)
        here    == IF f \in unmasked THEN 1 ELSE 0
        count   == acc.count + here
        aligned == files[f] - (size - acc.edge)
        limit   == acc.piece + 1 + aligned \div size
        edge    == aligned % size
        Covered(i) == acc.piece < i /\ (i < limit \/ (edge > 0 /\ i = limit))
        marks   == [i \in DOMAIN acc.marks |->
                      IF i = acc.piece THEN (IF count > 0 THEN "in" ELSE "out")
                      ELSE IF Covered(i) THEN (IF f \in unmasked THEN "in" ELSE "out")
                      ELSE acc.marks[i]]
    IN  IF files[f] = 0 THEN acc
        ELSE IF files[f] + acc.edge < size THEN [acc EXCEPT !.count = count]
        ELSE IF aligned = 0
        THEN [piece |-> acc.piece + 1, edge |-> 0, count |-> count, marks |-> marks]
        ELSE [piece |-> limit, edge |-> edge, marks |-> marks,
              count |-> EdgeCount(unmasked, f, edge)]

\* The pieces marked as interesting, as uninteresting, and not at all.
ResetScheduledPiecesMask(files, unmasked) ==
    FoldLeft(LAMBDA acc, f : SweepFile(files, unmasked, acc, f),
             [piece |-> 0, edge |-> 0, count |-> 0,
              marks |-> [i \in 0..PieceCount(files)-1 |-> "unset"]],
             [f \in 1..Len(files) |-> f]).marks

\* What it ought to mark.
Wants(files, unmasked, i) ==
    \E f \in unmasked : f \in FilesTouched(files, i * PieceSize, SizeOfPiece(files, i))

\* No file ends inside the piece in which it begins.
Coarse(files) ==
    \A f \in DOMAIN files : files[f] > 0 =>
        LET start == Starts(files)[f]
        IN  (start % PieceSize) + files[f] >= SizeOfPiece(files, start \div PieceSize)
=============================================================================

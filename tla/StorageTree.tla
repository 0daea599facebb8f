---------------------------- MODULE StorageTree ----------------------------
(***************************************************************************)
(* The files that a torrent is stored in: Util::FileSystem, and how        *)
(* CommandTask makes the wanted files when its torrent starts.             *)
(*                                                                         *)
(* A file system has, for a place, the size of the file there or Folder; a *)
(* place is the names on the way from the root.  A path is such a sequence *)
(* too, absolute or not, which may end in a slash.                         *)
(***************************************************************************)
EXTENDS Integers, Sequences, FiniteSets, SequencesExt

CONSTANTS
    Folder,     \* what a directory has for a size
    Program,    \* the working directory of the program
    Sealed      \* directories in which nothing can be made

\* splitPath: there may be nothing between two slashes.
SplitPath(path) == SelectSeq(path.names, LAMBDA name : name # "")
Place(path) == (IF path.absolute THEN <<>> ELSE Program) \o SplitPath(path)
Above(place) == SubSeq(place, 1, Len(place) - 1)

\* What the kernel says of a place: ENOENT is "absent"; below a file it is ENOTDIR.
Stat(fs, place) ==
    IF place \in DOMAIN fs THEN "there"
    ELSE IF \E n \in 0..Len(place)-1 :
               SubSeq(place, 1, n) \in DOMAIN fs /\ fs[SubSeq(place, 1, n)] # Folder
    THEN "error" ELSE "absent"
Makable(fs, place) ==
    /\ place \notin DOMAIN fs /\ Above(place) \in DOMAIN fs \ Sealed
    /\ fs[Above(place)] = Folder
Made(fs, place, size) == [p \in DOMAIN fs \cup {place} |-> IF p = place THEN size ELSE fs[p]]

Done(fs)   == [fs |-> fs, ok |-> TRUE]
Failed(fs) == [fs |-> fs, ok |-> FALSE]

----------------------------------------------------------------------------
\* Util::FileSystem.

\* One round of the loop of createPath.
MakeFolder(fs, place) ==
    IF Stat(fs, place) = "there" THEN [fs |-> fs, ok |-> fs[place] = Folder]
    ELSE IF Stat(fs, place) = "absent" /\ Makable(fs, place) THEN Done(Made(fs, place, Folder))
    ELSE Failed(fs)

\* createPath begins at the root whatever the path is; the last name counts only if a
\* slash follows it.
CreatePath(fs, path) ==
    LET names == SplitPath(path)
        last  == Len(names) - IF path.slash THEN 0 ELSE 1
    IN  FoldLeft(LAMBDA r, n : IF r.ok THEN MakeFolder(r.fs, SubSeq(names, 1, n)) ELSE r,
                 [fs |-> fs, ok |-> names # <<>>], [n \in 1..last |-> n])

CreateFile(fs, path) ==
    IF Place(path) \in DOMAIN fs THEN [fs |-> fs, ok |-> fs[Place(path)] # Folder]
    ELSE IF Makable(fs, Place(path)) THEN Done(Made(fs, Place(path), 0))
    ELSE Failed(fs)

\* fallocate wants some bytes, and keeps a file that is longer.
PreallocateFile(fs, path, size) ==
    LET place == Place(path)
    IN  IF place \notin DOMAIN fs THEN Failed(fs)
        ELSE IF fs[place] = Folder \/ size = 0 THEN Failed(fs)
        ELSE Done(Made(fs, place, IF fs[place] < size THEN size ELSE fs[place]))

FileExists(fs, path) == Stat(fs, Place(path)) = "there"
FileSize(fs, path) == IF FileExists(fs, path) THEN fs[Place(path)] ELSE -1

----------------------------------------------------------------------------
\* CommandTask.

Preallocated(fs, path, size) ==
    IF FileSize(fs, path) = -1 THEN Failed(fs)
    ELSE IF FileSize(fs, path) = size THEN Done(fs)
    ELSE PreallocateFile(fs, path, size)

UpdateFileStorage(fs, path, size, preallocates) ==
    LET below == IF FileExists(fs, path) THEN Done(fs) ELSE CreatePath(fs, path)
        made  == IF FileExists(fs, path) \/ ~below.ok THEN below ELSE CreateFile(below.fs, path)
    IN  IF made.ok /\ preallocates THEN Preallocated(made.fs, path, size) ELSE made

\* The first file that fails is the last one; start() does not ask how it went.
UpdateUnmaskedFilesStorage(fs, directory, files, wanted, preallocates) ==
    FoldLeft(LAMBDA r, f :
                IF ~r.ok \/ f \notin wanted THEN r
                ELSE UpdateFileStorage(r.fs, [directory EXCEPT !.names = @ \o files[f].names],
                                       files[f].size, preallocates),
             Done(fs), [f \in DOMAIN files |-> f])

----------------------------------------------------------------------------
\* Properties.

\* Two files of a torrent, one of them in a folder, and what may be where they go.
SomeFiles == <<[names |-> <<"d", "a">>, size |-> 2], [names |-> <<"b">>, size |-> 0]>>
Below == {<<"d">>, <<"d", "a">>, <<"b">>}
FileSystems ==
    {fs \in UNION {[{<<>>, Program} \cup {<<"s">> \o p : p \in P} \cup S -> {Folder, 0, 3}] :
                      P \in SUBSET Below, S \in SUBSET {<<"s">>}} :
        /\ fs[<<>>] = Folder /\ fs[Program] = Folder
        /\ \A p \in DOMAIN fs \ {<<>>} : Above(p) \in DOMAIN fs /\ fs[Above(p)] = Folder}
Directories == [absolute : BOOLEAN, names : {<<"s">>, <<"s", "">>}, slash : {FALSE}]

\* When the files of a torrent were made, each wanted one is where DiskIo looks for it
\* and, if it should be, as long as the torrent has it.  What was there stays as it was,
\* but for files that grow, and nothing is made besides the wanted files and the way to
\* them.  It fails for a reason: something is in the way, may not be changed or cannot
\* be made longer by nothing; or the directory is not absolute, when the way is made
\* below the root (CommandTask::updateFileStorage, FileSystem::createPath).
FilesMade(wanted) ==
    \A fs \in FileSystems, directory \in Directories, preallocates \in BOOLEAN :
        LET made  == UpdateUnmaskedFilesStorage(fs, directory, SomeFiles, wanted, preallocates)
            At(f) == Place(directory) \o SomeFiles[f].names
            ways  == UNION {{SubSeq(p, 1, n) : n \in 1..Len(p) - 1} :
                               p \in {SplitPath(directory) \o SomeFiles[f].names : f \in wanted}}
            Blocks(p) == p \in DOMAIN fs /\ (fs[p] = Folder) = (p \notin ways)
        IN  /\ made.ok => \A f \in wanted :
                  /\ At(f) \in DOMAIN made.fs
                  /\ At(f) \notin DOMAIN fs \/ preallocates => made.fs[At(f)] # Folder
                  /\ preallocates => made.fs[At(f)] >= SomeFiles[f].size
            /\ DOMAIN fs \subseteq DOMAIN made.fs
            /\ \A p \in DOMAIN fs :
                  \/ made.fs[p] = fs[p]
                  \/ preallocates /\ fs[p] # Folder /\ made.fs[p] > fs[p] /\ \E f \in wanted : p = At(f)
            /\ DOMAIN made.fs \subseteq DOMAIN fs \cup ways \cup {At(f) : f \in wanted}
            /\ \/ made.ok \/ ~directory.absolute
               \/ \E p \in ways \cup {At(f) : f \in wanted} : p \in Sealed \/ Blocks(p)
               \/ preallocates /\ \E f \in wanted : SomeFiles[f].size = 0 /\ At(f) \in DOMAIN fs
=============================================================================

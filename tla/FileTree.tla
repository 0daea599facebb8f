------------------------------ MODULE FileTree ------------------------------
(***************************************************************************)
(* TorrentFilesystemModel: the tree in which the user ticks the files of a *)
(* torrent.  A node is a path and whether it is a folder; a file has no    *)
(* children and a folder has some, because folders come from the paths of  *)
(* files.                                                                  *)
(***************************************************************************)
EXTENDS Integers, Sequences, FiniteSets, FiniteSetsExt

Folder(path) == [path |-> path, folder |-> TRUE]
File(path)   == [path |-> path, folder |-> FALSE]
Root == Folder(<<>>)
Parent(node) == Folder(SubSeq(node.path, 1, Len(node.path) - 1))

\* Mutant: a path of which some folder is there already is left out.
TreeFirstOnly(files) ==
    UNION {{File(files[i].path)} \cup {Folder(SubSeq(files[i].path, 1, n)) : n \in 1..Len(files[i].path)-1} :
             i \in {j \in DOMAIN files :
                      \A k \in 1..j-1 : files[k].path[1] # files[j].path[1]}}

\* insertFile, for each file: from the file up to the first folder that is there.
Tree(files) ==
    {File(files[i].path) : i \in DOMAIN files}
        \cup UNION {{Folder(SubSeq(files[i].path, 1, n)) : n \in 1..Len(files[i].path)-1} :
                      i \in DOMAIN files}

Children(tree, node) == {child \in tree : node.folder /\ child.path # <<>> /\ Parent(child) = node}
Below(tree, node) ==
    {n \in tree : node.folder /\ Len(n.path) > Len(node.path)
                              /\ SubSeq(n.path, 1, Len(node.path)) = node.path}
Leaves(nodes) == {n \in nodes : ~n.folder}

\* The data of a file's item; the second of two files with one path gets none.
IndexOf(files, leaf) == Min({i \in DOMAIN files : files[i].path = leaf.path})

AllChecked(files) == [node \in Tree(files) |-> "checked"]
SizeOf(files, leaves) ==
    FoldSet(LAMBDA leaf, sum : sum + files[IndexOf(files, leaf)].size, 0, leaves)

----------------------------------------------------------------------------
\* Ticking.

\* updateCheckStateDownwards: the size counts every file that gets a tick, also one
\* that had it before.
Downwards(files, view, node, state) ==
    LET reached == Below(Tree(files), node) \cup {node}
        size    == SizeOf(files, Leaves(reached))
    IN  [ticks |-> [n \in DOMAIN view.ticks |-> IF n \in reached THEN state ELSE view.ticks[n]],
         size  |-> IF state = "checked" THEN view.size + size ELSE view.size - size]

\* What updateCheckStateUpwards makes of the ticks of the children.
Combined(states) ==
    IF "partially" \in states \/ {"checked", "unchecked"} \subseteq states THEN "partially"
    ELSE IF "checked" \in states THEN "checked" ELSE "unchecked"

\* Mutant: only the folder that the item is in.
UpwardsOnce(tree, ticks, node) ==
    IF Parent(node) = Root THEN ticks
    ELSE [ticks EXCEPT ![Parent(node)] = Combined({ticks[n] : n \in Children(tree, Parent(node))})]

\* updateCheckStateUpwards, from the item's parent to the top; the root is no item.
Upwards(tree, ticks, node) ==
    LET tick[depth \in Nat] ==
            IF depth = 0 \/ depth >= Len(node.path) THEN ticks
            ELSE LET below  == IF depth + 1 < Len(node.path) THEN tick[depth + 1] ELSE ticks
                     folder == Folder(SubSeq(node.path, 1, depth))
                 IN  [below EXCEPT ![folder] =
                        Combined({below[n] : n \in Children(tree, folder)})]
    IN  IF Len(node.path) = 1 THEN ticks ELSE tick[1]

\* setData.
SetData(files, view, node, state) ==
    IF view.ticks[node] = state THEN view
    ELSE LET down == Downwards(files, view, node, state)
         IN  [down EXCEPT !.ticks = Upwards(Tree(files), down.ticks, node)]

\* checkAll and uncheckAll.
SetAll(files, view, state) == Downwards(files, view, Root, state)

\* enumUnmaskedFiles.
EnumUnmaskedFiles(files, ticks) ==
    {IndexOf(files, leaf) : leaf \in {n \in Leaves(DOMAIN ticks) : ticks[n] = "checked"}}
=============================================================================

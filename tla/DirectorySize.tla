--------------------------- MODULE DirectorySize ---------------------------
(***************************************************************************)
(* src/filesystem.c: rcutils_calculate_directory_size_with_recursion with  *)
(* its list of directories and the iterator it reads them by, while other  *)
(* programs remove and make entries (one of them by rcutils_mkdir).  Every *)
(* allocation may fail, and a directory may not open; the first readdir    *)
(* decides which entries it yields, in any order.  The entries "." and     *)
(* "..", which the code skips, are left out, and links, too.               *)
(***************************************************************************)
EXTENDS Integers, Sequences, FiniteSets

CONSTANTS
  Entry,        \* files and directories
  Root,         \* the directory whose size is asked for
  Parent,       \* the directory of every other entry
  DepthOf,      \* how many directories an entry is in, up to the root
  Kind,         \* "file", "dir" or "other"
  SizeOf,       \* st_size
  MaxDepths,    \* the max_depth callers pass; 0 is no limit
  MaxRemoved    \* bound: how many entries may be missing

ASSUME EntryAssumption ==
  /\ Kind \in [Entry -> {"file", "dir", "other"}] /\ SizeOf \in [Entry -> Nat]
  /\ Root \in Entry /\ Kind[Root] = "dir" /\ IsFiniteSet(Entry) /\ MaxDepths \subseteq Nat
  /\ \A e \in Entry \ {Root} : Parent[e] \in Entry /\ Kind[Parent[e]] = "dir"
\* The entries are a tree: no directory is in itself.
ASSUME TreeAssumption ==
  /\ DepthOf \in [Entry -> Nat] /\ DepthOf[Root] = 0
  /\ \A e \in Entry \ {Root} : DepthOf[e] = DepthOf[Parent[e]] + 1

VARIABLES
  present,     \* the entries that exist
  walk,        \* "idle", "open", "first", "read", or how it returned: "OK", "ERROR",
               \* "BAD_ALLOC"; "orphan": the directory opened has been removed since;
               \* "undefined": the NULL name of an entry has been compared
  maxDepth,
  dirList,     \* dir_list: directories and their depths
  unread,      \* what the open iterator has not yielded yet
  dirSize,     \* *size
  dirBlocks,   \* blocks and DIR handles that are held
  atStart      \* history: what existed when the walk began

dirVars == <<present, walk, maxDepth, dirList, unread, dirSize, dirBlocks, atStart>>

DirInit ==
  /\ present = Entry /\ walk = "idle" /\ maxDepth = 0 /\ dirList = <<>>
  /\ unread = {} /\ dirSize = 0 /\ dirBlocks = 0 /\ atStart = {}

IsDirectory(e) == e \in present /\ Kind[e] = "dir"
IsFile(e) == e \in present /\ Kind[e] = "file"
FileSize(e) == IF IsFile(e) THEN SizeOf[e] ELSE 0
ChildrenOf(d) == {e \in present \ {Root} : Parent[e] = d}
NodeBlocks == 2       \* a node of the list and its path
IterBlocks == 3       \* an iterator, its state and the DIR

-----------------------------------------------------------------------------
StartWalk(depth) ==
  /\ walk = "idle"
  /\ maxDepth' = depth /\ atStart' = present
  /\ \/ /\ IsDirectory(Root)
        /\ walk' = "open" /\ dirList' = <<[dir |-> Root, depth |-> 1]>> /\ dirBlocks' = NodeBlocks
     \/ /\ walk' = IF IsDirectory(Root) THEN "BAD_ALLOC" ELSE "ERROR"
        /\ UNCHANGED <<dirList, dirBlocks>>
  /\ UNCHANGED <<present, unread, dirSize>>

(* goto fail: the iterator, if there is one, is ended and the list freed *)
\* Mutant: the iterator is forgotten.
FailWalkOpen(ret, iter) ==
  /\ walk' = ret /\ dirList' = <<>> /\ unread' = {}
  /\ dirBlocks' = dirBlocks - NodeBlocks * Len(dirList)
FailWalk(ret, iter) ==
  /\ walk' = ret /\ dirList' = <<>> /\ unread' = {}
  /\ dirBlocks' = dirBlocks - iter - NodeBlocks * Len(dirList)

(* rcutils_dir_iter_start: opendir, then the first readdir; whatever fails   *)
(* is undone by rcutils_dir_iter_end                                         *)
OpenDirectory ==
  /\ walk = "open"
  /\ \/ /\ IsDirectory(Head(dirList).dir)
        /\ walk' = "first" /\ dirBlocks' = dirBlocks + IterBlocks
        /\ UNCHANGED <<dirList, unread>>
     \/ FailWalk("ERROR", 0)
  /\ UNCHANGED <<present, maxDepth, dirSize, atStart>>
\* A directory that has been removed since it was opened has no entries at all, not
\* even ".", also when there is one of its name again.
ReadFirst ==
  /\ walk \in {"first", "orphan"}
  /\ \/ /\ walk' = IF walk = "first" THEN "read" ELSE "undefined"
        /\ unread' = IF walk = "first" THEN ChildrenOf(Head(dirList).dir) ELSE {}
        /\ UNCHANGED <<dirList, dirBlocks>>
     \/ FailWalk("ERROR", IterBlocks)
  /\ UNCHANGED <<present, maxDepth, dirSize, atStart>>

(* check_and_calculate_size: a directory that is not too deep is inserted    *)
(* behind the one that is read                                               *)
\* Mutant: a directory is listed if the one it is in is not too deep.
ListedToo(depth) == maxDepth = 0 \/ depth <= maxDepth
Listed(depth) == maxDepth = 0 \/ depth + 1 <= maxDepth
InsertSecond(d) == <<Head(dirList), [dir |-> d, depth |-> Head(dirList).depth + 1]>> \o Tail(dirList)
CheckEntry(e) ==
  /\ walk = "read" /\ e \in unread /\ unread' = unread \ {e}
  /\ IF IsDirectory(e) /\ Listed(Head(dirList).depth)
     THEN dirList' = InsertSecond(e) /\ dirBlocks' = dirBlocks + NodeBlocks
     ELSE UNCHANGED <<dirList, dirBlocks>>
  /\ dirSize' = dirSize + FileSize(e)
  /\ UNCHANGED <<present, walk, maxDepth, atStart>>
CheckEntryFails ==
  /\ walk = "read" /\ unread # {}
  /\ FailWalk("BAD_ALLOC", IterBlocks)
  /\ UNCHANGED <<present, maxDepth, dirSize, atStart>>

(* rcutils_dir_iter_next finds no more: rcutils_dir_iter_end, and            *)
(* remove_first_dir_from_list                                                *)
NextDirectory ==
  /\ walk = "read" /\ unread = {}
  /\ dirList' = Tail(dirList) /\ dirBlocks' = dirBlocks - IterBlocks - NodeBlocks
  /\ walk' = IF Tail(dirList) = <<>> THEN "OK" ELSE "open"
  /\ UNCHANGED <<present, maxDepth, unread, dirSize, atStart>>

\* Another program removes a file or an empty directory,
RemoveEntry(e) ==
  /\ e \in present /\ ChildrenOf(e) = {} /\ Cardinality(Entry \ present) < MaxRemoved
  /\ present' = present \ {e}
  /\ walk' = IF walk = "first" /\ Head(dirList).dir = e THEN "orphan" ELSE walk
  /\ UNCHANGED <<maxDepth, dirList, unread, dirSize, dirBlocks, atStart>>
\* or makes one by rcutils_mkdir, which is content with a directory that is there.
Mkdir(e) ==
  /\ Kind[e] = "dir" /\ e # Root /\ IsDirectory(Parent[e])
  /\ present' = present \union {e}
  /\ UNCHANGED <<walk, maxDepth, dirList, unread, dirSize, dirBlocks, atStart>>

DirNext ==
  \/ \E depth \in MaxDepths : StartWalk(depth)
  \/ OpenDirectory \/ ReadFirst \/ CheckEntryFails \/ NextDirectory
  \/ \E e \in Entry : CheckEntry(e) \/ RemoveEntry(e) \/ Mkdir(e)
DirSpec == DirInit /\ [][DirNext]_dirVars

-----------------------------------------------------------------------------
(* A size that is returned counts every file within the depth that was there *)
(* all the time, and no other than those there were when the walk began,     *)
(* each once; whatever happened, in the end every path, node, iterator and   *)
(* directory handle has been released.                                       *)
FilesWithin(entries) == {e \in entries : Kind[e] = "file" /\ (maxDepth = 0 \/ DepthOf[e] <= maxDepth)}
Bytes(files) == UNION {{e} \X (1 .. SizeOf[e]) : e \in files}
SizeWithin(entries) == Cardinality(Bytes(FilesWithin(entries)))
SizeIsOfTheTree ==
  /\ walk = "OK" => SizeWithin(atStart \intersect present) <= dirSize /\ dirSize <= SizeWithin(atStart)
  /\ walk \in {"OK", "ERROR", "BAD_ALLOC"} => dirBlocks = 0
=============================================================================

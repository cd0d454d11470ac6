---------------------------- MODULE HeaderScanner ----------------------------
(***************************************************************************)
(* ScanHeaders of src/src/HeaderScanner.cpp: the input root is traversed   *)
(* by a recursive_directory_iterator that follows links to directories.    *)
(* One action is one turn of the loop: what becomes of the entry the       *)
(* iterator is at, and the increment that follows.  The order in which a   *)
(* directory lists its entries is the file system's.                       *)
(*                                                                         *)
(* A header filter and an exclude glob look at the whole relative path     *)
(* here, as in the code, but a model's are given by the names they match.  *)
(***************************************************************************)
EXTENDS Config, FiniteSets

CONSTANTS
  Extension,     \* the extension of each file name
  FilterNames,   \* for each regex, the names that a text it is found in has one of
  GlobNames,     \* for each --exclude, the last names of the paths it matches
  NameOrder      \* the names in the order of their texts

VARIABLES
  scan,         \* "no", "on" or "done"
  frames,       \* the iterator: for each open directory its path and what is left
  visited,      \* visited_directories
  headers,      \* result.headers, as paths
  scan_errors,  \* the codes of the errors among result.diagnostics
  scan_faults   \* bound: calls of the file system that may still fail

scanVars == <<scan, frames, visited, headers, scan_errors, scan_faults>>

input_root == Physical(tree, config["--input-root"])
project_root == Physical(tree, config["--project-root"])
output_dir == Physical(tree, config["--output-dir"])
-----------------------------------------------------------------------------
(* What the scanner asks of an entry *)

LinkFree(path) == Physical(tree, path)

InOutputDir(path) == IsUnder(LinkFree(path), output_dir)

HasChild(path, name) == PathExists(tree, Append(path, name))

DirectoryLooksLikeGeneratedOutput(path) ==
  \/ \E name \in {"MockFakeRuntime.h", "AllMocks.h", "CMakeLists.fragment.cmake"} :
       HasChild(path, name)
  \/ HasChild(path, "manifest.json") /\ HasChild(path, "generation_report.md")

(* IsKnownGeneratedHeaderName; tree.marked stands for what the other two   *)
(* tests, FileHasGeneratedMarker and LooksLikeGeneratedMockHeader, read.   *)
IsGeneratedHeaderFile(path) ==
  Last(path) \in {"MockFakeRuntime.h", "AllMocks.h"} \/ LinkFree(path) \in tree.marked

IsHeaderFile(path) ==
  /\ IsRegularFile(tree, path)
  /\ Extension[Last(path)] \in Range(config["--header-extension"])

RelativeTo(directory, path) == SubSeq(path, Len(directory) + 1, Len(path))

(* Any name but cmake-build-debug that starts with cmake-build- is left out. *)
IsBuiltinExcludedComponent ==
  {"third_party", "external", "build", "out", ".git", ".cache", "cmake-build-debug"}

HasBuiltinExcludedComponent(path) ==
  Range(RelativeTo(input_root, path)) \intersect IsBuiltinExcludedComponent # {}

MatchesConfiguredExclude(path) ==
  \E glob \in Range(config["--exclude"]) : Last(path) \in GlobNames[glob]

MatchesHeaderFilter(path) ==
  \/ ~Given("--header-filter")
  \/ Range(RelativeTo(project_root, path)) \intersect FilterNames[config["--header-filter"]] # {}

(* What becomes of an entry that is not skipped at once *)
SkippedAsOutput(path, is_directory) ==
  is_directory /\ (InOutputDir(path) \/ DirectoryLooksLikeGeneratedOutput(path))

SkippedAsExcluded(path) == HasBuiltinExcludedComponent(path) \/ MatchesConfiguredExclude(path)

IsCandidate(path) ==
  /\ ~SkippedAsExcluded(path) /\ ~InOutputDir(path)
  /\ IsHeaderFile(path) /\ ~IsGeneratedHeaderFile(path)
  /\ MatchesHeaderFilter(path)
-----------------------------------------------------------------------------
(* The iterator *)

Frame(path) == [at |-> path, left |-> Children(tree, LinkFree(path))]

(* The iterator leaves the directories at the end that are used up.        *)
Popped(fs) ==
  SubSeq(fs, 1, CHOOSE n \in 0 .. Len(fs) :
                  /\ n > 0 => fs[n].left # {}
                  /\ \A k \in n + 1 .. Len(fs) : fs[k].left = {})

(* The frames after the entry name of the last one, into which the         *)
(* iterator goes if recursion is left enabled and it is a directory.       *)
Advance(name, recursion) ==
  LET path == Append(Last(frames).at, name)
      rest == [frames EXCEPT ![Len(frames)].left = @ \ {name}]
  IN Popped(IF recursion /\ IsDirectory(tree, path) THEN Append(rest, Frame(path)) ELSE rest)

AtEntry(name) == scan = "on" /\ frames # <<>> /\ name \in Last(frames).left

Entry(name) == Append(Last(frames).at, name)

IsSymlink(path) == Append(LinkFree(Front(path)), Last(path)) \in DOMAIN tree.links

ScanFault == scan_faults > 0 /\ scan_faults' = scan_faults - 1

ScanError(code) == scan_errors' = scan_errors \union {code}
-----------------------------------------------------------------------------
(* Before the loop *)

RefuseInputRoot ==
  /\ scan = "no"
  /\ ~IsDirectory(tree, input_root)
  /\ ScanError(IF PathExists(tree, input_root) THEN "InputRootIsNotDirectory"
               ELSE "InputRootDoesNotExist")
  /\ scan' = "done"
  /\ UNCHANGED <<frames, visited, headers, scan_faults>>

(* The status of the root or the first directory cannot be read. *)
TraversalStartFails ==
  /\ scan = "no" /\ ScanFault
  /\ ScanError("FilesystemError")
  /\ scan' = "done"
  /\ UNCHANGED <<frames, visited, headers>>

(* Here and below, a canonical path that is beyond reach is not noted, and *)
(* nothing is said.                                                        *)
StartTraversal ==
  /\ scan = "no"
  /\ IsDirectory(tree, input_root)
  /\ \/ visited' = {LinkFree(input_root)} /\ UNCHANGED scan_faults
     \/ ScanFault /\ UNCHANGED visited
  /\ frames' = Popped(<<Frame(input_root)>>)
  /\ scan' = "on"
  /\ UNCHANGED <<headers, scan_errors>>
-----------------------------------------------------------------------------
(* The loop *)

(* is_symlink fails: the entry is skipped, but the iterator goes into it.  *)
SymlinkStatusFails(name) ==
  /\ AtEntry(name) /\ ScanFault
  /\ ScanError("FilesystemError")
  /\ frames' = Advance(name, TRUE)
  /\ UNCHANGED <<scan, visited, headers>>

(* The type of what is not a link cannot be read: likewise. *)
TypeFails(name) ==
  /\ AtEntry(name) /\ ~IsSymlink(Entry(name)) /\ ScanFault
  /\ ScanError("FilesystemError")
  /\ frames' = Advance(name, TRUE)
  /\ UNCHANGED <<scan, visited, headers>>

Target(name) == LinkFree(Entry(name))

LiesInProject(name) == PathExists(tree, Entry(name)) /\ IsUnder(Entry(name), project_root)

LeadsIntoProject(name) ==
  PathExists(tree, Entry(name)) /\ IsUnder(Target(name), project_root)

SkipUnusableLink(name) ==
  /\ AtEntry(name) /\ IsSymlink(Entry(name)) /\ ~LeadsIntoProject(name)
  /\ frames' = Advance(name, FALSE)
  /\ UNCHANGED <<scan, visited, headers, scan_errors, scan_faults>>

TargetTypeFails(name) ==
  /\ AtEntry(name) /\ IsSymlink(Entry(name)) /\ LeadsIntoProject(name) /\ ScanFault
  /\ ScanError("FilesystemError")
  /\ frames' = Advance(name, FALSE)
  /\ UNCHANGED <<scan, visited, headers>>

NeverVisited(name) == FALSE

AlreadyVisited(name) == Target(name) \in visited

SkipVisitedLink(name) ==
  /\ AtEntry(name) /\ IsSymlink(Entry(name)) /\ LeadsIntoProject(name)
  /\ IsDirectory(tree, Entry(name)) /\ AlreadyVisited(name)
  /\ frames' = Advance(name, FALSE)
  /\ UNCHANGED <<scan, visited, headers, scan_errors, scan_faults>>

(* A link that is followed, or what is not a link *)
Examined(name) ==
  \/ ~IsSymlink(Entry(name))
  \/ LeadsIntoProject(name) /\ ~(IsDirectory(tree, Entry(name)) /\ AlreadyVisited(name))

SkippedDirectory(path) == SkippedAsOutput(path, TRUE) \/ SkippedAsExcluded(path)

ExamineDirectoryOnce(name) ==
  /\ AtEntry(name) /\ IsDirectory(tree, Entry(name)) /\ Examined(name)
  /\ visited' = visited \union {Target(name)}
  /\ frames' = Advance(name, ~SkippedDirectory(Entry(name)) /\ ~AlreadyVisited(name))
  /\ UNCHANGED <<scan, headers, scan_errors, scan_faults>>

(* The directory is noted as visited; only for a link was that looked up.  *)
ExamineDirectory(name) ==
  /\ AtEntry(name) /\ IsDirectory(tree, Entry(name)) /\ Examined(name)
  /\ \/ visited' = visited \union {Target(name)} /\ UNCHANGED scan_faults
     \/ ~IsSymlink(Entry(name)) /\ ScanFault /\ UNCHANGED visited
  /\ frames' = Advance(name, ~SkippedDirectory(Entry(name)))
  /\ UNCHANGED <<scan, headers, scan_errors>>

ExamineFile(name) ==
  /\ AtEntry(name) /\ IsRegularFile(tree, Entry(name)) /\ Examined(name)
  /\ headers' = IF IsCandidate(Entry(name)) THEN Append(headers, Entry(name)) ELSE headers
  /\ frames' = Advance(name, FALSE)
  /\ UNCHANGED <<scan, visited, scan_errors, scan_faults>>

(* is_regular_file fails: an error, and the iterator goes on as it would have. *)
FileStatusFails(name) ==
  /\ AtEntry(name) /\ PathExists(tree, Entry(name)) /\ Examined(name)
  /\ ~SkippedAsOutput(Entry(name), IsDirectory(tree, Entry(name)))
  /\ ~SkippedAsExcluded(Entry(name)) /\ ~InOutputDir(Entry(name))
  /\ ScanFault
  /\ ScanError("FilesystemError")
  /\ visited' = visited \union ({Target(name)} \intersect tree.dirs)
  /\ frames' = Advance(name, TRUE)
  /\ UNCHANGED <<scan, headers>>

(* increment could not open the directory it was to go into, or could not  *)
(* read on: it has become the end iterator.                                *)
IncrementFails ==
  /\ scan = "on" /\ ScanFault
  /\ ScanError("FilesystemError")
  /\ frames' = <<>>
  /\ UNCHANGED <<scan, visited, headers>>

Rank == [name \in Range(NameOrder) |-> CHOOSE i \in DOMAIN NameOrder : NameOrder[i] = name]

NameLess(x, y) == Rank[x] < Rank[y]

PathLess(p, q) ==
  \E k \in DOMAIN q :
    /\ k <= Len(p) + 1 /\ SubSeq(p, 1, k - 1) = SubSeq(q, 1, k - 1)
    /\ k <= Len(p) => NameLess(p[k], q[k])

(* HeaderCandidateLess: all have the project root in front. *)
InOrder(paths) == \A k \in DOMAIN paths : k > 1 => ~PathLess(paths[k], paths[k - 1])

(* What Permutations, defined by TLC itself, has as elements *)
IsPermutation(order, places) ==
  order \in [places -> places] /\ \A k \in places : \E j \in places : order[j] = k

FinishScan ==
  /\ scan = "on" /\ frames = <<>>
  /\ \E order \in Permutations(DOMAIN headers) :
       /\ IsPermutation(order, DOMAIN headers)
       /\ headers' = [k \in DOMAIN headers |-> headers[order[k]]]
       /\ InOrder(headers')
  /\ scan' = "done"
  /\ UNCHANGED <<frames, visited, scan_errors, scan_faults>>

ScanInit ==
  /\ scan = "no"
  /\ frames = <<>>
  /\ visited = {}
  /\ headers = <<>>
  /\ scan_errors = {}

ScanEntry(name) ==
  \/ SymlinkStatusFails(name) \/ TypeFails(name)
  \/ SkipUnusableLink(name) \/ TargetTypeFails(name) \/ SkipVisitedLink(name)
  \/ ExamineDirectory(name) \/ ExamineFile(name) \/ FileStatusFails(name)

ScanHeaders ==
  \/ RefuseInputRoot \/ TraversalStartFails \/ StartTraversal
  \/ scan = "on" /\ frames # <<>> /\ \E name \in Last(frames).left : ScanEntry(name)
  \/ IncrementFails \/ FinishScan
-----------------------------------------------------------------------------
(* Properties *)

ScanSucceeded == scan = "done" /\ scan_errors = {}

(* The directories between the input root and an entry *)
DirectoriesAbove(path) ==
  {d \in Prefixes(Front(path)) : IsUnder(d, input_root) /\ d # input_root}

Reached(path) ==
  \A d \in DirectoriesAbove(path) : ~SkippedDirectory(d)

(* A scan without error has missed no header: each that lies below the     *)
(* input root and is not excluded is a candidate under its own path,       *)
(* whatever links there are and in whatever order the entries come, and no *)
(* path is a candidate twice.                                              *)
OwnHeadersFoundOnce ==
  ScanSucceeded =>
    /\ \A f \in tree.files :
         IsUnder(f, input_root) /\ Reached(f) /\ IsCandidate(f) => f \in Range(headers)
    /\ Cardinality(Range(headers)) = Len(headers)

(* No candidate, through whatever links it was found, lies outside the     *)
(* project or in the output directory, or is a file mockfakegen generated. *)
CandidatesAreInputs ==
  ScanSucceeded =>
    \A h \in Range(headers) :
      /\ LinkFree(h) \in tree.files \ tree.marked
      /\ IsUnder(LinkFree(h), project_root)
      /\ ~IsUnder(LinkFree(h), output_dir)
      /\ \A d \in DirectoriesAbove(h) : ~DirectoryLooksLikeGeneratedOutput(d)

(* The open directories that a link led to *)
Led == {k \in DOMAIN frames : k > 1 /\ IsSymlink(frames[k].at)}

(* Links may lead anywhere in the project, also to what contains them, and *)
(* the iterator follows them; yet it always comes back: of the open        *)
(* directories, those that a link led to are all different, so there are   *)
(* never more of them than the tree has directories, whatever canonical    *)
(* paths were beyond reach.  Only where the status of a link could not be  *)
(* read does the iterator follow it unseen.                                *)
NoEndlessDescent ==
  scan_errors = {} =>
    \A j, k \in Led : LinkFree(frames[j].at) = LinkFree(frames[k].at) => j = k
=============================================================================

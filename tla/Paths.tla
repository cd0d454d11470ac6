-------------------------------- MODULE Paths --------------------------------
(***************************************************************************)
(* Paths and the part of the file system that the options, the scanner and *)
(* the resolver of mockfakegen look at.  A path is the sequence of its     *)
(* names below the root, absolute and lexically normal.  A tree has        *)
(*   dirs   the directories, under the paths without symbolic links,       *)
(*   files  the regular files, likewise,                                   *)
(*   links  for each symbolic link where it leads: the link-free path of   *)
(*          something that exists, Dangling, or Looping for a link that    *)
(*          leads to itself,                                               *)
(*   marked those of the files that carry the marker of generated files.   *)
(***************************************************************************)
EXTENDS Naturals, Sequences, SequencesExt

Dangling == <<"(nowhere)">>
Looping == <<"(itself)">>

(* IsSameOrUnder and IsSameOrUnderPath of normal paths *)
IsUnder(path, directory) == IsPrefix(directory, path)

Parent(path) == IF path = <<>> THEN <<>> ELSE Front(path)

(* The links that lead somewhere *)
Followed(tree) == {l \in DOMAIN tree.links : tree.links[l] \notin {Dangling, Looping}}

Onward(tree, at, name) ==
  CASE name = "." -> at
    [] name = ".." -> Parent(at)
    [] OTHER -> LET next == Append(at, name)
                IN IF next \in Followed(tree) THEN tree.links[next] ELSE next

(* The path that remains when every symbolic link on the way is replaced: *)
(* that of canonical and, where it exists, of weakly_canonical.           *)
Physical(tree, path) ==
  LET at[n \in 0 .. Len(path)] ==
        IF n = 0 THEN <<>> ELSE Onward(tree, at[n - 1], path[n])
  IN at[Len(path)]

(* lexically_normal: the path that would remain if there were no links *)
LexicallyNormal(path) == Physical([dirs |-> {<<>>}, files |-> {}, links |-> <<>>], path)

(* weakly_canonical succeeds: what does not exist is only appended. *)
Resolvable(tree, path) ==
  \A p \in Prefixes(path) :
    Physical(tree, p) \in DOMAIN tree.links => tree.links[Physical(tree, p)] # Looping

IsDirectory(tree, path) == Physical(tree, path) \in tree.dirs
IsRegularFile(tree, path) == Physical(tree, path) \in tree.files
PathExists(tree, path) == IsDirectory(tree, path) \/ IsRegularFile(tree, path)

(* The names in a directory, given by its link-free path *)
Children(tree, directory) ==
  {Last(p) : p \in {q \in tree.dirs \union tree.files \union DOMAIN tree.links :
                      q # <<>> /\ Front(q) = directory}}

IsNormal(path) == path \in Seq(STRING) /\ \A k \in DOMAIN path : path[k] \notin {".", ".."}

(* Without names for this and the parent directory and without links that  *)
(* lead somewhere                                                          *)
IsLinkFree(tree, path) ==
  /\ IsNormal(path)
  /\ \A p \in Followed(tree) : ~IsUnder(path, p)

(* What a file system is: see the head of this module. *)
IsTree(tree) ==
  /\ \A p \in tree.dirs \union tree.files \union DOMAIN tree.links :
       IsNormal(p) /\ (p # <<>> => Front(p) \in tree.dirs)
  /\ tree.dirs \intersect tree.files = {}
  /\ (tree.dirs \union tree.files) \intersect DOMAIN tree.links = {}
  /\ <<>> \in tree.dirs
  /\ \A p \in Followed(tree) : tree.links[p] \in tree.dirs \union tree.files
=============================================================================

---------------------------- MODULE MCScanEngine ----------------------------
(***************************************************************************)
(* The scan engine on small file systems.                                  *)
(*                                                                         *)
(* The narrow tree: the root with a directory that is skipped (/sys) and   *)
(* one with a directory below it; an executable and a link to a shared     *)
(* object.                                                                 *)
(*                                                                         *)
(* The wide tree: also a directory that cannot be opened, a text file, a   *)
(* link to nothing and a link to a file under /sys.                        *)
(*                                                                         *)
(* The short tree: one directory with a file of two bytes.                 *)
(***************************************************************************)
EXTENDS ScanEngine, TLC

Symmetric == Permutations(Worker)

-----------------------------------------------------------------------------

Elf(elf_type) == [magic |-> TRUE, class |-> TRUE, version |-> TRUE,
                  type |-> elf_type, file_version |-> TRUE]
NotElf == [Elf("other") EXCEPT !.magic = FALSE]
Whole(header) == [opens |-> TRUE, filled |-> Len(Field), header |-> header]
Empty  == [opens |-> TRUE, filled |-> 0, header |-> NotElf]
Denied == [Empty EXCEPT !.opens = FALSE]

-----------------------------------------------------------------------------

NarrowPath == {"/", "/a/", "/a/b/", "/sys/"}
NarrowSubDirs ==
  "/" :> {"/a/", "/sys/"} @@ "/a/" :> {"/a/b/"} @@ "/a/b/" :> {} @@ "/sys/" :> {}
NarrowContents ==
  "/" :> {"/x"} @@ "/a/" :> {"/a/l"} @@ "/a/b/" :> {} @@ "/sys/" :> {}
NarrowTarget == "/a/l" :> "/lib.so"
NarrowImage == "/x" :> Whole(Elf("ET_EXEC")) @@ "/lib.so" :> Whole(Elf("ET_DYN"))

WidePath == {"/", "/a/", "/a/b/", "/root/", "/sys/"}
WideSubDirs ==
  "/" :> {"/a/", "/sys/"} @@ "/a/" :> {"/a/b/"} @@ "/a/b/" :> {} @@ "/root/" :> {}
  @@ "/sys/" :> {}
WideContents ==
  "/" :> {"/x", "/l"} @@ "/a/" :> {"/a/t", "/a/m"} @@ "/a/b/" :> {"/a/b/l"}
  @@ "/root/" :> {"/root/x"} @@ "/sys/" :> {"/sys/x"}
WideTarget == "/l" :> "/lib.so" @@ "/a/b/l" :> NoTarget @@ "/a/m" :> "/sys/x"
WideImage ==
  "/x" :> Whole(Elf("ET_EXEC")) @@ "/a/t" :> Whole(NotElf) @@ "/root/x" :> Denied
  @@ "/lib.so" :> Whole(Elf("ET_DYN")) @@ "/sys/x" :> Whole(Elf("ET_EXEC"))

ShortSubDirs  == "/" :> {}
ShortContents == "/" :> {"/s"}
NoLinks       == <<>>
ShortImage    == "/s" :> Empty
=============================================================================

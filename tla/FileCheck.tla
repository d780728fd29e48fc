----------------------------- MODULE FileCheck -----------------------------
(***************************************************************************)
(* What do_scan records of one file: file_checker and symbol_reloader of   *)
(* the scan engine and the ELF header test of utils/elf_check.hpp.         *)
(*                                                                         *)
(* The header that check_if_valid_elf reads into is not initialised and    *)
(* the result of fread is not looked at, so for a file shorter than an ELF *)
(* header the test looks at whatever the stack held.  Every operator below *)
(* therefore yields the SET of outcomes the build can produce.             *)
(***************************************************************************)
EXTENDS Naturals, Sequences

CONSTANTS
  File,         \* paths that readdir lists as DT_REG
  Link,         \* paths that readdir lists as DT_LNK
  Real,         \* resolved paths that realpath may return
  NoTarget,     \* realpath fails: dangling or looping link
  Target,       \* [Link -> Real \cup {NoTarget}]: realpath
  Image,        \* [File \cup Real -> ImageSet]: what a read of the path gives
  SkippedPath   \* paths that start with one of skip_scanning_prefix

\* The header fields that are looked at, in the order of their offsets.
Field == <<"magic", "class", "version", "type", "file_version">>

Header == [magic: BOOLEAN, class: BOOLEAN, version: BOOLEAN,
           type: {"ET_EXEC", "ET_DYN", "other"}, file_version: BOOLEAN]

\* opens: does fopen succeed; filled: how many of the fields fread fills in
\* (none for a directory, which can be opened but not read).
ImageSet == [opens: BOOLEAN, filled: 0 .. Len(Field), header: Header]

ASSUME FileAssumption ==
  /\ Target \in [Link -> Real \cup {NoTarget}]
  /\ Image \in [File \cup Real -> ImageSet]

-----------------------------------------------------------------------------

\* checkMagic, checkElfVersion, checkClass, checkType and checkFileVersion.
checkIdent(h) == h.magic /\ h.version /\ h.class
checkType(h)  == h.type \in {"ET_DYN", "ET_EXEC"}
checkHeader(h) == checkIdent(h) /\ checkType(h) /\ h.file_version

\* The values the header may have after fread: what was read, then anything.
HeaderInMemory(image) ==
  {h \in Header : \A i \in 1 .. image.filled : h[Field[i]] = image.header[Field[i]]}

\* The elf_type of a path that check_if_valid_elf accepts, else "invalid".
check_if_valid_elf(path) ==
  IF Image[path].opens
  THEN {IF checkHeader(h) THEN h.type ELSE "invalid" : h \in HeaderInMemory(Image[path])}
  ELSE {"invalid"}

\* The entry made in file_infos_ under a name, if any; the md5 is a constant.
Entry(name, elf_type) ==
  CASE elf_type = "ET_EXEC" -> {[path |-> name, type |-> "EXE"]}
    [] elf_type = "ET_DYN"  -> {[path |-> name, type |-> "DYN"]}
    [] OTHER                -> {}

file_checker(f) == {Entry(f, elf_type) : elf_type \in check_if_valid_elf(f)}

valid_path(path) == path \notin SkippedPath

symbol_reloader(l) ==
  IF Target[l] = NoTarget \/ ~valid_path(Target[l])
  THEN {{}}
  ELSE {Entry(l, elf_type) : elf_type \in check_if_valid_elf(Target[l])}

\* What a name found in a directory may add to file_infos_.
Outcomes(name) == IF name \in Link THEN symbol_reloader(name) ELSE file_checker(name)

Info == [path: File \cup Link, type: {"EXE", "DYN"}]

\* The file a name stands for is an ELF executable or shared object, with a
\* whole header.
ReadAs(name) == IF name \in Link THEN Target[name] ELSE name
IsElf(name) ==
  /\ ReadAs(name) # NoTarget
  /\ LET image == Image[ReadAs(name)]
     IN  image.opens /\ image.filled = Len(Field) /\ checkHeader(image.header)
=============================================================================

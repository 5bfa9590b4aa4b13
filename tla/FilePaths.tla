-------------------------------- MODULE FilePaths --------------------------------
(***************************************************************************)
(* FilePath of gtest-filepath.cc, where the separator is "/": a pathname is  *)
(* a sequence of characters, which are strings.                              *)
(***************************************************************************)
EXTENDS Integers, SequencesExt, TLC

IsPath(path) == path \in Seq(Range(path))

Separator == "/"
kCurrentDirectoryString == <<".", Separator>>

(* Each FilePath that is constructed is normalised: its repeated separators go *)
Normalized(out, c) == IF c = Separator /\ out # <<>> /\ Last(out) = Separator THEN out ELSE Append(out, c)
Normalize(path) ==
  LET out[n \in 0 .. Len(path)] == IF n = 0 THEN <<>> ELSE Normalized(out[n - 1], path[n])
  IN  out[Len(path)]

IsDirectory(path) == path # <<>> /\ Last(path) = Separator
FindLastPathSeparator(path) ==           \* 0: there is none
  LET seps == {i \in DOMAIN path : path[i] = Separator}
  IN  IF seps = {} THEN 0 ELSE CHOOSE i \in seps : \A j \in seps : j <= i
CalculateRootLength(path) == IF path # <<>> /\ path[1] = Separator THEN 1 ELSE 0
IsAbsolutePath(path) == CalculateRootLength(path) > 0

RemoveTrailingPathSeparator(path) == IF IsDirectory(path) THEN Front(path) ELSE path
RemoveDirectoryName(path) == SubSeq(path, FindLastPathSeparator(path) + 1, Len(path))
RemoveFileName(path) ==
  IF FindLastPathSeparator(path) = 0 THEN kCurrentDirectoryString
  ELSE SubSeq(path, 1, FindLastPathSeparator(path))

ConcatPaths(directory, relative_path) ==
  IF directory = <<>> THEN relative_path
  ELSE Normalize(RemoveTrailingPathSeparator(directory) \o <<Separator>> \o relative_path)
MakeFileName(directory, base_name, number, extension) ==
  ConcatPaths(directory,
    base_name \o (IF number = 0 THEN <<>> ELSE <<"_", ToString(number)>>) \o <<".">> \o extension)
================================================================================

------------------------------- MODULE OutputFiles -------------------------------
(***************************************************************************)
(* The reports of --gtest_output, written by several test programs at a time *)
(* into one file system: the name of the file is chosen at the start of a    *)
(* program (UnitTestOptions::GetAbsolutePathToOutputFile), its directories   *)
(* are made and the file is opened after every iteration                     *)
(* (OpenFileForWriting).  A step is a call of the system.                    *)
(***************************************************************************)
EXTENDS FilePaths, FiniteSets

CONSTANTS Programs,
          Output,        \* [Programs -> what follows the colon of the flag: a pathname, maybe empty]
          Executable,    \* [Programs -> argv[0], a pathname]
          Directory,     \* the working directory when the programs start
          Iterations,    \* of the tests, by --gtest_repeat
          Present,       \* the file systems there may be before
          Intruders      \* nodes somebody else may make a file of, meanwhile

ASSUME OutputFilesAssumption ==
  /\ "dir" \notin Programs /\ IsPath(Directory)
  /\ \A p \in Programs : IsPath(Output[p]) /\ IsPath(Executable[p])

Extension == <<"xml">>

VARIABLES fs,       \* [node -> "dir", or who wrote the file]; a node is the names on the way to it,
                    \* without ".." and links
          pc,       \* [Programs -> "start", "choose", "test", "exists", "mkdir", "refused", "open",
                    \*              "done", "died"]
          number,   \* [Programs -> the next number to try]
          file,     \* [Programs -> output_file_]
          folders,  \* [Programs -> the calls of CreateDirectoriesRecursively, innermost last]
          iteration,
          before    \* [Programs -> the nodes there were when it started to choose]

output_vars == <<fs, pc, number, file, folders, iteration, before>>

--------------------------------------------------------------------------------
(* The file system *)
Named(way) == IF way.name \in {<<>>, <<".">>} THEN way.names ELSE Append(way.names, way.name)
Further(way, c) ==
  IF c = Separator THEN [names |-> Named(way), name |-> <<>>]
  ELSE [names |-> way.names, name |-> Append(way.name, c)]
Ways(path) ==
  LET way[n \in 0 .. Len(path)] ==
        IF n = 0 THEN [names |-> <<>>, name |-> <<>>] ELSE Further(way[n - 1], path[n])
  IN  way
Node(path) == Named(Ways(path)[Len(path)])
IsFolder(node) == node = <<>> \/ (node \in DOMAIN fs /\ fs[node] = "dir")
InFolder(path) == IsFolder(Front(Node(path)))
DirectoryExists(path) == IsFolder(Node(path))
FileOrDirectoryExists(path) ==
  DirectoryExists(path) \/ (Node(path) \in DOMAIN fs /\ ~ IsDirectory(path))
With(node, what) == [m \in DOMAIN fs \union {node} |-> IF m = node THEN what ELSE fs[m]]

OutputInit ==
  /\ fs \in Present
  /\ pc = [p \in Programs |-> "start"]
  /\ number = [p \in Programs |-> 0]
  /\ file = [p \in Programs |-> <<>>]
  /\ folders = [p \in Programs |-> <<>>]
  /\ iteration = [p \in Programs |-> 0]
  /\ before = [p \in Programs |-> {}]

Goto(p, label) == pc' = [pc EXCEPT ![p] = label]

--------------------------------------------------------------------------------
(* GetAbsolutePathToOutputFile: a directory asks for a name of its own       *)
OutputName(p) ==
  LET path == Normalize(Output[p])
  IN  IF IsAbsolutePath(path) THEN path ELSE ConcatPaths(Directory, path)
Start(p) ==
  /\ pc[p] = "start"
  /\ before' = [before EXCEPT ![p] = DOMAIN fs]
  /\ IF IsDirectory(OutputName(p))
     THEN Goto(p, "choose") /\ UNCHANGED file
     ELSE Goto(p, "test") /\ file' = [file EXCEPT ![p] = OutputName(p)]
  /\ UNCHANGED <<fs, number, folders, iteration>>

(* GenerateUniqueFileName, one turn of its loop.  A slip: only directories   *)
(* are looked for.                                                           *)
TakenByDirectory(path) == DirectoryExists(path)
Taken(path) == FileOrDirectoryExists(path)
Choose(p) ==
  LET name == MakeFileName(OutputName(p), RemoveDirectoryName(Normalize(Executable[p])), number[p], Extension) IN
  /\ pc[p] = "choose"
  /\ number' = [number EXCEPT ![p] = @ + 1]
  /\ IF Taken(name) THEN UNCHANGED <<pc, file>>
     ELSE Goto(p, "test") /\ file' = [file EXCEPT ![p] = name]
  /\ UNCHANGED <<fs, folders, iteration, before>>

(* The tests have run *)
EndIteration(p) ==
  /\ pc[p] = "test"
  /\ IF iteration[p] = Iterations THEN Goto(p, "done") /\ UNCHANGED <<iteration, folders>>
     ELSE /\ iteration' = [iteration EXCEPT ![p] = @ + 1]
          /\ folders' = [folders EXCEPT ![p] = <<RemoveFileName(file[p])>>]
          /\ Goto(p, "exists")
  /\ UNCHANGED <<fs, number, file, before>>

(* CreateDirectoriesRecursively, before it makes the folder itself           *)
LookForFolder(p) ==
  LET path == Last(folders[p]) IN
  /\ pc[p] = "exists"
  /\ IF DirectoryExists(path)
     THEN /\ folders' = [folders EXCEPT ![p] = Front(@)]
          /\ Goto(p, IF Len(folders[p]) = 1 THEN "open" ELSE "mkdir")
     ELSE /\ folders' = [folders EXCEPT ![p] = Append(@, RemoveFileName(RemoveTrailingPathSeparator(path)))]
          /\ UNCHANGED pc
  /\ UNCHANGED <<fs, number, file, iteration, before>>

Returned(p) ==
  /\ folders' = [folders EXCEPT ![p] = Front(@)]
  /\ Goto(p, IF Len(folders[p]) = 1 THEN "open" ELSE "mkdir")

(* CreateFolder: mkdir(), and another look where it fails                    *)
AfterRefusal(path) == DirectoryExists(path)
MakeFolder(p) ==
  LET path == Last(folders[p]) IN
  /\ pc[p] = "mkdir"
  /\ IF InFolder(path) /\ Node(path) \notin DOMAIN fs
     THEN fs' = With(Node(path), "dir") /\ Returned(p)
     ELSE Goto(p, "refused") /\ UNCHANGED <<fs, folders>>
  /\ UNCHANGED <<number, file, iteration, before>>
LookAgain(p) ==
  /\ pc[p] = "refused"
  /\ IF AfterRefusal(Last(folders[p])) THEN Returned(p)
     ELSE Goto(p, "died") /\ UNCHANGED folders
  /\ UNCHANGED <<fs, number, file, iteration, before>>

(* fopen() with "w", or GTEST_LOG_(FATAL) *)
Open(p) ==
  /\ pc[p] = "open"
  /\ IF InFolder(file[p]) /\ ~ DirectoryExists(file[p])
     THEN fs' = With(Node(file[p]), p) /\ Goto(p, "test")
     ELSE Goto(p, "died") /\ UNCHANGED fs
  /\ UNCHANGED <<number, file, folders, iteration, before>>

(* Somebody else makes a file *)
Intrude ==
  /\ \E node \in Intruders :
       /\ node \notin DOMAIN fs /\ IsFolder(Front(node))
       /\ fs' = With(node, "somebody")
  /\ UNCHANGED <<pc, number, file, folders, iteration, before>>

Ended == \A p \in Programs : pc[p] \in {"done", "died"}
OutputNext ==
  \/ \E p \in Programs :
       Start(p) \/ Choose(p) \/ EndIteration(p) \/ LookForFolder(p) \/ MakeFolder(p)
         \/ LookAgain(p) \/ Open(p)
  \/ Intrude
  \/ Ended /\ UNCHANGED output_vars

OutputSpec == OutputInit /\ [][OutputNext]_output_vars

--------------------------------------------------------------------------------
(* In a directory, the reports of a program take the place of none that was   *)
(* there when the program started, only of its own and of one made since its *)
(* name was chosen: programs that do not overlap keep all their reports      *)
(* (gtest-filepath.cc, GenerateUniqueFileName and the race it documents).    *)
ReplacesNothingOlder ==
  [][\A p \in Programs :
       pc[p] = "open" /\ pc'[p] = "test" /\ IsDirectory(OutputName(p)) =>
         Node(file[p]) \notin before[p]]_output_vars

(* A program writes its report whoever makes the same directories meanwhile:  *)
(* it gives up only where a file stands in the way of a directory, or a      *)
(* directory has the name of the file (gtest-filepath.cc, CreateFolder).     *)
GivesUpOnlyBlocked ==
  \A p \in Programs : pc[p] = "died" =>
    LET folder == Node(RemoveFileName(file[p]))
        InTheWay(n) == SubSeq(folder, 1, n) \in DOMAIN fs /\ ~ IsFolder(SubSeq(folder, 1, n))
    IN  DirectoryExists(file[p]) \/ \E n \in 1 .. Len(folder) : InTheWay(n)

(* Every report that can be written is, and is kept for later programs.      *)
ReportsKept == []GivesUpOnlyBlocked /\ ReplacesNothingOlder
================================================================================

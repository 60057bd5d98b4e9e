----------------------------- MODULE GTestOutput -----------------------------
(***************************************************************************)
(* Where the XML or JSON report of a test program goes, as gtest.cc and    *)
(* gtest-filepath.cc have it on POSIX: the path that --gtest_output asks   *)
(* for is settled before the tests run, which may change the directory;    *)
(* whenever an iteration ends, its directories are created and the file is *)
(* opened.  Several programs with one name do so at the same time.         *)
(*                                                                         *)
(* A path is a sequence of names and separators; no two names are adjacent. *)
(***************************************************************************)
EXTENDS Integers, SequencesExt, FiniteSets

CONSTANTS
  Program,
  Starts,      \* the disk at first: its dirs, its files, and those of its
               \* dirs in which the programs may create nothing
  WorkDirs,    \* where the programs may be started, and their tests go
  Outputs,     \* what follows the colon of the flag, or NoColon
  NoColon,
  DefaultFile, \* kDefaultOutputFile with its extension
  FileName,    \* by number: the name of the program with its extension; how many
               \* there are bounds the names tried
  MaxRound     \* --gtest_repeat

VARIABLES
  start,       \* one of Starts
  tree,        \* the directories: sequences of names
  disk,        \* by the same: the reports in a file, as pairs of a program and
               \* an iteration
  output_flag,
  origin,      \* original_working_dir_
  cwd,
  stage,       \* of a program
  number,      \* of the next file name tried
  output_file, \* of the printer, <<>> before it is constructed
  todo,        \* the paths of the calls of CreateDirectoriesRecursively
  round,
  seen         \* history: the programs whose reports existed when the name of
               \* this one's was chosen

outputVars == <<start, tree, disk, output_flag, origin, cwd, stage, number, output_file,
                todo, round, seen>>

-----------------------------------------------------------------------------
(* FilePath                                                                *)

\* Keeps one of adjacent separators.
Normalize(path) ==
  LET out[i \in 0 .. Len(path)] ==
        IF i = 0 THEN <<>>
        ELSE IF path[i] = "/" /\ out[i - 1] # <<>> /\ Last(out[i - 1]) = "/" THEN out[i - 1]
        ELSE Append(out[i - 1], path[i])
  IN  out[Len(path)]

IsDirectory(path)    == path # <<>> /\ Last(path) = "/"
IsAbsolutePath(path) == path # <<>> /\ Head(path) = "/"

RemoveTrailingPathSeparator(path) == IF IsDirectory(path) THEN Front(path) ELSE path

FindLastPathSeparator(path) == SelectLastInSeq(path, LAMBDA c : c = "/")

RemoveFileName(path) ==
  LET last_sep == FindLastPathSeparator(path)
  IN  IF last_sep = 0 THEN <<".", "/">> ELSE SubSeq(path, 1, last_sep)

ConcatPaths(directory, relative_path) ==
  IF directory = <<>> THEN relative_path
  ELSE Normalize(RemoveTrailingPathSeparator(directory) \o <<"/">> \o relative_path)

MakeFileName(directory, n) == ConcatPaths(directory, <<FileName[n]>>)

-----------------------------------------------------------------------------
(* The file system                                                         *)

Char == STRING   \* a name or a separator

IsPath(path) ==
  /\ path \in Seq(Char)
  /\ \A i \in 1 .. Len(path) - 1 : "/" \in {path[i], path[i + 1]}

\* getcwd returns an absolute path.  Nobody asks for a file named dot.
ASSUME OutputAssumption ==
  /\ \A directory \in WorkDirs : IsPath(directory) /\ IsAbsolutePath(directory)
  /\ \A flag \in Outputs \ {NoColon} : IsPath(flag) /\ (flag # <<>> => Last(flag) # ".")
  /\ \A name \in {DefaultFile} \cup {FileName[n] : n \in DOMAIN FileName} :
       name \in Char \ {"/", "."}
  /\ {"/", "."} \subseteq Char
  /\ \A begin \in Starts : /\ <<>> \in begin.dirs
                           /\ begin.files = [f \in DOMAIN begin.files |-> begin.files[f]]
  /\ MaxRound \in Nat \ {0}

\* The names on the way from the root.
Names(path) ==
  LET names[i \in 0 .. Len(path)] ==
        IF i = 0 THEN <<>>
        ELSE IF path[i] \in {"/", "."} THEN names[i - 1]
        ELSE Append(names[i - 1], path[i])
  IN  names[Len(path)]
Resolve(p, path) == Names(IF IsAbsolutePath(path) THEN path ELSE cwd[p] \o <<"/">> \o path)

DirectoryExists(p, path) == Resolve(p, path) \in tree

FileOrDirectoryExists(p, path) ==
  \/ DirectoryExists(p, path)
  \/ ~ IsDirectory(path) /\ Resolve(p, path) \in DOMAIN disk

\* A new entry needs a directory that is there and open to the program.
MayCreate(names) ==
  /\ names # <<>> /\ names \notin tree \cup DOMAIN disk
  /\ Front(names) \in tree \ start.readonly

-----------------------------------------------------------------------------
(* Each program                                                            *)

Proceed(p, to) == stage' = [stage EXCEPT ![p] = to]

Settle(p, path) ==
  /\ output_file' = [output_file EXCEPT ![p] = path]
  /\ seen' = [seen EXCEPT ![p] = {q \in Program : /\ output_file[q] # <<>>
                                                  /\ Names(output_file[q]) \in DOMAIN disk}]
  /\ Proceed(p, "tests")

\* output_name, made absolute.
OutputName(p) ==
  LET given == Normalize(output_flag[p])
  IN  IF IsAbsolutePath(given) THEN given ELSE ConcatPaths(origin[p], given)

\* GetAbsolutePathToOutputFile but for its last call.
Configure(p) ==
  /\ stage[p] = "configure"
  /\ IF output_flag[p] = NoColon
       THEN Settle(p, ConcatPaths(origin[p], <<DefaultFile>>))
     ELSE IF ~ IsDirectory(OutputName(p))
       THEN Settle(p, OutputName(p))
     ELSE Proceed(p, "name") /\ UNCHANGED <<output_file, seen>>
  /\ UNCHANGED <<start, tree, disk, output_flag, origin, cwd, number, todo, round>>

\* One turn of its loop.
GenerateUniqueFileName(p) ==
  /\ stage[p] = "name" /\ number[p] \in DOMAIN FileName
  /\ LET full_pathname == MakeFileName(OutputName(p), number[p])
     IN  IF FileOrDirectoryExists(p, full_pathname)
           THEN UNCHANGED <<output_file, seen, stage>>
           ELSE Settle(p, full_pathname)
  /\ number' = [number EXCEPT ![p] = @ + 1]
  /\ UNCHANGED <<start, tree, disk, output_flag, origin, cwd, todo, round>>

\* The tests of an iteration leave the program in some directory; then the
\* printer is called, whose OpenFileForWriting takes the next steps.
RunTests(p) ==
  /\ stage[p] = "tests"
  /\ \E d \in WorkDirs : cwd' = [cwd EXCEPT ![p] = d]
  /\ todo' = [todo EXCEPT ![p] = <<RemoveFileName(output_file[p])>>]
  /\ Proceed(p, "look")
  /\ UNCHANGED <<start, tree, disk, output_flag, origin, number, output_file, round, seen>>

\* CreateDirectoriesRecursively: down to the first directory that exists,
CreateDirectoriesRecursively(p) ==
  /\ stage[p] = "look"
  /\ LET path == Last(todo[p])
     IN  IF DirectoryExists(p, path)
           THEN todo' = [todo EXCEPT ![p] = Front(@)] /\ Proceed(p, "create")
           ELSE /\ todo' = [todo EXCEPT ![p] =
                             Append(@, RemoveFileName(RemoveTrailingPathSeparator(path)))]
                /\ UNCHANGED stage
  /\ UNCHANGED <<start, tree, disk, output_flag, origin, cwd, number, output_file, round, seen>>

\* and back up, with a folder at each return.
CreateFolder(p) ==
  /\ stage[p] = "create" /\ todo[p] # <<>>
  /\ LET folder == Resolve(p, Last(todo[p]))
     IN  IF MayCreate(folder)
           THEN /\ tree' = tree \cup {folder}
                /\ todo' = [todo EXCEPT ![p] = Front(@)]
                /\ UNCHANGED stage
           ELSE Proceed(p, "failed") /\ UNCHANGED <<tree, todo>>
  /\ UNCHANGED <<start, disk, output_flag, origin, cwd, number, output_file, round, seen>>

\* Mutant: an error is an error.
FolderAlwaysFails(p) ==
  /\ stage[p] = "failed"
  /\ Proceed(p, "aborted")
  /\ UNCHANGED <<start, tree, disk, output_flag, origin, cwd, number, output_file, todo, round,
                 seen>>

\* "An error is OK if the directory exists."
AcceptFolder(p) ==
  /\ stage[p] = "failed"
  /\ IF DirectoryExists(p, Last(todo[p]))
       THEN todo' = [todo EXCEPT ![p] = Front(@)] /\ Proceed(p, "create")
       ELSE Proceed(p, "aborted") /\ UNCHANGED todo
  /\ UNCHANGED <<start, tree, disk, output_flag, origin, cwd, number, output_file, round, seen>>

\* fopen(..., "w") empties the file; without it the program is aborted.
Open(p) ==
  /\ stage[p] = "create" /\ todo[p] = <<>>
  /\ LET file == Resolve(p, output_file[p])
     IN  IF file \in DOMAIN disk \/ MayCreate(file)
           THEN disk' = [f \in DOMAIN disk \cup {file} |-> IF f = file THEN {} ELSE disk[f]]
                /\ Proceed(p, "write")
           ELSE Proceed(p, "aborted") /\ UNCHANGED disk
  /\ UNCHANGED <<start, tree, output_flag, origin, cwd, number, output_file, todo, round, seen>>

\* fprintf and fclose; two programs that have one file open mix their reports.
PrintReport(p) ==
  /\ stage[p] = "write"
  /\ disk' = [disk EXCEPT ![Resolve(p, output_file[p])] = @ \cup {<<p, round[p]>>}]
  /\ IF round[p] < MaxRound
       THEN round' = [round EXCEPT ![p] = @ + 1] /\ Proceed(p, "tests")
       ELSE Proceed(p, "done") /\ UNCHANGED round
  /\ UNCHANGED <<start, tree, output_flag, origin, cwd, number, output_file, todo, seen>>

AllEnded == (\A p \in Program : stage[p] \in {"done", "aborted"}) /\ UNCHANGED outputVars

OutputInit ==
  /\ start \in Starts
  /\ tree = start.dirs /\ disk = start.files
  /\ output_flag \in [Program -> Outputs]
  /\ \E d \in WorkDirs : origin = [p \in Program |-> d]
  /\ cwd = origin
  /\ stage = [p \in Program |-> "configure"]
  /\ number = [p \in Program |-> 0]
  /\ output_file = [p \in Program |-> <<>>] /\ todo = output_file
  /\ round = [p \in Program |-> 1]
  /\ seen = [p \in Program |-> {}]

OutputNext ==
  \/ \E p \in Program :
       \/ Configure(p) \/ GenerateUniqueFileName(p) \/ RunTests(p)
       \/ CreateDirectoriesRecursively(p) \/ CreateFolder(p) \/ AcceptFolder(p)
       \/ Open(p) \/ PrintReport(p)
  \/ AllEnded

OutputSpec == OutputInit /\ [][OutputNext]_outputVars

-----------------------------------------------------------------------------
(* Properties                                                              *)

\* What a user means by the flag: relative to where the program was started, a
\* file, or a directory in which the program names a file.
InDirectory(p) == output_flag[p] # NoColon
                  /\ (output_flag[p] = <<>> \/ Last(output_flag[p]) = "/")
Asked(p) ==
  LET flag == output_flag[p]
      here == IF flag # NoColon /\ IsAbsolutePath(flag) THEN <<>> ELSE Names(origin[p])
  IN  IF flag = NoColon THEN {here \o <<DefaultFile>>}
      ELSE IF InDirectory(p) THEN {here \o Names(flag) \o <<FileName[n]>> : n \in DOMAIN FileName}
      ELSE {here \o Names(flag)}

ReportFile(p)  == Names(output_file[p])
Above(names)   == {SubSeq(names, 1, n) : n \in 0 .. Len(names) - 1}
Towards(d, names) == SubSeq(names, 1, Len(d) + 1)

\* Nobody could have put a file there.
Impossible(names) ==
  \/ names \in tree
  \/ \E d \in Above(names) :
       \/ d \in DOMAIN disk
       \/ d \in start.readonly /\ Towards(d, names) \notin tree \cup DOMAIN disk

\* A program whose tests have ended leaves the report of its last iteration where
\* its flag asks for it, wherever its tests went; it is aborted only if no file
\* can be there, and never because another program was creating the same
\* directories.  A file that was there before a name was chosen in its directory
\* is not overwritten, and nothing else appears on the disk.
OutputRight ==
  /\ \A p \in Program :
       /\ stage[p] = "done" =>
            /\ ReportFile(p) \in Asked(p) \cap DOMAIN disk
            /\ (\A q \in Program \ {p} : ReportFile(q) # ReportFile(p)) =>
                 disk[ReportFile(p)] = {<<p, MaxRound>>}
       /\ stage[p] = "aborted" => Impossible(ReportFile(p))
       /\ InDirectory(p) => \A q \in seen[p] : ReportFile(q) # ReportFile(p)
  /\ \A f \in DOMAIN start.files :
       (\A p \in Program : InDirectory(p)) => f \in DOMAIN disk /\ disk[f] = start.files[f]
  /\ DOMAIN disk \subseteq DOMAIN start.files \cup {ReportFile(p) : p \in Program}
  /\ tree \subseteq start.dirs \cup UNION {Above(ReportFile(p)) : p \in Program}
=============================================================================

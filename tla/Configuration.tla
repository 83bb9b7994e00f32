---------------------------- MODULE Configuration ----------------------------
(***************************************************************************)
(* How the program comes by its parameters: the constructor of             *)
(* MemorySystem reads the device file and then the system file, line by    *)
(* line, into global variables through IniReader's configMap, works out    *)
(* the number of ranks from the size on the command line, turns the names  *)
(* into enumeration values, and only then checks that every number was     *)
(* set.                                                                    *)
(*                                                                         *)
(* Of the parameters the model has those that the storage and its address  *)
(* map depend on and one that is Boolean.  Of the layout of a line it has  *)
(* whether there is an equals sign; empty and comment lines are left out.  *)
(***************************************************************************)
EXTENDS Naturals, SequencesExt, FiniteSetsExt

CONSTANTS
  DeviceFiles, SystemFiles,    \* sets of files; a file is a sequence of lines
  Sizes,                       \* sizes of the memory system, in megabytes
  Megabyte                     \* bytes in a megabyte

VARIABLES
  deviceIni, systemIni, megsOfMemory,    \* the command line
  phase,                       \* what the constructor is doing, or how it ended
  lineNumber,                  \* lines read from the file at hand
  globals, wasSet              \* the global variables, and whether a file has set them

commandLine == <<deviceIni, systemIni, megsOfMemory>>
configVars  == <<commandLine, phase, lineNumber, globals, wasSet>>

variableType ==
  [NUM_BANKS |-> "UINT", NUM_ROWS |-> "UINT", NUM_COLS |-> "UINT", DEVICE_WIDTH |-> "UINT",
   BL |-> "UINT", JEDEC_DATA_BUS_BITS |-> "UINT",
   USE_LOW_POWER |-> "BOOL", ADDRESS_MAPPING_SCHEME |-> "STRING"]

Keys    == DOMAIN variableType
Numbers == {key \in Keys : variableType[key] = "UINT"}

\* What a line says: a number or a word for a key, or nothing that can be read.
IsAssignment(line) == DOMAIN line = {"key", "number"} \/ DOMAIN line = {"key", "word"}

ASSUME FilesAssumption ==
  /\ \A file \in DeviceFiles \cup SystemFiles : file \in Seq(Range(file))
  /\ \A line \in UNION {Range(file) : file \in DeviceFiles \cup SystemFiles} :
       IsAssignment(line) /\ "number" \in DOMAIN line => line.number \in Nat
  /\ Sizes \subseteq Nat /\ Megabyte \in Nat \ {0}

\* What a global variable holds before anything was read.
Unset(key) == CASE variableType[key] = "UINT" -> 0
                [] variableType[key] = "BOOL" -> FALSE
                [] OTHER                      -> ""

\* Those that are worked out, not read.
Computed == [NUM_RANKS |-> 0, addressMappingScheme |-> "Scheme1"]

ConfigInit ==
  /\ deviceIni \in DeviceFiles /\ systemIni \in SystemFiles
  /\ megsOfMemory \in Sizes
  /\ phase = "deviceIni"
  /\ lineNumber = 0
  /\ globals = [name \in Keys \cup DOMAIN Computed |->
                  IF name \in Keys THEN Unset(name) ELSE Computed[name]]
  /\ wasSet = [key \in Keys |-> FALSE]

-----------------------------------------------------------------------------
(* IniReader::SetKey and ReadIniFile. *)

\* What a line's value becomes in the variable of its key: a word where a number
\* should be is reported and stored as 0, and any word but "true" is false.
Parsed(line) ==
  LET number == "number" \in DOMAIN line
  IN  CASE variableType[line.key] = "UINT" -> IF number THEN line.number ELSE 0
        [] variableType[line.key] = "BOOL" -> IF number THEN line.number = 1
                                              ELSE line.word = "true"
        [] OTHER                           -> IF number THEN "" ELSE line.word

\* Mutant: a key that was set already keeps its value.
SetKeyOnce(line) ==
  IF line.key \in Keys /\ ~wasSet[line.key]
  THEN /\ globals' = [globals EXCEPT ![line.key] = Parsed(line)]
       /\ wasSet' = [wasSet EXCEPT ![line.key] = TRUE]
  ELSE UNCHANGED <<globals, wasSet>>

\* An unknown key is only reported.  Whether a parameter belongs into the file that
\* it was found in is reported at most, too.
SetKey(line) ==
  IF line.key \in Keys
  THEN /\ globals' = [globals EXCEPT ![line.key] = Parsed(line)]
       /\ wasSet' = [wasSet EXCEPT ![line.key] = TRUE]
  ELSE UNCHANGED <<globals, wasSet>>

File == IF phase = "deviceIni" THEN deviceIni ELSE systemIni

ReadLine ==
  /\ phase \in {"deviceIni", "systemIni"}
  /\ lineNumber < Len(File)
  /\ lineNumber' = lineNumber + 1
  /\ LET line == File[lineNumber']
     IN  IF IsAssignment(line)
         THEN SetKey(line) /\ UNCHANGED phase
         ELSE phase' = "abort" /\ UNCHANGED <<globals, wasSet>>
  /\ UNCHANGED commandLine

EndOfFile ==
  /\ phase \in {"deviceIni", "systemIni"}
  /\ lineNumber = Len(File)
  /\ phase' = IF phase = "deviceIni" THEN "systemIni" ELSE "storage"
  /\ lineNumber' = 0
  /\ UNCHANGED <<commandLine, globals, wasSet>>

-----------------------------------------------------------------------------
(* The rest of the constructor. *)

\* Only computed when DEVICE_WIDTH is not 0.
megsOfStoragePerRank ==
  ((globals.NUM_ROWS * (globals.NUM_COLS * globals.DEVICE_WIDTH) * globals.NUM_BANKS
     * (globals.JEDEC_DATA_BUS_BITS \div globals.DEVICE_WIDTH)) \div 8) \div Megabyte

DivisionByZero ==
  globals.DEVICE_WIDTH = 0 \/ (megsOfMemory # 0 /\ megsOfStoragePerRank = 0)

Ranks ==
  IF megsOfMemory = 0 THEN globals.NUM_RANKS
  ELSE Max({1, megsOfMemory \div megsOfStoragePerRank})

ComputeStorage ==
  /\ phase = "storage"
  /\ IF DivisionByZero
     THEN phase' = "crash" /\ UNCHANGED globals
     ELSE phase' = "enums" /\ globals' = [globals EXCEPT !.NUM_RANKS = Ranks]
  /\ UNCHANGED <<commandLine, lineNumber, wasSet>>

SchemeNames == [scheme1 |-> "Scheme1", scheme2 |-> "Scheme2", scheme3 |-> "Scheme3",
                scheme4 |-> "Scheme4", scheme5 |-> "Scheme5", scheme6 |-> "Scheme6"]

\* An unknown name is reported and taken for Scheme1.
InitEnumsFromStrings ==
  /\ phase = "enums"
  /\ phase' = "check"
  /\ globals' = [globals EXCEPT !.addressMappingScheme =
                  IF globals.ADDRESS_MAPPING_SCHEME \in DOMAIN SchemeNames
                  THEN SchemeNames[globals.ADDRESS_MAPPING_SCHEME] ELSE "Scheme1"]
  /\ UNCHANGED <<commandLine, lineNumber, wasSet>>

NumbersSet == \A key \in Numbers : wasSet[key]

\* Booleans that were not set become false, strings stay as they are.
CheckIfAllSet ==
  /\ phase = "check"
  /\ phase' = IF NumbersSet THEN "built" ELSE "exit"
  /\ UNCHANGED <<commandLine, lineNumber, globals, wasSet>>

ConfigNext ==
  \/ ReadLine \/ EndOfFile
  \/ ComputeStorage \/ InitEnumsFromStrings \/ CheckIfAllSet

ConfigSpec == ConfigInit /\ [][ConfigNext]_configVars

-----------------------------------------------------------------------------
(* Properties. *)

\* The constructor's variables are well formed, and the enumerations are what the
\* schemes' names stand for.
ConfigTypeOK ==
  /\ phase \in {"deviceIni", "systemIni", "storage", "enums", "check",
                "built", "exit", "abort", "crash"}
  /\ lineNumber \in Nat
  /\ wasSet \in [Keys -> BOOLEAN]
  /\ \A key \in Numbers : globals[key] \in Nat
  /\ globals.USE_LOW_POWER \in BOOLEAN
  /\ globals.NUM_RANKS \in Nat
  /\ globals.addressMappingScheme \in Range(SchemeNames)

\* In the order in which they are read.
Lines == deviceIni \o systemIni

\* Every parameter has the value that the last line for it gives, whichever of the two
\* files that is in, and every number has one.
ValuesFromFiles ==
  \A key \in Keys :
    LET given == {n \in DOMAIN Lines : Lines[n].key = key}
    IN  IF given = {} THEN key \notin Numbers ELSE globals[key] = Parsed(Lines[Max(given)])

\* The ranks hold no more than the size that was asked for, unless one rank already
\* does.
RanksFitSize ==
  \/ megsOfMemory = 0 \/ globals.NUM_RANKS = 1
  \/ globals.NUM_RANKS * megsOfStoragePerRank <= megsOfMemory

\* A memory system that is built is the one that the files and the size describe.
BuiltFromFiles == phase = "built" => ValuesFromFiles /\ RanksFitSize
=============================================================================

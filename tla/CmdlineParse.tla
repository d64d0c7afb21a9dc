---------------------------- MODULE CmdlineParse ----------------------------
(* cmdline_parse of host.c and sign_tool.c, two programs with tables of their  *)
(* own: the words of a command line are matched one after the other against    *)
(* the table of the command, and what follows each option is left in the       *)
(* caller's array, and in sign_tool behind it as well.                        *)
EXTENDS Integers, Sequences, SequencesExt, FiniteSetsExt

CONSTANTS Paths,        \* words that do not begin with "-"
          NoPath,       \* NULL, which is no path
          Behind        \* what the memory behind the caller's array holds

\* A word is one thing: a path, or an option, or none.
ASSUME WordsAssumption == NoPath \notin Paths /\ "-image" \notin Paths

PAR_REQUIRED == "required"
PAR_OPTIONAL == "optional"
PAR_INVALID  == "invalid"

-----------------------------------------------------------------------------
(* The tables of the two programs *)
Tool == {"host", "sign_tool"}

\* The rows of the tables, in their order.
HostOptions == <<"-image", "-imageaddr", "-dtb", "-dtbaddr", "-cssfile", "-nonce">>
SignOptions == <<"-image", "-imageaddr", "-dtb", "-dtbaddr", "-key", "-out",
                 "-sig", "-unsigned", "-ccsfile", "-dumpfile">>
Options == [host |-> HostOptions, sign_tool |-> SignOptions]

\* The flag of each option for each command.
HostFlag == [c \in {"run", "attest"} |->
               [o \in Range(HostOptions) |-> IF (o = "-nonce") = (c = "attest") THEN PAR_REQUIRED ELSE PAR_INVALID]]
SignFlag ==
  [sign    |-> [o \in Range(SignOptions) |->
                  IF o \in {"-sig", "-unsigned", "-ccsfile"} THEN PAR_INVALID
                  ELSE IF o = "-dumpfile" THEN PAR_OPTIONAL ELSE PAR_REQUIRED],
   gendata |-> [o \in Range(SignOptions) |->
                  IF o \in {"-key", "-sig", "-unsigned", "-ccsfile", "-dumpfile"} THEN PAR_INVALID ELSE PAR_REQUIRED],
   catsig  |-> [o \in Range(SignOptions) |->
                  IF o = "-ccsfile" THEN PAR_INVALID ELSE IF o = "-dumpfile" THEN PAR_OPTIONAL ELSE PAR_REQUIRED],
   dump    |-> [o \in Range(SignOptions) |->
                  IF o \in {"-ccsfile", "-dumpfile"} THEN PAR_REQUIRED ELSE PAR_INVALID]]
Flag == [host |-> HostFlag, sign_tool |-> SignFlag]

\* The enumerations the callers index their arrays with, and which enumerator
\* each uses for the path of an option.
\* Mutant: the last two enumerators of sign_tool trade places.
DumpBeforeCcs == [host |-> [IMAGE_FILE |-> 0, IMAGE_LDADDR |-> 1, DTB_FILE |-> 2, DTB_LDADDR |-> 3,
                           CCSFILE |-> 4, NONCE |-> 5],
                 sign_tool |-> [IMAGE_FILE |-> 0, IMAGE_LDADDR |-> 1, DTB_FILE |-> 2, DTB_LDADDR |-> 3,
                                KEY |-> 4, OUTPUT |-> 5, SIG |-> 6, UNSIGNED |-> 7, DUMPFILE |-> 8, CCSFILE |-> 9]]
file_path_t == [host |-> [IMAGE_FILE |-> 0, IMAGE_LDADDR |-> 1, DTB_FILE |-> 2, DTB_LDADDR |-> 3,
                          CCSFILE |-> 4, NONCE |-> 5],
                sign_tool |-> [IMAGE_FILE |-> 0, IMAGE_LDADDR |-> 1, DTB_FILE |-> 2, DTB_LDADDR |-> 3,
                               KEY |-> 4, OUTPUT |-> 5, SIG |-> 6, UNSIGNED |-> 7, CCSFILE |-> 8, DUMPFILE |-> 9]]
Enumerator(o) == CASE o = "-image"     -> "IMAGE_FILE"   [] o = "-dtb"      -> "DTB_FILE"
                   [] o = "-imageaddr" -> "IMAGE_LDADDR" [] o = "-dtbaddr"  -> "DTB_LDADDR"
                   [] o = "-cssfile"   -> "CCSFILE"      [] o = "-nonce"    -> "NONCE"
                   [] o = "-key"       -> "KEY"          [] o = "-out"      -> "OUTPUT"
                   [] o = "-sig"       -> "SIG"          [] o = "-unsigned" -> "UNSIGNED"
                   [] o = "-ccsfile"   -> "CCSFILE"      [] o = "-dumpfile" -> "DUMPFILE"
Place(t, o) == file_path_t[t][Enumerator(o)]

\* The caller's array, const char *path[8] in both programs, and the memory
\* behind it as far as the longer table goes.
Rows  == 8
Reach == 10
Empty == [i \in 0 .. Reach - 1 |-> IF i < Rows THEN NoPath ELSE Behind]

VARIABLES tool,         \* the program that was called
          argv,         \* the words read so far, the program's name left out
          value,        \* what the table of the command holds
          ret,          \* what was returned, "none" before
          mode,         \* "help" (-1, also before) or a command
          path          \* the caller's array and what lies behind it

Option == Range(Options[tool])
Command == DOMAIN Flag[tool]

lineVars == <<tool, argv, value, ret, mode, path>>

LineInit == /\ tool \in Tool /\ argv = <<>> /\ value = [o \in Option |-> NoPath]
            /\ ret = "none" /\ mode = "help" /\ path = Empty

Give(r) == ret' = r /\ UNCHANGED <<tool, value, mode, path>>
command == argv[1]
Reading == ret = "none" /\ argv # <<>>

\* The first word.
NoCommand == argv = <<>> /\ ret = "none" /\ Give("false") /\ UNCHANGED argv
Help == /\ argv = <<>> /\ ret = "none"
        /\ argv' = <<"-help">> /\ ret' = "true" /\ mode' = "help"
        /\ UNCHANGED <<tool, value, path>>
UnknownCommand == argv = <<>> /\ ret = "none" /\ argv' = <<"?">> /\ Give("false")
MatchCommand == /\ argv = <<>> /\ ret = "none"
                /\ \E c \in Command : argv' = <<c>>
                /\ UNCHANGED <<tool, value, ret, mode, path>>

\* One turn of the loop over the other words.
TakeOption(o, v) == /\ Reading /\ value[o] = NoPath
                    /\ argv' = argv \o <<o, v>> /\ value' = [value EXCEPT ![o] = v]
                    /\ UNCHANGED <<tool, ret, mode, path>>
Repeated(o, v) == Reading /\ value[o] # NoPath /\ argv' = argv \o <<o, v>> /\ Give("false")
\* The option is the last word, or another word with a "-" follows.
NoValue(o) == Reading /\ argv' \in {argv \o <<o>>, argv \o <<o, "-image">>} /\ Give("false")
UnknownOption == Reading /\ argv' = argv \o <<"?">> /\ Give("false")

\* No words are left: the flags, then the paths are compared.
FlagsKept == \A o \in Option :
               /\ Flag[tool][command][o] = PAR_REQUIRED => value[o] # NoPath
               /\ Flag[tool][command][o] = PAR_INVALID  => value[o] = NoPath
\* Mutant: only options next to each other in the table are compared.
NeighboursDiffer == \A i \in 1 .. Len(Options[tool]) - 1 :
                      value[Options[tool][i]] # NoPath => value[Options[tool][i]] # value[Options[tool][i+1]]
PathsDiffer == \A i \in 1 .. Len(Options[tool]) : \A j \in i + 1 .. Len(Options[tool]) :
                 value[Options[tool][i]] # NoPath => value[Options[tool][i]] # value[Options[tool][j]]

Refuse == Reading /\ ~(FlagsKept /\ PathsDiffer) /\ Give("false") /\ UNCHANGED argv

\* Every row of the table is written, those too that the array does not have.
\* Mutant: the options that were not given leave no gap.
Packed == LET given == SelectSeq(Options[tool], LAMBDA o : value[o] # NoPath)
          IN  [i \in 0 .. Len(Options[tool]) - 1 |-> IF i < Len(given) THEN value[given[i+1]] ELSE NoPath]
Written == [i \in 0 .. Len(Options[tool]) - 1 |-> value[Options[tool][i+1]]]

Accept == /\ Reading /\ FlagsKept /\ PathsDiffer
          /\ path' = [i \in DOMAIN path |-> IF i \in DOMAIN Written THEN Written[i] ELSE path[i]]
          /\ ret' = "true" /\ mode' = command
          /\ UNCHANGED <<tool, argv, value>>

LineNext ==
  \/ NoCommand \/ Help \/ UnknownCommand \/ MatchCommand
  \/ \E o \in Option, v \in Paths : TakeOption(o, v) \/ Repeated(o, v)
  \/ \E o \in Option : NoValue(o)
  \/ UnknownOption \/ Refuse \/ Accept

LineSpec == LineInit /\ [][LineNext]_lineVars

-----------------------------------------------------------------------------
\* A command line the usage text describes: a command, then options each with
\* its path, none twice, every required one, none the command does not know,
\* and no path twice.
Pairs == (Len(argv) - 1) \div 2
Named(k) == argv[2 * k]
WellFormed ==
  /\ argv # <<>> /\ argv[1] \in Command /\ Len(argv) % 2 = 1
  /\ \A k \in 1 .. Pairs : Named(k) \in Option /\ argv[2 * k + 1] \in Paths
  /\ \A k, n \in 1 .. Pairs : k # n => Named(k) # Named(n) /\ argv[2 * k + 1] # argv[2 * n + 1]
  /\ LET given == {Named(k) : k \in 1 .. Pairs}
     IN  /\ {o \in Option : Flag[tool][argv[1]][o] = PAR_REQUIRED} \subseteq given
         /\ \A o \in given : Flag[tool][argv[1]][o] # PAR_INVALID

\* The parser takes exactly the command lines of the usage text, in whatever
\* order the options come, and the request for help.
AcceptsTheUsage == ret # "none" => (ret = "true" <=> WellFormed \/ argv = <<"-help">>)

\* When a line is accepted the caller reads, under the enumerator of an option,
\* the word that followed that option, although the parser only knows the order
\* of its tables: also under the two enumerators of sign_tool whose rows lie
\* behind its array.  No other row changes, and none when the line is refused.
Typed(o) == IF \E k \in 1 .. Pairs : Named(k) = o
            THEN argv[2 * (CHOOSE k \in 1 .. Pairs : Named(k) = o) + 1] ELSE NoPath
Delivered == ret = "true" /\ mode # "help"
PathsAsTyped ==
  /\ Delivered => \A o \in Option : path[Place(tool, o)] = Typed(o)
  /\ \A i \in 0 .. Reach - 1 :
       ~Delivered \/ (\A o \in Option : Place(tool, o) # i) => path[i] = Empty[i]
=============================================================================

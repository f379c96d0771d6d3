------------------------------- MODULE Config -------------------------------
(***************************************************************************)
(* The configuration: config_parse_file of config.c reads record.config    *)
(* into a dictionary, from which acceptor_init takes the port to listen    *)
(* on.                                                                     *)
(*                                                                         *)
(* The file is a sequence of lines.  Of a line remains what the parser     *)
(* tells apart: whether it has no character at all, starts with '#', or    *)
(* neither; its words; and whether anything, a word or a second blank,     *)
(* follows the blank after the third word.  `line' and `nextln' are the    *)
(* pointers of those names, as numbers of lines; Len(file) + 1 is the '\0' *)
(* at the end.  A newline at the end of the file starts no line.           *)
(*                                                                         *)
(* The record made from a line is the number of the line.  What os_atoi    *)
(* and atof make of its third word is left out; allocation and read()      *)
(* succeed.                                                                *)
(***************************************************************************)
EXTENDS Dict

CONSTANTS
  Word,    \* the words in the files, the names among them
  Files,   \* the files to start with
  Listen   \* "net.tcp.listen"

Line == [text : {"empty", "comment", "words"}, words : Seq(Word), more : BOOLEAN]

ASSUME ConfigAssumption ==
  /\ Listen \in Key /\ Key \subseteq Word
  /\ Files \subseteq Seq(Line)
  /\ \A f \in Files : \A i \in 1 .. Len(f) : f[i].words # <<>> => f[i].words[1] \in Key

VARIABLES
  file,    \* its lines
  pc,      \* "open", "loop", "crashed", "stopped", "parsed", or "listening"
  line,    \* the line that is parsed
  nextln,  \* what strtok_r has left for its next call
  port     \* the record that gives the port, 0 for DEF_SERVER_PORT

parseVars == <<file, line, nextln>>
vars == <<file, pc, line, nextln, port, dictVars>>

Init ==
  /\ file \in Files
  /\ pc = "open" /\ line = 1 /\ nextln = 1 /\ port = 0
  /\ DictInit

-----------------------------------------------------------------------------
EndOfFile == Len(file) + 1

(* The first line from n on that has a character, or the end of the file. *)
TextFrom(n) ==
  Min({m \in n .. Len(file) : file[m].text # "empty"} \cup {EndOfFile})

(* strtok_r(.., "\n", ..) called at line n: the line it leaves. *)
AfterToken(n) == IF TextFrom(n) = EndOfFile THEN EndOfFile ELSE TextFrom(n) + 1

(* A slip: the end of the file is not looked for. *)
IterPastEnd == line' = nextln /\ nextln' = TextFrom(nextln) + 1

(* iter_to_next_line, whose strtok_r already passes the line that it moves *)
(* to.                                                                     *)
IterToNextLine == line' = nextln /\ nextln' = AfterToken(nextln)

(* config_init fails. *)
NoFile ==
  /\ pc = "open"
  /\ pc' = "stopped"
  /\ UNCHANGED <<parseVars, port, dictVars>>

(* The first strtok_r.  It returns NULL for a file without a line, and the *)
(* condition of the loop dereferences it.                                  *)
Open ==
  /\ pc = "open"
  /\ pc' = IF TextFrom(1) = EndOfFile THEN "crashed" ELSE "loop"
  /\ line' = TextFrom(1) /\ nextln' = AfterToken(1)
  /\ UNCHANGED <<file, port, dictVars>>

(* The line after the empty ones. *)
Current == TextFrom(line)
Words == IF Current = EndOfFile THEN <<>> ELSE file[Current].words
InLoop == pc = "loop" /\ line # EndOfFile

Types == {"STRING", "INT", "FLOAT"}

Comment ==
  /\ InLoop /\ Current # EndOfFile /\ file[Current].text = "comment"
  /\ IterToNextLine
  /\ UNCHANGED <<file, pc, port, dictVars>>

Parsing == InLoop /\ (Current # EndOfFile => file[Current].text = "words")

(* record_make takes the length of the name, compares the type and copies  *)
(* or converts the value; a word that is missing is NULL.  After the last  *)
(* line, empty lines are skipped and the '\0' is parsed.                   *)
Missing ==
  \/ Len(Words) < 2
  \/ Len(Words) = 2 /\ Words[2] \in Types

Crash ==
  /\ Parsing /\ Missing
  /\ pc' = "crashed"
  /\ UNCHANGED <<parseVars, port, dictVars>>

BadType ==
  /\ Parsing /\ ~ Missing /\ Words[2] \notin Types
  /\ pc' = "stopped"
  /\ UNCHANGED <<parseVars, port, dictVars>>

(* The result of dict_add is not looked at.  Whatever follows the value     *)
(* ends the parsing after the record has been added.                        *)
Record ==
  /\ Parsing /\ ~ Missing /\ Words[2] \in Types
  /\ Add(Words[1], Current)
  /\ IF file[Current].more
     THEN pc' = "stopped" /\ UNCHANGED <<line, nextln>>
     ELSE IterToNextLine /\ UNCHANGED pc
  /\ UNCHANGED <<file, port>>

Done ==
  /\ pc = "loop" /\ line = EndOfFile
  /\ pc' = "parsed"
  /\ UNCHANGED <<parseVars, port, dictVars>>

(* acceptor_init, in the worker.  Nobody looks at what config_parse_file    *)
(* has returned.                                                            *)
GetPort ==
  /\ pc \in {"stopped", "parsed"}
  /\ port' = Find(Listen)
  /\ FindLock
  /\ pc' = "listening"
  /\ UNCHANGED <<parseVars, table, used, made, rehashing>>

Next == NoFile \/ Open \/ Comment \/ Crash \/ BadType \/ Record \/ Done \/ GetPort

Spec == Init /\ [][Next]_vars

-----------------------------------------------------------------------------
(* What the code promises *)

TypeOK ==
  /\ pc \in {"open", "loop", "crashed", "stopped", "parsed", "listening"}
  /\ line \in 1 .. EndOfFile /\ nextln \in 1 .. EndOfFile
  /\ port \in 0 .. Len(file)
  /\ table \in [{0, 1} -> [Index -> Seq(Entry)]]
  /\ used \in [{0, 1} -> Nat]
  /\ made \in BOOLEAN /\ rehashing \in BOOLEAN
  /\ readers \in 0 .. 1

(* The meaning of a file, without the parser and the dictionary: the lines *)
(* that are records, before the first line that ends the parsing.          *)
IsRecord(i) ==
  file[i].text = "words" /\ Len(file[i].words) > 2 /\ file[i].words[2] \in Types

Ends(i) == file[i].text = "words" /\ (~ IsRecord(i) \/ file[i].more)

Records == {i \in 1 .. Len(file) : IsRecord(i) /\ \A j \in 1 .. i - 1 : ~ Ends(j)}

Name(i) == file[i].words[1]
RecordsOf(k) == {i \in Records : Name(i) = k}

(* The records of other names that may be in the bucket of k in table t. *)
Rivals(t, k) == {i \in Records : Name(i) # k /\ Slot[t][Name(i)] = Slot[t][k]}

RivalBefore(i, t) == \E j \in Rivals(t, Listen) : j < i

Listening == pc = "listening" /\ nextln > 1

(***************************************************************************)
(* The port comes from the last record of its name, as long as the         *)
(* dictionary has not started a second table (config.c:191 adds without    *)
(* looking for a duplicate, dict.c:314 puts the new entry in front); after *)
(* that, it is at least a record of that name.                             *)
(***************************************************************************)
PortIsLast ==
  Listening /\ port # 0 =>
    /\ port \in RecordsOf(Listen)
    /\ ~ rehashing => \A i \in RecordsOf(Listen) : i <= port

(***************************************************************************)
(* dict.c:281 refuses a name whose bucket holds another one.  So the       *)
(* default port is taken although the file names one only if other names   *)
(* of its buckets came before each of its records.  With one table the     *)
(* port of the file is taken only if it was the first name of its bucket.  *)
(***************************************************************************)
PortFound ==
  Listening =>
    /\ port = 0 =>
         \A i \in RecordsOf(Listen) : RivalBefore(i, 0) \/ RivalBefore(i, 1)
    /\ port # 0 /\ ~ rehashing =>
         \E i \in RecordsOf(Listen) : ~ RivalBefore(i, 0)

(***************************************************************************)
(* config.c:168 "skip empty line and get a new line.": empty lines do not  *)
(* make the parser fail on a file of records and comments.                 *)
(***************************************************************************)
EmptyLinesSkipped ==
  pc = "crashed" =>
    \/ \E i \in 1 .. Len(file) : file[i].text = "words" /\ ~ IsRecord(i)
    \/ \A i \in 1 .. Len(file) : file[i].text = "empty"
=============================================================================

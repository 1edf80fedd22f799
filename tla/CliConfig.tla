----------------------------- MODULE CliConfig -----------------------------
(***************************************************************************)
(* The configuration file of the command line, ~/.agentflow/config.json    *)
(* (apps/cli/src/commands/config-command.ts), between commands that run at *)
(* the same time in several terminals, and what the API client takes from  *)
(* it (apps/cli/src/api.ts).                                               *)
(*                                                                         *)
(* A command reads the file and changes its copy; it writes the file in    *)
(* place, first truncated and then filled.  get and list only read.        *)
(***************************************************************************)
EXTENDS Naturals

CONSTANTS
  Commands,    \* processes that run "config set" or "config reset"
  Keys,        \* KNOWN_KEYS
  Values,
  None,        \* undefined
  EnvUrl       \* is AGENTFLOW_API_URL set?

ASSUME NoneAssumption == None \notin Keys \cup Values

ASSUME EnvAssumption == EnvUrl \in BOOLEAN

VARIABLES
  file,      \* "absent", "whole", or not JSON: "empty", "garbled"
  content,   \* the settings in a file that is whole
  command,   \* where each process stands: "idle", "read", "truncated"
  edit,      \* what it does: the key and value of a set, key None of a reset
  copy,      \* its object "config"
  agreed,    \* history: what the commands that came to their end add up to
  tidy       \* history: since the last reset none overlapped or was cut off

vars == <<file, content, command, edit, copy, agreed, tidy>>

Unset == [k \in Keys |-> None]

Edit == [key : Keys, value : Values] \cup [key : {None}, value : {None}]

Nothing == [key |-> None, value |-> None]

(* Mutant: the file is written anew from the one setting.                  *)
AppliedAlone(e, settings) ==
  IF e.key = None THEN Unset ELSE [Unset EXCEPT ![e.key] = e.value]

Applied(e, settings) ==
  IF e.key = None THEN Unset ELSE [settings EXCEPT ![e.key] = e.value]

Init ==
  /\ file = "absent"
  /\ content = Unset
  /\ command = [c \in Commands |-> "idle"]
  /\ edit = [c \in Commands |-> Nothing]
  /\ copy = [c \in Commands |-> Unset]
  /\ agreed = Unset
  /\ tidy = TRUE

(* A file that is missing or does not parse counts as empty.               *)
ReadConfig == IF file = "whole" THEN content ELSE Unset

Alone(c) == \A d \in Commands \ {c} : command[d] = "idle"

Begin(c, e) ==
  /\ command[c] = "idle"
  /\ command' = [command EXCEPT ![c] = "read"]
  /\ edit' = [edit EXCEPT ![c] = e]
  /\ copy' = [copy EXCEPT ![c] = Applied(e, ReadConfig)]
  /\ tidy' = (tidy /\ Alone(c))
  /\ UNCHANGED <<file, content, agreed>>

(* An unknown key is refused before anything is read.                      *)
ConfigSet(c) == \E e \in Edit : e.key # None /\ Begin(c, e)

ConfigReset(c) == file # "absent" /\ Begin(c, Nothing)

(* The process is gone.                                                    *)
Over(c) ==
  /\ command' = [command EXCEPT ![c] = "idle"]
  /\ edit' = [edit EXCEPT ![c] = Nothing]
  /\ copy' = [copy EXCEPT ![c] = Unset]

(* writeFileSync opens the file.                                           *)
Truncate(c) ==
  /\ command[c] = "read"
  /\ command' = [command EXCEPT ![c] = "truncated"]
  /\ file' = "empty"
  /\ content' = Unset
  /\ UNCHANGED <<edit, copy, agreed, tidy>>

(* ... and fills it.  If another process has done so since, the end of its *)
(* text may be left behind the new one, which then is not JSON.            *)
Fill(c) ==
  /\ command[c] = "truncated"
  /\ \/ file' = "whole" /\ content' = copy[c]
     \/ file # "empty" /\ file' = "garbled" /\ content' = Unset
  /\ Over(c)
  /\ agreed' = [k \in Keys |-> IF edit[c].key \in {k, None} THEN edit[c].value ELSE agreed[k]]
  /\ tidy' = (tidy \/ (edit[c].key = None /\ Alone(c) /\ file' = "whole"))

(* The process is interrupted, or the disk is full: nothing or a part of   *)
(* the text has been written.                                              *)
CutOff(c) ==
  /\ command[c] # "idle"
  /\ Over(c)
  /\ \/ UNCHANGED <<file, content>>
     \/ command[c] = "truncated" /\ file' = "garbled" /\ content' = Unset
  /\ tidy' = (tidy /\ command[c] = "read")
  /\ UNCHANGED agreed

Next ==
  \E c \in Commands :
     ConfigSet(c) \/ ConfigReset(c) \/ Truncate(c) \/ Fill(c) \/ CutOff(c)

(* loadConfig: the address the API client is made with, which is the       *)
(* environment's or apiUrl of the file.  No known key is called that, so   *)
(* a file that parses leaves the client without an address.                *)
Address ==
  IF EnvUrl THEN "environment" ELSE IF file = "whole" THEN "undefined" ELSE "default"

-----------------------------------------------------------------------------
(* Type correctness, and content is empty unless there is a whole file.    *)
TypeOK ==
  /\ file \in {"absent", "empty", "garbled", "whole"}
  /\ content \in [Keys -> Values \cup {None}]
  /\ file # "whole" => content = Unset
  /\ command \in [Commands -> {"idle", "read", "truncated"}]
  /\ edit \in [Commands -> Edit]
  /\ copy \in [Commands -> [Keys -> Values \cup {None}]]
  /\ agreed \in [Keys -> Values \cup {None}]
  /\ tidy \in BOOLEAN

(* The commands add up: as long as none overlapped another or was cut off  *)
(* while it wrote, the file says what they set, one after the other, and a *)
(* reset makes up for all earlier mishaps.                                 *)
CommandsAddUp ==
  tidy /\ (\A c \in Commands : command[c] # "truncated") => ReadConfig = agreed
=============================================================================

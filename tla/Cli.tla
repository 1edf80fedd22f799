-------------------------------- MODULE Cli --------------------------------
(***************************************************************************)
(* The command line at work: config commands in every terminal, and in     *)
(* one of them also the commands that last, chat, logs and docker, and the *)
(* one-shot requests to the gateway.  They meet in the configuration file, *)
(* which a chat reads anew for every question and every poll.              *)
(***************************************************************************)
EXTENDS CliConfig

CONSTANTS
  Terminal,      \* the terminal where chat, logs, docker and requests run
  MaxAttempts,
  MaxQuestions,
  MaxText

ASSUME TerminalAssumption == Terminal \in Commands

ASSUME BoundsAssumption ==
  MaxAttempts \in Nat \ {0} /\ MaxQuestions \in Nat /\ MaxText \in Nat

VARIABLES
  chat, input, attempts, run, questions,          \* see CliChat
  logs, text, buffer, printed,                    \* see LogsStream
  docker, asked, containers, built,               \* see CliDocker
  request     \* a one-shot request: "none", "get", "repeated", "post"

Chat == INSTANCE CliChat WITH address <- Address

Logs == INSTANCE LogsStream

Docker == INSTANCE CliDocker

configVars == vars
chatVars == <<chat, input, attempts, run, questions>>
logsVars == <<logs, text, buffer, printed>>
dockerVars == <<docker, asked, containers, built>>
cliVars == <<configVars, chatVars, logsVars, dockerVars, request>>

CliInit ==
  Init /\ Chat!ChatInit /\ Logs!LogsInit /\ Docker!DockerInit /\ request = "none"

(* A command of one request makes its client and sends it within a try.    *)
SendRequest(method) ==
  /\ request = "none"
  /\ Address # "undefined"
  /\ request' = method

(* agent list, agent status                                                *)
Read == SendRequest("get")

(* agent run; a second one is a second run.                                *)
Run == SendRequest("post")

(* memory search with a query.                                             *)
Search == SendRequest("post")

(* The answer or the error is shown; ky repeats a GET that failed, once.   *)
RequestDone ==
  /\ request # "none"
  /\ request' = "none"

RequestRepeated == request = "get" /\ request' = "repeated"

(* A terminal has one command in the foreground.                           *)
OneAtATime ==
  LET busy == {i \in 1 .. 5 :
                 <<command[Terminal] # "idle", chat \notin {"off", "crashed"},
                   logs # "off", docker # "off", request # "none">>[i]}
  IN  \A i, j \in busy : i = j

ConfigStep ==
  Next /\ UNCHANGED <<chatVars, logsVars, dockerVars, request>>

ChatStep ==
  Chat!ChatStep /\ UNCHANGED <<configVars, logsVars, dockerVars, request>>

LogsStep ==
  Logs!LogsStep /\ UNCHANGED <<configVars, chatVars, dockerVars, request>>

DockerStep ==
  Docker!DockerStep /\ UNCHANGED <<configVars, chatVars, logsVars, request>>

RequestStep ==
  /\ Read \/ Run \/ Search \/ RequestDone \/ RequestRepeated
  /\ UNCHANGED <<configVars, chatVars, logsVars, dockerVars>>

CliNext ==
  /\ ConfigStep \/ ChatStep \/ LogsStep \/ DockerStep \/ RequestStep
  /\ OneAtATime'

Spec == CliInit /\ [][CliNext]_cliVars

(* The requests and the pauses of a chat come to an end by themselves.     *)
FairSpec == Spec /\ WF_cliVars(ChatStep /\ Chat!ChatGoesOn)

-----------------------------------------------------------------------------
CliTypeOK ==
  /\ TypeOK
  /\ chat \in {"off", "prompt", "posting", "polling", "pausing", "crashed"}
  /\ input \in {"open", "closed"}
  /\ attempts \in 0 .. MaxAttempts - 1
  /\ run \in {"none", "queued", "running"} \cup Chat!Over
  /\ questions \in 0 .. MaxQuestions
  /\ logs \in {"off", "connecting", "reading"}
  /\ docker \in {"off", "up", "down", "build", "logs", "ps", "success", "failure"}
  /\ asked \in Docker!Subcommands \cup {"none"}
  /\ containers \in {"none", "latest", "older"} /\ built \in BOOLEAN
  /\ request \in {"none", "get", "repeated", "post"}

PrintedAreLines == Logs!PrintedAreLines

RebuiltIsRunning == Docker!RebuiltIsRunning

(* Every question of a chat comes to an end, whatever the gateway answers  *)
(* or fails to, the worker does or never does, and others do to the file:  *)
(* there is another prompt, or the process is over.                        *)
QuestionsEnd ==
  chat \in {"posting", "polling", "pausing"} ~> chat \in {"prompt", "off", "crashed"}
=============================================================================

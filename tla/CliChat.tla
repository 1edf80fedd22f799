------------------------------ MODULE CliChat ------------------------------
(***************************************************************************)
(* agentflow agent chat (apps/cli/src/commands/agent-commands.ts): read a  *)
(* question, start a run for it, poll the run until it is over, ask again. *)
(* There is one promise chain per question; what goes wrong in it leads to *)
(* the next question, what goes wrong outside of it ends the process.      *)
(***************************************************************************)
EXTENDS Naturals

CONSTANTS
  MaxAttempts,   \* maxAttempts of pollRun
  MaxQuestions   \* bound: questions in a session

VARIABLES
  address,    \* what getApiClient would find: see CliConfig!Address
  chat,       \* "off", "prompt", "posting", "polling", "pausing", "crashed"
  input,      \* is standard input "open" or "closed"?
  attempts,   \* i of pollRun
  run,        \* status of the run of the question, kept by the gateway
  questions   \* questions asked

Over == {"completed", "failed", "cancelled"}

ChatInit ==
  /\ chat = "off"
  /\ input = "open"
  /\ attempts = 0
  /\ run = "none"
  /\ questions = 0

StartChat ==
  /\ chat \in {"off", "crashed"}
  /\ chat' = "prompt"
  /\ input' = "open"
  /\ questions' = 0
  /\ UNCHANGED <<attempts, run>>

(* rl.question throws once the interface is closed.  In the chain of a     *)
(* question that is caught, and the handler asks, and throws, again: the   *)
(* rejection is nobody's.                                                  *)
AskQuestion ==
  /\ chat' = IF input = "open" THEN "prompt" ELSE "crashed"
  /\ attempts' = 0
  /\ run' = "none"

(* Without an address the request cannot even be built: ky throws from     *)
(* api.post itself, before there is a promise to catch it.                 *)
Ask ==
  /\ chat = "prompt" /\ questions < MaxQuestions
  /\ questions' = questions + 1
  /\ chat' = IF address = "undefined" THEN "crashed" ELSE "posting"
  /\ UNCHANGED <<input, attempts, run>>

SayExit ==
  /\ chat = "prompt"
  /\ chat' = "off"
  /\ UNCHANGED <<input, attempts, run, questions>>

(* Control-D or Control-C.  At the prompt nothing is left to wait for; the *)
(* chain of a question goes on.                                            *)
EndOfInput ==
  /\ chat \in {"prompt", "posting", "polling", "pausing"} /\ input = "open"
  /\ input' = "closed"
  /\ chat' = IF chat = "prompt" THEN "off" ELSE chat
  /\ UNCHANGED <<attempts, run, questions>>

(* pollRun makes a client of its own: the file may have changed.           *)
PostAnswered ==
  /\ chat = "posting"
  /\ \/ address = "undefined" /\ AskQuestion
     \/ address # "undefined" /\ chat' = "polling" /\ run' = "queued" /\ UNCHANGED attempts
  /\ UNCHANGED <<input, questions>>

(* The post is refused, does not arrive, or is not answered in 30 s, and   *)
(* there may be a run or not; or a poll is.                                *)
RequestFails ==
  /\ chat \in {"posting", "polling"}
  /\ AskQuestion
  /\ UNCHANGED <<input, questions>>

(* A cancelled run is not known to be over.                                *)
PollAnswered ==
  /\ chat = "polling"
  /\ \/ run \in {"completed", "failed"} /\ AskQuestion
     \/ run \notin {"completed", "failed"} /\ chat' = "pausing" /\ UNCHANGED <<attempts, run>>
  /\ UNCHANGED <<input, questions>>

(* Mutant: the attempts are not counted.                                   *)
PauseOverUncounted ==
  /\ chat = "pausing"
  /\ chat' = "polling"
  /\ UNCHANGED <<input, attempts, run, questions>>

(* Mutant: one poll too many.                                              *)
PauseOverLate ==
  /\ chat = "pausing"
  /\ \/ attempts = MaxAttempts /\ AskQuestion
     \/ attempts < MaxAttempts /\ chat' = "polling"
          /\ attempts' = attempts + 1 /\ UNCHANGED run
  /\ UNCHANGED <<input, questions>>

PauseOver ==
  /\ chat = "pausing"
  /\ \/ attempts + 1 = MaxAttempts /\ AskQuestion
     \/ attempts + 1 < MaxAttempts /\ chat' = "polling"
          /\ attempts' = attempts + 1 /\ UNCHANGED run
  /\ UNCHANGED <<input, questions>>

(* The worker and other clients, at the gateway.                           *)
RunGoesOn ==
  /\ \/ run = "queued" /\ run' \in {"running", "cancelled"}
     \/ run = "running" /\ run' \in Over
  /\ UNCHANGED <<chat, input, attempts, questions>>

ChatStep ==
  \/ StartChat \/ Ask \/ SayExit \/ EndOfInput
  \/ PostAnswered \/ RequestFails \/ PollAnswered \/ PauseOver
  \/ RunGoesOn

(* Requests have a timeout and the pause is a timer; the run may take for  *)
(* ever.                                                                   *)
ChatGoesOn == PostAnswered \/ RequestFails \/ PollAnswered \/ PauseOver
=============================================================================

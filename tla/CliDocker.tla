----------------------------- MODULE CliDocker -----------------------------
(***************************************************************************)
(* agentflow docker (apps/cli/src/commands/docker-command.ts): commands    *)
(* that run docker compose and say, in a message and by their exit code,   *)
(* whether that went well.  The stack itself is external.                  *)
(***************************************************************************)
EXTENDS Naturals

VARIABLES
  docker,      \* "off", the compose command that runs, "success", "failure"
  asked,       \* the subcommand
  containers,  \* "none", or their image: the one built last, or "older"
  built        \* history: this command has built an image

Subcommands == {"up", "down", "rebuild", "logs", "status"}

DockerInit ==
  /\ docker = "off"
  /\ asked = "none"
  /\ containers = "none"
  /\ built = FALSE

(* The compose command a subcommand begins with.                           *)
First(s) ==
  CASE s = "rebuild" -> "build"
    [] s = "status" -> "ps"
    [] OTHER -> s

StartDocker ==
  /\ docker = "off"
  /\ \E s \in Subcommands : asked' = s /\ docker' = First(s)
  /\ UNCHANGED <<containers, built>>

(* rebuild goes on with up, and only when the build succeeded.             *)
ComposeSucceeds ==
  /\ docker \in {"build", "up", "down", "logs", "ps"}
  /\ docker' = IF docker = "build" THEN "up" ELSE "success"
  /\ built' = (built \/ docker = "build")
  /\ containers' = CASE docker = "up" -> "latest"
                     [] docker = "down" -> "none"
                     [] docker = "build" /\ containers = "latest" -> "older"
                     [] OTHER -> containers
  /\ UNCHANGED asked

(* up and down may have done part of it.                                   *)
InPart ==
  /\ containers' \in {containers} \cup
       (IF docker \in {"up", "down"} THEN {"none", "latest"} ELSE {})
  /\ UNCHANGED <<asked, built>>

(* Mutant: a build that fails does not keep rebuild from going on.         *)
ComposeFailsOn ==
  /\ docker \in {"build", "up", "down", "logs", "ps"}
  /\ InPart
  /\ docker' = CASE docker = "build" -> "up"
                 [] docker \in {"logs", "ps"} -> "success"
                 [] OTHER -> "failure"

(* docker is missing, or compose fails.  logs and status do not look.      *)
ComposeFails ==
  /\ docker \in {"build", "up", "down", "logs", "ps"}
  /\ InPart
  /\ docker' = IF docker \in {"logs", "ps"} THEN "success" ELSE "failure"

EndDocker ==
  /\ docker \in {"success", "failure"}
  /\ docker' = "off"
  /\ asked' = "none"
  /\ built' = FALSE
  /\ UNCHANGED containers

DockerStep == StartDocker \/ ComposeSucceeds \/ ComposeFails \/ EndDocker

-----------------------------------------------------------------------------
(* A rebuild that reports success leaves containers that run the image it  *)
(* built, not one from before.                                             *)
RebuiltIsRunning ==
  asked = "rebuild" /\ docker = "success" => built /\ containers = "latest"
=============================================================================

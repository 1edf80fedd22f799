----------------------------- MODULE LogsStream -----------------------------
(***************************************************************************)
(* agentflow logs (apps/cli/src/commands/logs-command.ts): a text/event-   *)
(* stream read in chunks that respect no line, of which the lines of data  *)
(* at or above the level asked for are printed.                            *)
(*                                                                         *)
(* Text is a sequence of four kinds of pieces: "data:", a payload that is  *)
(* shown, a payload that is not (its level, or [DONE]), and the newline.   *)
(***************************************************************************)
EXTENDS Naturals, SequencesExt

CONSTANTS
  MaxText   \* bound: pieces of text in a stream

VARIABLES
  logs,      \* "off", "connecting", "reading"
  text,      \* everything read from the stream (history)
  buffer,    \* the text not yet cut into lines
  printed    \* the lines printed

Piece == {"data:", "shown", "hidden", "newline"}

Chunks == {<<p>> : p \in Piece} \cup {<<p, q>> : p, q \in Piece}

(* t.split("\n"), piece by piece.                                          *)
AddPiece(ls, p) ==
  IF p = "newline" THEN Append(ls, <<>>)
  ELSE Append(Front(ls), Append(Last(ls), p))

Lines(t) ==
  LET upTo[i \in 0 .. Len(t)] ==
        IF i = 0 THEN << <<>> >> ELSE AddPiece(upTo[i - 1], t[i])
  IN  upTo[Len(t)]

(* A payload that is no JSON is printed as it is.                          *)
Printed(line) == Len(line) > 1 /\ line[1] = "data:" /\ line[2] # "hidden"

PrintedLines(ls) ==
  LET upTo[i \in 0 .. Len(ls)] ==
        IF i = 0 THEN <<>>
        ELSE IF Printed(ls[i]) THEN Append(upTo[i - 1], ls[i]) ELSE upTo[i - 1]
  IN  upTo[Len(ls)]

LogsInit ==
  /\ logs = "off"
  /\ text = <<>>
  /\ buffer = <<>>
  /\ printed = <<>>

(* The log stream does not need the file's address: it has a default.      *)
StartLogs ==
  /\ logs = "off"
  /\ logs' = "connecting"
  /\ UNCHANGED <<text, buffer, printed>>

Connected ==
  /\ logs = "connecting"
  /\ logs' = "reading"
  /\ UNCHANGED <<text, buffer, printed>>

(* Mutant: what the last chunk ended with is forgotten.                    *)
ReadAfresh ==
  /\ logs = "reading"
  /\ \E chunk \in Chunks :
       /\ Len(text) + Len(chunk) <= MaxText
       /\ text' = text \o chunk
       /\ buffer' = Last(Lines(chunk))
       /\ printed' = printed \o PrintedLines(Front(Lines(chunk)))
  /\ UNCHANGED logs

Read ==
  /\ logs = "reading"
  /\ \E chunk \in Chunks :
       LET lines == Lines(buffer \o chunk) IN
       /\ Len(text) + Len(chunk) <= MaxText
       /\ text' = text \o chunk
       /\ buffer' = Last(lines)
       /\ printed' = printed \o PrintedLines(Front(lines))
  /\ UNCHANGED logs

(* The answer is no stream, the stream ends, or it is cut off: by the      *)
(* network, by Control-C, and in any case after five seconds, as the       *)
(* signal of the request covers its body.  The buffer is dropped.          *)
EndLogs ==
  /\ logs \in {"connecting", "reading"}
  /\ logs' = "off"
  /\ text' = <<>>
  /\ buffer' = <<>>
  /\ printed' = <<>>

LogsStep == StartLogs \/ Connected \/ Read \/ EndLogs

-----------------------------------------------------------------------------
(* Whatever the chunks, what is printed is what the whole text would have  *)
(* given, and what is kept back is its last, unfinished line.              *)
PrintedAreLines ==
  /\ printed = PrintedLines(Front(Lines(text)))
  /\ buffer = Last(Lines(text))
=============================================================================

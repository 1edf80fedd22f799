------------------------------ MODULE CliProofs ------------------------------
(***************************************************************************)
(* Proofs about Cli, for any terminals, keys and values: the type          *)
(* invariant, what overlapping config commands leave in the file, what a   *)
(* rebuild that reports success has done, and, for a stream of any length, *)
(* that the chunks it is cut into make no difference to what is printed.   *)
(***************************************************************************)
EXTENDS Cli, DataInduction

(* Without overlap there is one command under way at most, and its copy is *)
(* what the file is going to say.                                          *)
Sole ==
  \A c, d \in Commands : command[c] # "idle" /\ command[d] # "idle" => c = d

CopyIsNext ==
  \A c \in Commands : command[c] # "idle" => copy[c] = Applied(edit[c], agreed)

(* The file between the two steps of writing it.                           *)
TruncatedIsEmpty == \A c \in Commands : command[c] = "truncated" => file = "empty"

(* A reset does not depend on what was read, so that it may start afresh.  *)
ResetIsUnset ==
  \A c \in Commands :
     command[c] # "idle" /\ edit[c].key = None => copy[c] = Unset

ConfigInv ==
  /\ TypeOK
  /\ tidy => Sole /\ CopyIsNext /\ TruncatedIsEmpty
  /\ ResetIsUnset
  /\ CommandsAddUp

ChatTypes ==
  /\ chat \in {"off", "prompt", "posting", "polling", "pausing", "crashed"}
  /\ input \in {"open", "closed"}
  /\ attempts \in 0 .. MaxAttempts - 1
  /\ run \in {"none", "queued", "running"} \cup Chat!Over
  /\ questions \in 0 .. MaxQuestions

DockerTypes ==
  /\ docker \in {"off", "up", "down", "build", "logs", "ps", "success", "failure"}
  /\ asked \in Docker!Subcommands \cup {"none"}
  /\ containers \in {"none", "latest", "older"}
  /\ built \in BOOLEAN

(* A rebuild runs build and then up, and goes on only with an image.       *)
RebuildInOrder ==
  asked = "rebuild" =>
     /\ docker \in {"build", "up", "success", "failure"}
     /\ docker = "up" => built

OtherTypes ==
  /\ logs \in {"off", "connecting", "reading"}
  /\ request \in {"none", "get", "repeated", "post"}

(* What was read, and the lines it is cut into: there always is one.       *)
Line == Seq(Logs!Piece)

SomeLines == Seq(Line) \ {<<>>}

LogsInv == text \in Line /\ PrintedAreLines

Inv ==
  /\ ConfigInv
  /\ ChatTypes
  /\ LogsInv
  /\ DockerTypes /\ RebuildInOrder /\ RebuiltIsRunning
  /\ OtherTypes

-----------------------------------------------------------------------------
(* The operators on settings.                                              *)

LEMMA EditKinds ==
  ASSUME NEW e \in Edit
  PROVE  /\ e.key \in Keys \cup {None} /\ e.value \in Values \cup {None}
         /\ e.key = None => e.value = None
         /\ e = [key |-> e.key, value |-> e.value]
BY NoneAssumption DEF Edit

LEMMA AppliedType ==
  ASSUME NEW e \in Edit, NEW settings \in [Keys -> Values \cup {None}]
  PROVE  Applied(e, settings) \in [Keys -> Values \cup {None}]
BY EditKinds DEF Applied, Unset

(* What a command adds to the settings is the same whether it is made one  *)
(* key at a time or by a command on its copy.                              *)
LEMMA AppliedPointwise ==
  ASSUME NEW e \in Edit, NEW settings \in [Keys -> Values \cup {None}]
  PROVE  [k \in Keys |-> IF e.key \in {k, None} THEN e.value ELSE settings[k]]
           = Applied(e, settings)
<1>1. CASE e.key = None
  BY <1>1, EditKinds DEF Applied, Unset
<1>2. CASE e.key # None
  BY <1>2, EditKinds DEF Applied
<1> QED
  BY <1>1, <1>2

LEMMA NothingIsEdit == Nothing \in Edit /\ Nothing.key = None
BY DEF Nothing, Edit

LEMMA ReadConfigType ==
  ASSUME TypeOK
  PROVE  ReadConfig \in [Keys -> Values \cup {None}]
BY DEF TypeOK, ReadConfig, Unset

-----------------------------------------------------------------------------
(* The config commands.                                                    *)

LEMMA ConfigInit == Init => ConfigInv
<1> SUFFICES ASSUME Init
             PROVE  ConfigInv
  OBVIOUS
<1>1. Unset \in [Keys -> Values \cup {None}]
  BY DEF Unset
<1>2. tidy \in BOOLEAN
  BY DEF Init
<1>3. TypeOK
  BY <1>1, <1>2, NothingIsEdit, Zenon DEF Init, TypeOK
<1> QED
  BY <1>3 DEF Init, ConfigInv, Sole, CopyIsNext, TruncatedIsEmpty, ResetIsUnset,
              CommandsAddUp, ReadConfig

LEMMA BeginInv ==
  ASSUME ConfigInv, NEW c \in Commands, NEW e \in Edit, Begin(c, e)
  PROVE  ConfigInv'
<1>1. /\ command[c] = "idle" /\ command'[c] = "read"
      /\ edit'[c] = e /\ copy'[c] = Applied(e, ReadConfig)
      /\ \A d \in Commands \ {c} :
            command'[d] = command[d] /\ edit'[d] = edit[d] /\ copy'[d] = copy[d]
      /\ UNCHANGED <<file, content, agreed>>
  BY DEF Begin, ConfigInv, TypeOK
<1>2. tidy' = (tidy /\ Alone(c))
  BY DEF Begin
<1>3. TypeOK'
  <2>1. /\ command' \in [Commands -> {"idle", "read", "truncated"}]
        /\ edit' \in [Commands -> Edit]
    BY DEF Begin, ConfigInv, TypeOK
  <2>2. Applied(e, ReadConfig) \in [Keys -> Values \cup {None}]
    BY AppliedType, ReadConfigType DEF ConfigInv
  <2>3. copy' \in [Commands -> [Keys -> Values \cup {None}]]
    BY <2>2 DEF Begin, ConfigInv, TypeOK
  <2>4. tidy' \in BOOLEAN
    BY <1>2
  <2>5. UNCHANGED Unset
    BY DEF Unset
  <2> QED
    BY <1>1, <2>1, <2>3, <2>4, <2>5, Zenon DEF ConfigInv, TypeOK
<1>4. tidy' => tidy /\ \A d \in Commands \ {c} : command[d] = "idle"
  BY <1>2, Zenon DEF Alone
<1>5. ASSUME tidy'
      PROVE  Sole' /\ CopyIsNext' /\ TruncatedIsEmpty' /\ ReadConfig' = agreed'
  <2>1. tidy /\ \A d \in Commands \ {c} : command[d] = "idle"
    BY <1>4, <1>5
  <2>2. ReadConfig = agreed
    BY <1>1, <2>1 DEF ConfigInv, CommandsAddUp
  <2>3. ReadConfig' = ReadConfig
    BY <1>1 DEF ReadConfig, Unset
  <2>4. Sole' /\ TruncatedIsEmpty'
    BY <1>1, <2>1 DEF Sole, TruncatedIsEmpty
  <2>5. CopyIsNext'
    <3>1. copy'[c] = Applied(edit'[c], agreed')
      BY <1>1, <2>2 DEF Applied, Unset
    <3> QED
      BY <1>1, <2>1, <3>1 DEF CopyIsNext
  <2> QED
    BY <1>1, <2>2, <2>3, <2>4, <2>5
<1>6. ResetIsUnset'
  <2>1. e.key = None => copy'[c] = Unset
    BY <1>1 DEF Applied
  <2> QED
    BY <1>1, <2>1 DEF ConfigInv, ResetIsUnset, Unset
<1> QED
  BY <1>3, <1>5, <1>6 DEF ConfigInv, CommandsAddUp

LEMMA TruncateInv ==
  ASSUME ConfigInv, NEW c \in Commands, Truncate(c)
  PROVE  ConfigInv'
<1>1. /\ command[c] = "read" /\ command'[c] = "truncated"
      /\ \A d \in Commands \ {c} : command'[d] = command[d]
      /\ file' = "empty" /\ content' = Unset
      /\ command' \in [Commands -> {"idle", "read", "truncated"}]
      /\ UNCHANGED <<edit, copy, agreed, tidy>>
  BY DEF Truncate, ConfigInv, TypeOK
<1>2. UNCHANGED Unset /\ Unset \in [Keys -> Values \cup {None}]
  BY DEF Unset
<1>3. TypeOK'
  BY <1>1, <1>2, Zenon DEF ConfigInv, TypeOK
<1>4. ASSUME tidy'
      PROVE  Sole' /\ CopyIsNext' /\ TruncatedIsEmpty'
  <2>1. Sole /\ CopyIsNext
    BY <1>1, <1>4 DEF ConfigInv
  <2>2. Sole' /\ TruncatedIsEmpty'
    BY <1>1, <2>1 DEF Sole, TruncatedIsEmpty
  <2>3. CopyIsNext'
    <3>1. \A d \in Commands : Applied(edit[d], agreed)' = Applied(edit[d], agreed)
      BY <1>1 DEF Applied, Unset
    <3> QED
      BY <1>1, <2>1, <3>1 DEF CopyIsNext
  <2> QED
    BY <2>2, <2>3
<1>5. ResetIsUnset'
  BY <1>1, <1>2 DEF ConfigInv, ResetIsUnset
<1>6. CommandsAddUp'
  BY <1>1 DEF CommandsAddUp
<1> QED
  BY <1>3, <1>4, <1>5, <1>6 DEF ConfigInv

(* The process of a command that is over has nothing left.                 *)
LEMMA OverEffect ==
  ASSUME TypeOK, NEW c \in Commands, Over(c)
  PROVE  /\ command'[c] = "idle"
         /\ \A d \in Commands \ {c} :
               command'[d] = command[d] /\ edit'[d] = edit[d] /\ copy'[d] = copy[d]
         /\ command' \in [Commands -> {"idle", "read", "truncated"}]
         /\ edit' \in [Commands -> Edit]
         /\ copy' \in [Commands -> [Keys -> Values \cup {None}]]
<1>1. Unset \in [Keys -> Values \cup {None}]
  BY DEF Unset
<1> QED
  BY <1>1, NothingIsEdit DEF Over, TypeOK

LEMMA OverResets ==
  ASSUME ConfigInv, NEW c \in Commands, Over(c)
  PROVE  ResetIsUnset'
BY OverEffect DEF ConfigInv, ResetIsUnset, Unset

(* A file that was truncated, and filled by its only writer, is what the   *)
(* commands add up to; a reset alone makes it so whatever came before.     *)
LEMMA FillInv ==
  ASSUME ConfigInv, NEW c \in Commands, Fill(c)
  PROVE  ConfigInv'
<1>1. /\ command[c] = "truncated" /\ Over(c)
      /\ agreed' = [k \in Keys |-> IF edit[c].key \in {k, None} THEN edit[c].value ELSE agreed[k]]
      /\ \/ file' = "whole" /\ content' = copy[c]
         \/ file # "empty" /\ file' = "garbled" /\ content' = Unset
  BY DEF Fill
<1>2. tidy' = (tidy \/ (edit[c].key = None /\ Alone(c) /\ file' = "whole"))
  BY DEF Fill
<1>3. TypeOK /\ edit[c] \in Edit /\ agreed \in [Keys -> Values \cup {None}]
  BY DEF ConfigInv, TypeOK
<1>4. agreed' = Applied(edit[c], agreed)
  BY <1>1, <1>3, AppliedPointwise
<1>5. TypeOK'
  <2>1. agreed' \in [Keys -> Values \cup {None}]
    BY <1>3, <1>4, AppliedType
  <2>2. UNCHANGED Unset /\ Unset \in [Keys -> Values \cup {None}]
    BY DEF Unset
  <2>3. /\ file' \in {"absent", "empty", "garbled", "whole"}
        /\ content' \in [Keys -> Values \cup {None}]
        /\ file' # "whole" => content' = Unset'
    BY <1>1, <1>3, <2>2 DEF TypeOK
  <2>4. tidy' \in BOOLEAN
    <3>1. tidy \in BOOLEAN
      BY <1>3 DEF TypeOK
    <3> QED
      BY <1>2, <3>1, Zenon
  <2> QED
    BY <1>1, <1>3, <2>1, <2>3, <2>4, OverEffect, Zenon DEF TypeOK
<1>6. ASSUME tidy'
      PROVE  (\A d \in Commands : command'[d] = "idle") /\ ReadConfig' = agreed'
  <2>1. CASE tidy
    <3>1. Sole /\ CopyIsNext /\ TruncatedIsEmpty
      BY <2>1 DEF ConfigInv
    <3>2. file = "empty" /\ copy[c] = Applied(edit[c], agreed)
      BY <1>1, <3>1 DEF TruncatedIsEmpty, CopyIsNext
    <3>3. \A d \in Commands : command'[d] = "idle"
      BY <1>1, <1>3, <3>1, OverEffect DEF Sole
    <3> QED
      BY <1>1, <1>4, <3>2, <3>3 DEF ReadConfig
  <2>2. CASE edit[c].key = None /\ Alone(c) /\ file' = "whole"
    <3>1. copy[c] = Unset /\ agreed' = Unset
      BY <1>1, <1>4, <2>2 DEF ConfigInv, ResetIsUnset, Applied
    <3>2. \A d \in Commands : command'[d] = "idle"
      BY <1>1, <1>3, <2>2, OverEffect DEF Alone
    <3> QED
      BY <1>1, <2>2, <3>1, <3>2 DEF ReadConfig
  <2> QED
    BY <1>2, <1>6, <2>1, <2>2, Zenon
<1>7. ResetIsUnset'
  BY <1>1, OverResets
<1>8. tidy' => Sole' /\ CopyIsNext' /\ TruncatedIsEmpty' /\ CommandsAddUp'
  BY <1>6 DEF Sole, CopyIsNext, TruncatedIsEmpty, CommandsAddUp
<1>9. CommandsAddUp'
  BY <1>6 DEF CommandsAddUp
<1> QED
  BY <1>5, <1>7, <1>8, <1>9 DEF ConfigInv

LEMMA CutOffInv ==
  ASSUME ConfigInv, NEW c \in Commands, CutOff(c)
  PROVE  ConfigInv'
<1>1. /\ command[c] # "idle" /\ Over(c) /\ UNCHANGED agreed
      /\ \/ UNCHANGED <<file, content>>
         \/ command[c] = "truncated" /\ file' = "garbled" /\ content' = Unset
  BY DEF CutOff
<1>2. tidy' = (tidy /\ command[c] = "read")
  BY DEF CutOff
<1>3. TypeOK
  BY DEF ConfigInv
<1>4. TypeOK'
  <2>1. UNCHANGED Unset /\ Unset \in [Keys -> Values \cup {None}]
    BY DEF Unset
  <2>2. /\ file' \in {"absent", "empty", "garbled", "whole"}
        /\ content' \in [Keys -> Values \cup {None}]
        /\ file' # "whole" => content' = Unset'
    BY <1>1, <1>3, <2>1 DEF TypeOK
  <2>3. tidy' \in BOOLEAN
    BY <1>2
  <2> QED
    BY <1>1, <1>3, <2>2, <2>3, OverEffect, Zenon DEF TypeOK
<1>5. ASSUME tidy'
      PROVE  (\A d \in Commands : command'[d] = "idle") /\ ReadConfig' = agreed'
  <2>1. tidy /\ command[c] = "read"
    BY <1>2, <1>5
  <2>2. \A d \in Commands \ {c} : command[d] = "idle"
    BY <1>1, <2>1 DEF ConfigInv, Sole
  <2>3. ReadConfig = agreed
    BY <2>1, <2>2 DEF ConfigInv, CommandsAddUp
  <2>4. ReadConfig' = ReadConfig
    BY <1>1, <2>1 DEF ReadConfig, Unset
  <2>5. \A d \in Commands : command'[d] = "idle"
    BY <1>1, <1>3, <2>2, OverEffect
  <2> QED
    BY <1>1, <2>3, <2>4, <2>5
<1>6. ResetIsUnset'
  BY <1>1, OverResets
<1>7. tidy' => Sole' /\ CopyIsNext' /\ TruncatedIsEmpty'
  BY <1>5 DEF Sole, CopyIsNext, TruncatedIsEmpty
<1>8. CommandsAddUp'
  BY <1>5 DEF CommandsAddUp
<1> QED
  BY <1>4, <1>6, <1>7, <1>8 DEF ConfigInv

LEMMA ConfigStays ==
  ASSUME ConfigInv, UNCHANGED configVars
  PROVE  ConfigInv'
<1>1. UNCHANGED <<file, content, command, edit, copy, agreed, tidy>>
  BY DEF configVars, vars
<1>2. UNCHANGED Unset /\ ReadConfig' = ReadConfig
  BY <1>1 DEF Unset, ReadConfig
<1>3. TypeOK'
  BY <1>1, <1>2, Zenon DEF ConfigInv, TypeOK
<1>4. \A c \in Commands : Applied(edit[c], agreed)' = Applied(edit[c], agreed)
  BY <1>1 DEF Applied, Unset
<1>5. tidy' => Sole' /\ CopyIsNext' /\ TruncatedIsEmpty'
  BY <1>1, <1>4 DEF ConfigInv, Sole, CopyIsNext, TruncatedIsEmpty
<1>6. ResetIsUnset' /\ CommandsAddUp'
  BY <1>1, <1>2 DEF ConfigInv, ResetIsUnset, CommandsAddUp
<1> QED
  BY <1>3, <1>5, <1>6 DEF ConfigInv

LEMMA ConfigNext ==
  ASSUME ConfigInv, Next
  PROVE  ConfigInv'
BY BeginInv, TruncateInv, FillInv, CutOffInv, NothingIsEdit DEF Next, ConfigSet, ConfigReset

-----------------------------------------------------------------------------
(* The commands that last.                                                 *)

(* The polls of a question are counted, and the count starts afresh.       *)
LEMMA ChatNext ==
  ASSUME ChatTypes, Chat!ChatStep
  PROVE  ChatTypes'
<1>1. /\ chat \in {"off", "prompt", "posting", "polling", "pausing", "crashed"}
      /\ input \in {"open", "closed"}
      /\ run \in {"none", "queued", "running", "completed", "failed", "cancelled"}
      /\ attempts \in 0 .. MaxAttempts - 1 /\ 0 \in 0 .. MaxAttempts - 1
      /\ questions \in 0 .. MaxQuestions /\ 0 \in 0 .. MaxQuestions
  BY BoundsAssumption DEF ChatTypes, Chat!Over
<1>2. /\ chat' \in {"off", "prompt", "posting", "polling", "pausing", "crashed"}
      /\ input' \in {"open", "closed"}
  BY <1>1 DEF Chat!ChatStep, Chat!StartChat, Chat!Ask, Chat!SayExit, Chat!EndOfInput,
       Chat!PostAnswered, Chat!RequestFails, Chat!PollAnswered, Chat!PauseOver, Chat!RunGoesOn,
       Chat!AskQuestion
<1>3. run' \in {"none", "queued", "running", "completed", "failed", "cancelled"}
  BY <1>1 DEF Chat!ChatStep, Chat!StartChat, Chat!Ask, Chat!SayExit, Chat!EndOfInput,
       Chat!PostAnswered, Chat!RequestFails, Chat!PollAnswered, Chat!PauseOver, Chat!RunGoesOn,
       Chat!AskQuestion, Chat!Over
<1>4. attempts' \in 0 .. MaxAttempts - 1
  BY <1>1, BoundsAssumption
     DEF Chat!ChatStep, Chat!StartChat, Chat!Ask, Chat!SayExit, Chat!EndOfInput,
       Chat!PostAnswered, Chat!RequestFails, Chat!PollAnswered, Chat!PauseOver, Chat!RunGoesOn,
       Chat!AskQuestion
<1>5. questions' \in 0 .. MaxQuestions
  BY <1>1, BoundsAssumption
     DEF Chat!ChatStep, Chat!StartChat, Chat!Ask, Chat!SayExit, Chat!EndOfInput,
       Chat!PostAnswered, Chat!RequestFails, Chat!PollAnswered, Chat!PauseOver, Chat!RunGoesOn,
       Chat!AskQuestion
<1> QED
  BY <1>2, <1>3, <1>4, <1>5 DEF ChatTypes, Chat!Over

DockerInv == DockerTypes /\ RebuildInOrder /\ RebuiltIsRunning

LEMMA DockerNext ==
  ASSUME DockerInv, Docker!DockerStep
  PROVE  DockerInv'
<1>1. /\ docker \in {"off", "up", "down", "build", "logs", "ps", "success", "failure"}
      /\ asked \in {"up", "down", "rebuild", "logs", "status", "none"}
      /\ containers \in {"none", "latest", "older"}
      /\ built \in BOOLEAN
      /\ asked = "rebuild" => docker \in {"build", "up", "success", "failure"}
      /\ asked = "rebuild" /\ docker = "up" => built = TRUE
      /\ asked = "rebuild" /\ docker = "success" => built = TRUE /\ containers = "latest"
  BY DEF DockerInv, DockerTypes, RebuildInOrder, RebuiltIsRunning, Docker!RebuiltIsRunning,
         Docker!Subcommands
<1> USE DEF DockerInv, DockerTypes, RebuildInOrder, RebuiltIsRunning, Docker!RebuiltIsRunning,
            Docker!Subcommands
<1>2. CASE Docker!StartDocker
  <2>1. PICK s \in {"up", "down", "rebuild", "logs", "status"} :
           asked' = s /\ docker' = Docker!First(s)
    BY <1>2 DEF Docker!StartDocker
  <2>2. docker' \in {"up", "down", "build", "logs", "ps"} /\ (s = "rebuild" => docker' = "build")
    BY <2>1 DEF Docker!First
  <2> QED
    BY <1>1, <1>2, <2>1, <2>2 DEF Docker!StartDocker
<1>3. CASE Docker!ComposeSucceeds
  <2>1. /\ docker \in {"build", "up", "down", "logs", "ps"} /\ asked' = asked
        /\ docker' = IF docker = "build" THEN "up" ELSE "success"
    BY <1>3 DEF Docker!ComposeSucceeds
  <2>2. /\ containers' \in {"none", "latest", "older"}
        /\ docker = "up" => containers' = "latest"
    BY <1>1, <1>3 DEF Docker!ComposeSucceeds
  <2>3. built' = (built \/ docker = "build")
    BY <1>3 DEF Docker!ComposeSucceeds
  <2>4. /\ built' \in BOOLEAN
        /\ docker = "build" => built'
        /\ built => built'
    BY <1>1, <2>3, Zenon
  <2> QED
    BY <1>1, <2>1, <2>2, <2>4
<1>4. CASE Docker!ComposeFails
  BY <1>1, <1>4 DEF Docker!ComposeFails, Docker!InPart
<1>5. CASE Docker!EndDocker
  BY <1>1, <1>5 DEF Docker!EndDocker
<1> QED
  BY <1>2, <1>3, <1>4, <1>5 DEF Docker!DockerStep

-----------------------------------------------------------------------------
(* The log stream: Lines and PrintedLines go through a sequence, so that   *)
(* what they do to a longer one is by induction, with the lemmas of        *)
(* DataInduction.                                                          *)

(* The front and the last element are those of DataInduction.              *)
LEMMA LogsFrontLast ==
  ASSUME NEW S, NEW s \in Seq(S), s # <<>>
  PROVE  /\ Logs!Front(s) \in Seq(S) /\ Logs!Last(s) \in S
         /\ s = Append(Logs!Front(s), Logs!Last(s))
BY FrontLast DEF Front, Last, Logs!Front, Logs!Last

LEMMA LogsFrontLastConcat ==
  ASSUME NEW S, NEW s \in Seq(S), NEW t \in Seq(S), t # <<>>
  PROVE  /\ s \o t # <<>>
         /\ Logs!Front(s \o t) = s \o Logs!Front(t)
         /\ Logs!Last(s \o t) = Logs!Last(t)
BY FrontLastConcat DEF Front, Last, Logs!Front, Logs!Last

(* A piece more ends the last line or lengthens it.                        *)
LEMMA AddPieceType ==
  ASSUME NEW ls \in SomeLines, NEW p \in Logs!Piece
  PROVE  Logs!AddPiece(ls, p) \in SomeLines
<1>1. ls \in Seq(Line) /\ Len(ls) > 0
  BY DEF SomeLines
<1>2. Logs!Front(ls) \in Seq(Line) /\ Logs!Last(ls) \in Line
  BY <1>1 DEF Logs!Front, Logs!Last
<1>3. <<>> \in Line /\ Append(Logs!Last(ls), p) \in Line
  BY <1>2 DEF Line
<1>4. Append(ls, <<>>) \in SomeLines
  BY <1>1, <1>3 DEF SomeLines
<1>5. Append(Logs!Front(ls), Append(Logs!Last(ls), p)) \in SomeLines
  BY <1>2, <1>3 DEF SomeLines
<1> QED
  BY <1>4, <1>5 DEF Logs!AddPiece

(* Logs!Lines(t) is what adding the pieces one by one ends with.                *)
LinesUpTo(f, t) ==
  /\ f \in [0 .. Len(t) -> SomeLines]
  /\ f[0] = << <<>> >>
  /\ \A i \in 0 .. Len(t) - 1 : f[i + 1] = Logs!AddPiece(f[i], t[i + 1])

UpToEquation(f, t) ==
  f = [i \in 0 .. Len(t) |-> IF i = 0 THEN << <<>> >> ELSE Logs!AddPiece(f[i - 1], t[i])]

LEMMA NoLine == << <<>> >> \in SomeLines
BY DEF SomeLines, Line

LEMMA LinesUpToExists ==
  ASSUME NEW t \in Line
  PROVE  \E f : LinesUpTo(f, t)
<1> DEFINE h == [q \in Nat \X SomeLines |->
                   IF q[1] < Len(t) THEN Logs!AddPiece(q[2], t[q[1] + 1]) ELSE q[2]]
<1>1. h \in [Nat \X SomeLines -> SomeLines]
  <2> SUFFICES ASSUME NEW n \in Nat, NEW ls \in SomeLines, n < Len(t)
               PROVE  Logs!AddPiece(ls, t[n + 1]) \in SomeLines
    OBVIOUS
  <2>1. t[n + 1] \in Logs!Piece
    BY DEF Line
  <2> QED
    BY <2>1, AddPieceType
<1>2. \A n \in Nat, ls \in SomeLines : n < Len(t) => h[<<n, ls>>] = Logs!AddPiece(ls, t[n + 1])
  OBVIOUS
<1>3. Len(t) \in Nat
  BY DEF Line
<1> HIDE DEF h
<1>4. PICK f : IsChain(f, Len(t), SomeLines, << <<>> >>, h)
  BY <1>1, <1>3, NoLine, ChainExists
<1>5. LinesUpTo(f, t)
  <2> SUFFICES ASSUME NEW i \in 0 .. Len(t) - 1
               PROVE  f[i + 1] = Logs!AddPiece(f[i], t[i + 1])
    BY <1>4 DEF IsChain, LinesUpTo
  <2>1. i \in Nat /\ i < Len(t) /\ f[i] \in SomeLines
    BY <1>3, <1>4 DEF IsChain
  <2>2. f[i + 1] = h[<<i, f[i]>>]
    BY <1>4 DEF IsChain
  <2> QED
    BY <1>2, <2>1, <2>2
<1> QED
  BY <1>5

(* The recursive function of Lines is such a way through the text: it is   *)
(* the only one, and LinesUpToExists says that there is one.               *)
LEMMA LinesUnfold ==
  ASSUME NEW t \in Line
  PROVE  \E f : LinesUpTo(f, t) /\ Logs!Lines(t) = f[Len(t)]
<1> DEFINE f == CHOOSE g : UpToEquation(g, t)
<1>1. Logs!Lines(t) = f[Len(t)]
  BY DEF Logs!Lines, UpToEquation
<1>2. Len(t) \in Nat
  BY DEF Line
<1>3. PICK g : LinesUpTo(g, t)
  BY LinesUpToExists
<1>4. UpToEquation(g, t)
  <2>1. ASSUME NEW i \in 1 .. Len(t)
        PROVE  g[i] = Logs!AddPiece(g[i - 1], t[i])
    <3>1. i - 1 \in 0 .. Len(t) - 1 /\ (i - 1) + 1 = i
      BY <1>2
    <3> QED
      BY <1>3, <3>1 DEF LinesUpTo
  <2>2. \A i \in 0 .. Len(t) : i = 0 \/ i \in 1 .. Len(t)
    BY <1>2
  <2> QED
    BY <1>3, <2>1, <2>2 DEF LinesUpTo, UpToEquation
<1>5. UpToEquation(f, t)
  BY <1>4
<1> HIDE DEF f
<1>6. /\ f[0] = << <<>> >>
      /\ \A i \in 0 .. Len(t) - 1 : f[i + 1] = Logs!AddPiece(f[i], t[i + 1])
  BY <1>2, <1>5 DEF UpToEquation
<1>7. \A i \in 0 .. Len(t) : f[i] = g[i]
  <2>1. f[0] = g[0]
    BY <1>3, <1>6 DEF LinesUpTo
  <2>2. ASSUME NEW i \in 0 .. Len(t) - 1, f[i] = g[i]
        PROVE  f[i + 1] = g[i + 1]
    <3>1. f[i + 1] = Logs!AddPiece(f[i], t[i + 1]) /\ g[i + 1] = Logs!AddPiece(g[i], t[i + 1])
      BY <1>3, <1>6 DEF LinesUpTo
    <3> QED
      BY <2>2, <3>1
  <2> QED
    BY <1>2, <2>1, <2>2, Agreement
<1>8. f[Len(t)] = g[Len(t)]
  BY <1>2, <1>7
<1> QED
  BY <1>1, <1>3, <1>8

LEMMA LinesType ==
  ASSUME NEW t \in Line
  PROVE  Logs!Lines(t) \in SomeLines
BY LinesUnfold DEF LinesUpTo, Line

LEMMA LinesEmpty == Logs!Lines(<<>>) = << <<>> >>
<1>1. <<>> \in Line /\ Len(<<>>) = 0
  BY DEF Line
<1>2. PICK f : LinesUpTo(f, <<>>) /\ Logs!Lines(<<>>) = f[Len(<<>>)]
  BY <1>1, LinesUnfold
<1> QED
  BY <1>1, <1>2 DEF LinesUpTo

(* A longer text is cut as the shorter one, and then its last piece added. *)
LEMMA LinesAppend ==
  ASSUME NEW t \in Line, NEW p \in Logs!Piece
  PROVE  Logs!Lines(Append(t, p)) = Logs!AddPiece(Logs!Lines(t), p)
<1> DEFINE u == Append(t, p)
<1>1. /\ u \in Line /\ Len(t) \in Nat /\ Len(u) = Len(t) + 1 /\ u[Len(t) + 1] = p
      /\ \A i \in 0 .. Len(t) - 1 : u[i + 1] = t[i + 1]
  BY DEF Line
<1> HIDE DEF u
<1>2. PICK f : LinesUpTo(f, t) /\ Logs!Lines(t) = f[Len(t)]
  BY LinesUnfold
<1>3. PICK g : LinesUpTo(g, u) /\ Logs!Lines(u) = g[Len(u)]
  BY <1>1, LinesUnfold
<1>4. ASSUME NEW i \in 0 .. Len(t) - 1, f[i] = g[i]
      PROVE  f[i + 1] = g[i + 1]
  <2>1. i \in 0 .. Len(u) - 1
    BY <1>1
  <2>2. f[i + 1] = Logs!AddPiece(f[i], t[i + 1]) /\ g[i + 1] = Logs!AddPiece(g[i], u[i + 1])
    BY <1>2, <1>3, <2>1 DEF LinesUpTo
  <2> QED
    BY <1>1, <1>4, <2>2
<1>5. f[0] = g[0]
  BY <1>2, <1>3 DEF LinesUpTo
<1>6. f[Len(t)] = g[Len(t)]
  <2>1. \A i \in 0 .. Len(t) : f[i] = g[i]
    BY <1>1, <1>4, <1>5, Agreement
  <2> QED
    BY <1>1, <2>1
<1>7. Len(t) \in 0 .. Len(u) - 1
  BY <1>1
<1>8. g[Len(u)] = Logs!AddPiece(g[Len(t)], p)
  BY <1>1, <1>3, <1>7 DEF LinesUpTo
<1> QED
  BY <1>2, <1>3, <1>6, <1>8 DEF u

(* The lines printed, likewise.                                            *)
AddLine(ls, line) == IF Logs!Printed(line) THEN Append(ls, line) ELSE ls

PrintedUpTo(f, ls) ==
  /\ f \in [0 .. Len(ls) -> Seq(Line)]
  /\ f[0] = <<>>
  /\ \A i \in 0 .. Len(ls) - 1 : f[i + 1] = AddLine(f[i], ls[i + 1])

PrintedEquation(f, ls) ==
  f = [i \in 0 .. Len(ls) |->
         IF i = 0 THEN <<>>
         ELSE IF Logs!Printed(ls[i]) THEN Append(f[i - 1], ls[i]) ELSE f[i - 1]]

LEMMA PrintedUpToExists ==
  ASSUME NEW ls \in Seq(Line)
  PROVE  \E f : PrintedUpTo(f, ls)
<1> DEFINE S == Seq(Line)
           h == [q \in Nat \X S |->
                   IF q[1] < Len(ls) THEN AddLine(q[2], ls[q[1] + 1]) ELSE q[2]]
<1>1. h \in [Nat \X S -> S]
  <2> SUFFICES ASSUME NEW n \in Nat, NEW shown \in S, n < Len(ls)
               PROVE  AddLine(shown, ls[n + 1]) \in S
    OBVIOUS
  <2>1. ls[n + 1] \in Line
    OBVIOUS
  <2> QED
    BY <2>1 DEF AddLine
<1>2. \A n \in Nat, shown \in S : n < Len(ls) => h[<<n, shown>>] = AddLine(shown, ls[n + 1])
  OBVIOUS
<1>3. Len(ls) \in Nat /\ <<>> \in S
  OBVIOUS
<1> HIDE DEF h, S
<1>4. PICK f : IsChain(f, Len(ls), S, <<>>, h)
  BY <1>1, <1>3, ChainExists
<1>5. PrintedUpTo(f, ls)
  <2>1. f \in [0 .. Len(ls) -> S] /\ f[0] = <<>>
    BY <1>4 DEF IsChain
  <2>2. ASSUME NEW i \in 0 .. Len(ls) - 1
        PROVE  f[i + 1] = AddLine(f[i], ls[i + 1])
    <3>1. i \in Nat /\ i < Len(ls) /\ f[i] \in S
      BY <1>3, <2>1
    <3>2. f[i + 1] = h[<<i, f[i]>>]
      BY <1>4 DEF IsChain
    <3> QED
      BY <1>2, <3>1, <3>2
  <2> QED
    BY <2>1, <2>2 DEF PrintedUpTo, S
<1> QED
  BY <1>5

LEMMA PrintedUnfold ==
  ASSUME NEW ls \in Seq(Line)
  PROVE  \E f : PrintedUpTo(f, ls) /\ Logs!PrintedLines(ls) = f[Len(ls)]
<1> DEFINE f == CHOOSE g : PrintedEquation(g, ls)
<1>1. Logs!PrintedLines(ls) = f[Len(ls)]
  BY DEF Logs!PrintedLines, PrintedEquation
<1>2. Len(ls) \in Nat
  OBVIOUS
<1>3. PICK g : PrintedUpTo(g, ls)
  BY PrintedUpToExists
<1>4. PrintedEquation(g, ls)
  <2>1. ASSUME NEW i \in 1 .. Len(ls)
        PROVE  g[i] = IF Logs!Printed(ls[i]) THEN Append(g[i - 1], ls[i]) ELSE g[i - 1]
    <3>1. i - 1 \in 0 .. Len(ls) - 1 /\ (i - 1) + 1 = i
      BY <1>2
    <3>2. g[i] = AddLine(g[i - 1], ls[i])
      BY <1>3, <3>1 DEF PrintedUpTo
    <3> QED
      BY <3>2 DEF AddLine
  <2>2. \A i \in 0 .. Len(ls) : i = 0 \/ i \in 1 .. Len(ls)
    BY <1>2
  <2> QED
    BY <1>3, <2>1, <2>2 DEF PrintedUpTo, PrintedEquation
<1>5. PrintedEquation(f, ls)
  BY <1>4
<1> HIDE DEF f
<1>6. /\ f[0] = <<>>
      /\ \A i \in 0 .. Len(ls) - 1 : f[i + 1] = AddLine(f[i], ls[i + 1])
  <2>1. f[0] = <<>>
    BY <1>2, <1>5 DEF PrintedEquation
  <2>2. ASSUME NEW i \in 0 .. Len(ls) - 1
        PROVE  f[i + 1] = AddLine(f[i], ls[i + 1])
    <3>1. i + 1 \in 0 .. Len(ls) /\ i + 1 # 0 /\ (i + 1) - 1 = i
      BY <1>2
    <3>2. f[i + 1] = IF Logs!Printed(ls[i + 1]) THEN Append(f[i], ls[i + 1]) ELSE f[i]
      BY <1>5, <3>1 DEF PrintedEquation
    <3> QED
      BY <3>2 DEF AddLine
  <2> QED
    BY <2>1, <2>2
<1>7. \A i \in 0 .. Len(ls) : f[i] = g[i]
  <2>1. f[0] = g[0]
    BY <1>3, <1>6 DEF PrintedUpTo
  <2>2. ASSUME NEW i \in 0 .. Len(ls) - 1, f[i] = g[i]
        PROVE  f[i + 1] = g[i + 1]
    <3>1. f[i + 1] = AddLine(f[i], ls[i + 1]) /\ g[i + 1] = AddLine(g[i], ls[i + 1])
      BY <1>3, <1>6 DEF PrintedUpTo
    <3> QED
      BY <2>2, <3>1
  <2> QED
    BY <1>2, <2>1, <2>2, Agreement
<1>8. f[Len(ls)] = g[Len(ls)]
  BY <1>2, <1>7
<1> QED
  BY <1>1, <1>3, <1>8

LEMMA PrintedEmpty == Logs!PrintedLines(<<>>) = <<>>
<1>1. <<>> \in Seq(Line) /\ Len(<<>>) = 0
  OBVIOUS
<1>2. PICK f : PrintedUpTo(f, <<>>) /\ Logs!PrintedLines(<<>>) = f[Len(<<>>)]
  BY <1>1, PrintedUnfold
<1> QED
  BY <1>1, <1>2 DEF PrintedUpTo

LEMMA PrintedType ==
  ASSUME NEW ls \in Seq(Line)
  PROVE  Logs!PrintedLines(ls) \in Seq(Line)
BY PrintedUnfold DEF PrintedUpTo

LEMMA PrintedAppend ==
  ASSUME NEW ls \in Seq(Line), NEW line \in Line
  PROVE  Logs!PrintedLines(Append(ls, line)) = AddLine(Logs!PrintedLines(ls), line)
<1> DEFINE u == Append(ls, line)
<1>1. /\ u \in Seq(Line) /\ Len(ls) \in Nat /\ Len(u) = Len(ls) + 1 /\ u[Len(ls) + 1] = line
      /\ \A i \in 0 .. Len(ls) - 1 : u[i + 1] = ls[i + 1]
  OBVIOUS
<1> HIDE DEF u
<1>2. PICK f : PrintedUpTo(f, ls) /\ Logs!PrintedLines(ls) = f[Len(ls)]
  BY PrintedUnfold
<1>3. PICK g : PrintedUpTo(g, u) /\ Logs!PrintedLines(u) = g[Len(u)]
  BY <1>1, PrintedUnfold
<1>4. ASSUME NEW i \in 0 .. Len(ls) - 1, f[i] = g[i]
      PROVE  f[i + 1] = g[i + 1]
  <2>1. i \in 0 .. Len(u) - 1
    BY <1>1
  <2>2. f[i + 1] = AddLine(f[i], ls[i + 1]) /\ g[i + 1] = AddLine(g[i], u[i + 1])
    BY <1>2, <1>3, <2>1 DEF PrintedUpTo
  <2> QED
    BY <1>1, <1>4, <2>2
<1>5. f[0] = g[0]
  BY <1>2, <1>3 DEF PrintedUpTo
<1>6. f[Len(ls)] = g[Len(ls)]
  <2>1. \A i \in 0 .. Len(ls) : f[i] = g[i]
    BY <1>1, <1>4, <1>5, Agreement
  <2> QED
    BY <1>1, <2>1
<1>7. Len(ls) \in 0 .. Len(u) - 1
  BY <1>1
<1>8. g[Len(u)] = AddLine(g[Len(ls)], line)
  BY <1>1, <1>3, <1>7 DEF PrintedUpTo
<1> QED
  BY <1>2, <1>3, <1>6, <1>8 DEF u

(* The lines printed of two batches are those of both together.            *)
LEMMA PrintedConcat ==
  ASSUME NEW ls \in Seq(Line), NEW ms \in Seq(Line)
  PROVE  Logs!PrintedLines(ls \o ms) = Logs!PrintedLines(ls) \o Logs!PrintedLines(ms)
<1> DEFINE T == {s \in Seq(Line) :
                   Logs!PrintedLines(ls \o s) = Logs!PrintedLines(ls) \o Logs!PrintedLines(s)}
<1>1. <<>> \in T
  BY PrintedEmpty, PrintedType
<1>2. ASSUME NEW s \in T, NEW x \in Line
      PROVE  Append(s, x) \in T
  <2>1. /\ s \in Seq(Line)
        /\ Logs!PrintedLines(ls \o s) = Logs!PrintedLines(ls) \o Logs!PrintedLines(s)
    OBVIOUS
  <2>2. ls \o Append(s, x) = Append(ls \o s, x) /\ ls \o s \in Seq(Line)
    BY <2>1, ConcatAppend
  <2>3. Logs!PrintedLines(ls \o Append(s, x))
          = AddLine(Logs!PrintedLines(ls) \o Logs!PrintedLines(s), x)
    BY <2>1, <2>2, PrintedAppend
  <2>4. Logs!PrintedLines(Append(s, x)) = AddLine(Logs!PrintedLines(s), x)
    BY <2>1, PrintedAppend
  <2>5. Logs!PrintedLines(ls) \in Seq(Line) /\ Logs!PrintedLines(s) \in Seq(Line)
    BY <2>1, PrintedType
  <2>6. AddLine(Logs!PrintedLines(ls) \o Logs!PrintedLines(s), x)
          = Logs!PrintedLines(ls) \o AddLine(Logs!PrintedLines(s), x)
    <3>1. Logs!PrintedLines(ls) \o Append(Logs!PrintedLines(s), x)
            = Append(Logs!PrintedLines(ls) \o Logs!PrintedLines(s), x)
      BY <2>5, ConcatAppend
    <3> QED
      BY <3>1 DEF AddLine
  <2> QED
    BY <2>1, <2>3, <2>4, <2>6
<1> HIDE DEF T
<1>3. T = Seq(Line)
  <2>1. T \in SUBSET Seq(Line)
    BY DEF T
  <2> QED
    BY <1>1, <1>2, <2>1, SequenceInduction
<1> QED
  BY <1>3 DEF T

(* The last line of a text is a text of one line.                          *)
LEMMA LastIsOneLine ==
  ASSUME NEW t \in Line
  PROVE  Logs!Lines(Logs!Last(Logs!Lines(t))) = <<Logs!Last(Logs!Lines(t))>>
<1> DEFINE T == {s \in Line : Logs!Lines(Logs!Last(Logs!Lines(s))) = <<Logs!Last(Logs!Lines(s))>>}
<1>1. <<>> \in T
  <2>1. Logs!Last(<< <<>> >>) = <<>> /\ <<>> \in Line
    BY DEF Logs!Last, Line
  <2> QED
    BY <2>1, LinesEmpty
<1>2. ASSUME NEW s \in T, NEW p \in Logs!Piece
      PROVE  Append(s, p) \in T
  <2>1. /\ s \in Line /\ Append(s, p) \in Line
        /\ Logs!Lines(Logs!Last(Logs!Lines(s))) = <<Logs!Last(Logs!Lines(s))>>
    BY DEF Line
  <2>2. Logs!Lines(Append(s, p)) = Logs!AddPiece(Logs!Lines(s), p)
    BY <2>1, LinesAppend
  <2>3. Logs!Lines(s) \in Seq(Line) /\ Logs!Lines(s) # <<>>
    BY <2>1, LinesType DEF SomeLines
  <2>4. Logs!Front(Logs!Lines(s)) \in Seq(Line) /\ Logs!Last(Logs!Lines(s)) \in Line
    BY <2>3, LogsFrontLast
  <2>5. CASE p = "newline"
    <3>1. Logs!Last(Append(Logs!Lines(s), <<>>)) = <<>>
      BY <2>3, <2>4 DEF Logs!Last, Line
    <3> QED
      BY <2>1, <2>2, <2>5, <3>1, LinesEmpty DEF Logs!AddPiece
  <2>6. CASE p # "newline"
    <3> DEFINE b == Append(Logs!Last(Logs!Lines(s)), p)
    <3>1. b \in Line
      BY <2>4 DEF Line
    <3>2. Logs!Lines(b) = Logs!AddPiece(<<Logs!Last(Logs!Lines(s))>>, p)
      BY <2>1, <2>4, LinesAppend
    <3>3. /\ Logs!Front(<<Logs!Last(Logs!Lines(s))>>) = <<>>
          /\ Logs!Last(<<Logs!Last(Logs!Lines(s))>>) = Logs!Last(Logs!Lines(s))
          /\ Append(<<>>, b) = <<b>>
      BY <2>4, <3>1 DEF Logs!Front, Logs!Last
    <3>4. Logs!Lines(b) = <<b>>
      BY <2>6, <3>2, <3>3 DEF Logs!AddPiece
    <3>5. Logs!Last(Append(Logs!Front(Logs!Lines(s)), b)) = b
      BY <2>4, <3>1 DEF Logs!Last
    <3> QED
      BY <2>1, <2>2, <2>6, <3>4, <3>5 DEF Logs!AddPiece
  <2> QED
    BY <2>5, <2>6
<1> HIDE DEF T
<1>3. T = Line
  <2>1. T \in SUBSET Line
    BY DEF T
  <2> QED
    BY <1>1, <1>2, <2>1, SequenceInduction DEF Line
<1> QED
  BY <1>3 DEF T

(* Where a text is cut, the lines before the last are settled: the rest is *)
(* found in the last line and what follows.                                *)
LEMMA LinesConcat ==
  ASSUME NEW t \in Line, NEW c \in Line
  PROVE  Logs!Lines(t \o c) = Logs!Front(Logs!Lines(t)) \o Logs!Lines(Logs!Last(Logs!Lines(t)) \o c)
<1> DEFINE F == Logs!Front(Logs!Lines(t))
           b == Logs!Last(Logs!Lines(t))
           T == {s \in Line : Logs!Lines(t \o s) = F \o Logs!Lines(b \o s)}
<1>1. Logs!Lines(t) \in Seq(Line) /\ Logs!Lines(t) # <<>>
  BY LinesType DEF SomeLines
<1>2. F \in Seq(Line) /\ b \in Line /\ Logs!Lines(t) = Append(F, b)
  BY <1>1, LogsFrontLast
<1>3. Logs!Lines(b) = <<b>>
  BY LastIsOneLine
<1> HIDE DEF F, b
<1>4. <<>> \in T
  <2>1. t \o <<>> = t /\ b \o <<>> = b /\ <<>> \in Line
    BY <1>2 DEF Line
  <2>2. F \o <<b>> = Append(F, b)
    BY <1>2
  <2> QED
    BY <1>2, <1>3, <2>1, <2>2
<1>5. ASSUME NEW s \in T, NEW p \in Logs!Piece
      PROVE  Append(s, p) \in T
  <2>1. s \in Line /\ Append(s, p) \in Line /\ Logs!Lines(t \o s) = F \o Logs!Lines(b \o s)
    BY DEF Line
  <2>2. /\ t \o Append(s, p) = Append(t \o s, p) /\ t \o s \in Line
        /\ b \o Append(s, p) = Append(b \o s, p) /\ b \o s \in Line
    <3>1. /\ t \in Seq(Logs!Piece) /\ b \in Seq(Logs!Piece) /\ s \in Seq(Logs!Piece)
          /\ t \o s \in Seq(Logs!Piece) /\ b \o s \in Seq(Logs!Piece)
      BY <1>2, <2>1 DEF Line
    <3> QED
      BY <3>1, ConcatAppend DEF Line
  <2> DEFINE ls == Logs!Lines(b \o s)
  <2>3. /\ Logs!Lines(t \o Append(s, p)) = Logs!AddPiece(F \o ls, p)
        /\ Logs!Lines(b \o Append(s, p)) = Logs!AddPiece(ls, p)
    BY <2>1, <2>2, LinesAppend
  <2>4. ls \in Seq(Line) /\ ls # <<>>
    BY <2>2, LinesType DEF SomeLines
  <2> HIDE DEF ls
  <2>5. Logs!AddPiece(F \o ls, p) = F \o Logs!AddPiece(ls, p)
    <3>1. Logs!Front(F \o ls) = F \o Logs!Front(ls) /\ Logs!Last(F \o ls) = Logs!Last(ls)
      BY <1>2, <2>4, LogsFrontLastConcat
    <3>2. Logs!Front(ls) \in Seq(Line) /\ Logs!Last(ls) \in Line
      BY <2>4, LogsFrontLast
    <3>3. <<>> \in Line /\ Append(Logs!Last(ls), p) \in Line
      BY <3>2 DEF Line
    <3>4. /\ F \o Append(ls, <<>>) = Append(F \o ls, <<>>)
          /\ F \o Append(Logs!Front(ls), Append(Logs!Last(ls), p))
               = Append(F \o Logs!Front(ls), Append(Logs!Last(ls), p))
      BY <1>2, <2>4, <3>2, <3>3, ConcatAppend
    <3> QED
      BY <3>1, <3>4 DEF Logs!AddPiece
  <2> QED
    BY <2>1, <2>3, <2>5
<1> HIDE DEF T
<1>6. T = Line
  <2>1. T \in SUBSET Line
    BY DEF T
  <2> QED
    BY <1>4, <1>5, <2>1, SequenceInduction DEF Line
<1> QED
  BY <1>6 DEF T, F, b

(* Nothing read, nothing printed, nothing kept back.                       *)
LEMMA EmptyAddsUp ==
  Logs!PrintedLines(Logs!Front(Logs!Lines(<<>>))) = <<>> /\ Logs!Last(Logs!Lines(<<>>)) = <<>>
<1>1. Logs!Front(<< <<>> >>) = <<>> /\ Logs!Last(<< <<>> >>) = <<>>
  BY DEF Logs!Front, Logs!Last
<1> QED
  BY <1>1, LinesEmpty, PrintedEmpty

LEMMA LogsInitInv == Logs!LogsInit => LogsInv
BY EmptyAddsUp DEF Logs!LogsInit, LogsInv, PrintedAreLines, Logs!PrintedAreLines, Line

(* A chunk goes on where the buffer stopped: what it completes is printed  *)
(* after what was printed, and what it leaves is the new last line.        *)
LEMMA ReadInv ==
  ASSUME LogsInv, Logs!Read
  PROVE  LogsInv'
<1>1. PICK chunk \in Logs!Chunks :
         /\ text' = text \o chunk
         /\ buffer' = Logs!Last(Logs!Lines(buffer \o chunk))
         /\ printed' = printed \o Logs!PrintedLines(Logs!Front(Logs!Lines(buffer \o chunk)))
  BY DEF Logs!Read
<1>2. chunk \in Line /\ text \in Line
  <2>1. \A p, q \in Logs!Piece : <<p>> \in Line /\ <<p, q>> \in Line
    BY DEF Line
  <2>2. text \in Line
    BY DEF LogsInv
  <2>3. CASE chunk \in {<<p>> : p \in Logs!Piece}
    <3>1. PICK p \in Logs!Piece : chunk = <<p>>
      BY <2>3
    <3> QED
      BY <2>1, <2>2, <3>1
  <2>4. CASE chunk \in {<<p, q>> : p, q \in Logs!Piece}
    <3>1. PICK p \in Logs!Piece, q \in Logs!Piece : chunk = <<p, q>>
      BY <2>4
    <3> QED
      BY <2>1, <2>2, <3>1
  <2> QED
    BY <2>3, <2>4 DEF Logs!Chunks
<1> DEFINE F == Logs!Front(Logs!Lines(text))
           ls == Logs!Lines(buffer \o chunk)
<1>3. buffer = Logs!Last(Logs!Lines(text)) /\ printed = Logs!PrintedLines(F)
  BY DEF LogsInv, PrintedAreLines, Logs!PrintedAreLines
<1>4. F \in Seq(Line) /\ buffer \in Line
  BY <1>2, <1>3, LinesType, LogsFrontLast DEF SomeLines
<1>5. Logs!Lines(text') = F \o ls
  BY <1>1, <1>2, <1>3, LinesConcat
<1>6. ls \in Seq(Line) /\ ls # <<>>
  <2>1. buffer \o chunk \in Line
    BY <1>2, <1>4 DEF Line
  <2> QED
    BY <2>1, LinesType DEF SomeLines
<1>7. text' \in Line
  BY <1>1, <1>2 DEF Line
<1> HIDE DEF F, ls
<1>8. /\ Logs!Front(Logs!Lines(text')) = F \o Logs!Front(ls)
      /\ Logs!Last(Logs!Lines(text')) = Logs!Last(ls)
  BY <1>4, <1>5, <1>6, LogsFrontLastConcat
<1>9. Logs!PrintedLines(F \o Logs!Front(ls))
        = Logs!PrintedLines(F) \o Logs!PrintedLines(Logs!Front(ls))
  BY <1>4, <1>6, LogsFrontLast, PrintedConcat
<1> QED
  BY <1>1, <1>3, <1>7, <1>8, <1>9 DEF LogsInv, PrintedAreLines, Logs!PrintedAreLines, ls

LEMMA LogsStays ==
  ASSUME LogsInv, UNCHANGED <<text, buffer, printed>>
  PROVE  LogsInv'
BY DEF LogsInv, PrintedAreLines, Logs!PrintedAreLines

LEMMA LogsNext ==
  ASSUME LogsInv, Logs!LogsStep
  PROVE  LogsInv'
<1>1. CASE Logs!StartLogs
  BY <1>1, LogsStays DEF Logs!StartLogs
<1>2. CASE Logs!Connected
  BY <1>2, LogsStays DEF Logs!Connected
<1>3. CASE Logs!Read
  BY <1>3, ReadInv
<1>4. CASE Logs!EndLogs
  BY <1>4, EmptyAddsUp
     DEF Logs!EndLogs, LogsInv, PrintedAreLines, Logs!PrintedAreLines, Line
<1> QED
  BY <1>1, <1>2, <1>3, <1>4 DEF Logs!LogsStep

-----------------------------------------------------------------------------
(* The command line as a whole: each part keeps to its own.                *)

LEMMA InvInit == CliInit => Inv
<1> SUFFICES ASSUME CliInit
             PROVE  Inv
  OBVIOUS
<1>1. ConfigInv
  BY ConfigInit DEF CliInit
<1>2. ChatTypes
  BY BoundsAssumption DEF CliInit, Chat!ChatInit, ChatTypes
<1>3. DockerTypes /\ RebuildInOrder /\ RebuiltIsRunning
  BY DEF CliInit, Docker!DockerInit, DockerTypes, RebuildInOrder, RebuiltIsRunning,
         Docker!RebuiltIsRunning
<1>4. OtherTypes
  BY DEF CliInit, Logs!LogsInit, OtherTypes
<1>5. LogsInv
  BY LogsInitInv DEF CliInit
<1> QED
  BY <1>1, <1>2, <1>3, <1>4, <1>5 DEF Inv

LEMMA DockerStays ==
  ASSUME DockerInv, UNCHANGED dockerVars
  PROVE  DockerInv'
BY DEF dockerVars, DockerInv, DockerTypes, RebuildInOrder, RebuiltIsRunning,
       Docker!RebuiltIsRunning

LEMMA ChatStays ==
  ASSUME ChatTypes, UNCHANGED chatVars
  PROVE  ChatTypes'
BY DEF chatVars, ChatTypes

LEMMA InvStep == Inv /\ [CliNext]_cliVars => Inv'
<1> SUFFICES ASSUME Inv, [CliNext]_cliVars
             PROVE  Inv'
  OBVIOUS
<1>1. ConfigInv /\ ChatTypes /\ DockerInv /\ LogsInv /\ OtherTypes
  BY DEF Inv, DockerInv
<1>2. ConfigInv'
  BY <1>1, ConfigNext, ConfigStays
     DEF CliNext, cliVars, ConfigStep, ChatStep, LogsStep, DockerStep, RequestStep
<1>3. ChatTypes'
  BY <1>1, ChatNext, ChatStays
     DEF CliNext, cliVars, ConfigStep, ChatStep, LogsStep, DockerStep, RequestStep
<1>4. DockerInv'
  BY <1>1, DockerNext, DockerStays
     DEF CliNext, cliVars, ConfigStep, ChatStep, LogsStep, DockerStep, RequestStep
<1>5. logs' \in {"off", "connecting", "reading"}
  <2>1. CASE Logs!LogsStep
    BY <2>1 DEF Logs!LogsStep, Logs!StartLogs, Logs!Connected, Logs!Read, Logs!EndLogs,
                OtherTypes, Inv
  <2>2. CASE UNCHANGED logsVars
    BY <1>1, <2>2 DEF logsVars, OtherTypes
  <2> QED
    BY <2>1, <2>2 DEF CliNext, cliVars, ConfigStep, ChatStep, LogsStep, DockerStep, RequestStep
<1>6. request' \in {"none", "get", "repeated", "post"}
  BY <1>1 DEF CliNext, cliVars, ConfigStep, ChatStep, LogsStep, DockerStep, RequestStep,
              Read, Run, Search, SendRequest, RequestDone, RequestRepeated, OtherTypes
<1>7. LogsInv'
  <2>1. CASE Logs!LogsStep
    BY <1>1, <2>1, LogsNext
  <2>2. CASE UNCHANGED logsVars
    BY <1>1, <2>2, LogsStays DEF logsVars
  <2> QED
    BY <2>1, <2>2 DEF CliNext, cliVars, ConfigStep, ChatStep, LogsStep, DockerStep, RequestStep
<1> QED
  BY <1>2, <1>3, <1>4, <1>5, <1>6, <1>7 DEF Inv, DockerInv, OtherTypes

LEMMA Invariance == Spec => []Inv
BY InvInit, InvStep, PTL DEF Spec

-----------------------------------------------------------------------------
(* Every reachable state of the command line is type correct; a chat never *)
(* counts more polls than pollRun makes.                                   *)
THEOREM TypeCorrect == Spec => []CliTypeOK
<1>1. Inv => CliTypeOK
  BY DEF Inv, ConfigInv, ChatTypes, DockerTypes, OtherTypes, CliTypeOK
<1> QED
  BY <1>1, Invariance, PTL

(* Config commands that do not overlap add up, in any number of terminals, *)
(* and a reset by itself makes up for what those that did have garbled.    *)
THEOREM ConfigCommandsAddUp == Spec => []CommandsAddUp
<1>1. Inv => CommandsAddUp
  BY DEF Inv, ConfigInv
<1> QED
  BY <1>1, Invariance, PTL

(* A rebuild that reports success has built an image, and what runs is it. *)
THEOREM RebuiltContainersRun == Spec => []RebuiltIsRunning
<1>1. Inv => RebuiltIsRunning
  BY DEF Inv
<1> QED
  BY <1>1, Invariance, PTL

(* However the network cuts a log stream into chunks, in the middle of a   *)
(* line or at its end, and however long it is: what the log command prints *)
(* is what the whole text would have given, each line once and in order,   *)
(* and what it keeps back is the last line, which is not finished.         *)
THEOREM ChunksMakeNoDifference == Spec => []PrintedAreLines
<1>1. Inv => PrintedAreLines
  BY DEF Inv, LogsInv
<1> QED
  BY <1>1, Invariance, PTL
=============================================================================

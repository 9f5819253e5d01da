------------------------------- MODULE Sdrpp -------------------------------
(***************************************************************************)
(* The commands of the SDR++ extension: sdrpp_execute_command sends a line *)
(* and reads the reply from a TCP stream, on the script's one thread.  The *)
(* first character is waited for; the reply is taken to end where, for the *)
(* first time, no further character has arrived.                           *)
(*                                                                         *)
(* The SDR++ server is not part of the repository: it answers each command *)
(* with one reply, the server may close the connection at any time, and    *)
(* the network delivers the reply's characters in order and in any pieces. *)
(* A line of a reply is one character and its line feed here, and each     *)
(* character carries the number of the command it answers, which the code  *)
(* does not see.                                                           *)
(***************************************************************************)
EXTENDS Naturals, Sequences

CONSTANT MaxCommands  \* bound: commands executed

ASSUME MaxCommandsAssumption == MaxCommands \in Nat

VARIABLES socket,    \* sdrpp->socket is set
          closed,    \* the server has closed the connection
          requests,  \* commands sent and not yet answered by the server
          stream,    \* characters sent by the server and not yet read
          arrived,   \* how many of them have arrived
          pc,        \* no command, "send", or in sdrpp_read_command_result
          command,   \* the number and kind of the last command
          buffer,    \* the line being read
          lines,     \* buffers: the lines read
          answer,    \* the last command's result, and whether it is a success
          verdict,   \* history: what the server made of the last command
          inStep     \* history: nothing was left unread or unanswered when
                     \* the last command was sent

network == <<closed, requests, stream, arrived>>
reading == <<buffer, lines>>
vars == <<socket, network, pc, command, reading, answer, verdict, inStep>>

\* Commands answered by "RPRT 0" (done) or an error, by a mode and a bandwidth,
\* and by a frequency, of two characters so that it can arrive in part.
Kinds == {"act", "mode", "freq"}

Texts == {"done", "error", "mode", "width", "high", "low", "feed"}

Char(n, text) == [of |-> n, text |-> text]

Reply(n, kind, good) ==
    CASE kind = "act"  -> << Char(n, IF good THEN "done" ELSE "error"), Char(n, "feed") >>
      [] kind = "mode" -> << Char(n, "mode"), Char(n, "feed"), Char(n, "width"), Char(n, "feed") >>
      [] kind = "freq" -> << Char(n, "high"), Char(n, "low"), Char(n, "feed") >>

NoAnswer == [lines |-> <<>>, ok |-> FALSE]

Init ==
    /\ socket = FALSE
    /\ closed = FALSE
    /\ requests = <<>>
    /\ stream = <<>>
    /\ arrived = 0
    /\ pc = "idle"
    /\ command = [num |-> 0, kind |-> "act"]
    /\ buffer = <<>>
    /\ lines = <<>>
    /\ answer = NoAnswer
    /\ verdict = "none"
    /\ inStep = TRUE

-----------------------------------------------------------------------------
\* The server and the network.

ServerAnswers ==
    /\ socket /\ ~closed
    /\ requests # <<>>
    /\ \E good \in BOOLEAN :
         /\ good \/ Head(requests).kind = "act"
         /\ stream' = stream \o Reply(Head(requests).num, Head(requests).kind, good)
         /\ verdict' = IF Head(requests).num # command.num THEN verdict
                       ELSE IF good THEN "good" ELSE "bad"
    /\ requests' = Tail(requests)
    /\ UNCHANGED <<socket, closed, arrived, pc, command, reading, answer, inStep>>

ServerCloses ==
    /\ socket /\ ~closed
    /\ closed' = TRUE
    /\ requests' = <<>>
    /\ UNCHANGED <<socket, stream, arrived, pc, command, reading, answer, verdict, inStep>>

Deliver ==
    /\ arrived < Len(stream)
    /\ arrived' = arrived + 1
    /\ UNCHANGED <<socket, closed, requests, stream, pc, command, reading, answer,
                   verdict, inStep>>

\* The client closes its socket: what was under way is gone.
CloseSocket ==
    /\ socket' = FALSE
    /\ closed' = FALSE
    /\ requests' = <<>>
    /\ stream' = <<>>
    /\ arrived' = 0

-----------------------------------------------------------------------------
\* sdrpp_connect and sdrpp_disconnect

\* A connection that is open is closed first; then connecting succeeds or fails.
Connect ==
    /\ pc = "idle"
    /\ socket' \in BOOLEAN
    /\ closed' = FALSE
    /\ requests' = <<>>
    /\ stream' = <<>>
    /\ arrived' = 0
    /\ UNCHANGED <<pc, command, reading, answer, verdict, inStep>>

\* Also what sdrpp_deinit does, after which no call is made.
Disconnect ==
    /\ pc = "idle"
    /\ CloseSocket
    /\ UNCHANGED <<pc, command, reading, answer, verdict, inStep>>

-----------------------------------------------------------------------------
\* sdrpp_execute_command

\* A command begins: a start, a query, ...
Execute(kind) ==
    /\ pc = "idle"
    /\ command.num < MaxCommands
    /\ command' = [num |-> command.num + 1, kind |-> kind]
    /\ buffer' = <<>>
    /\ lines' = <<>>
    /\ verdict' = "none"
    /\ inStep' = (stream = <<>> /\ requests = <<>>)
    /\ pc' = "send"
    /\ UNCHANGED <<socket, network, answer>>

\* SendAll succeeds, also towards a server that has closed.
Send ==
    /\ pc = "send" /\ socket
    /\ requests' = IF closed THEN requests ELSE Append(requests, command)
    /\ pc' = "first"
    /\ UNCHANGED <<socket, closed, stream, arrived, command, reading, answer, verdict, inStep>>

Text(line) == [i \in DOMAIN line |-> line[i].text]

\* The caller's reading of the result, in sdrpp_start ... sdrpp_set_vfo_frequency.
Success(kind, result) ==
    CASE kind = "act"  -> Len(result) = 1 /\ Text(result[1]) = <<"done">>
      [] kind = "mode" -> Len(result) = 2
      [] kind = "freq" -> Len(result) = 1

\* The command returns with the lines read so far.
Return ==
    /\ pc' = "idle"
    /\ answer' = [lines |-> lines, ok |-> Success(command.kind, lines)]

\* The command returns without a result, and without a connection.
Fail ==
    /\ CloseSocket
    /\ pc' = "idle"
    /\ answer' = NoAnswer

\* There is no connection or SendAll fails.
SendFails ==
    /\ pc = "send"
    /\ Fail
    /\ UNCHANGED <<command, reading, verdict, inStep>>

Receive ==
    /\ arrived > 0
    /\ stream' = Tail(stream)
    /\ arrived' = arrived - 1

\* The first character, whichever it is, begins a line.
ReadFirst ==
    /\ pc = "first"
    /\ Receive
    /\ buffer' = Append(buffer, Head(stream))
    /\ pc' = "more"
    /\ UNCHANGED <<socket, closed, requests, command, lines, answer, verdict, inStep>>

\* The server has closed and all is read, or Receive throws.
ReadFirstFails ==
    /\ pc = "first"
    /\ Fail
    /\ UNCHANGED <<command, reading, verdict, inStep>>

\* Mutant of ReadNext: the line feed is kept with its line.
ReadNextKeepsFeed ==
    /\ pc = "more"
    /\ Receive
    /\ IF Head(stream).text = "feed"
         THEN lines' = Append(lines, Append(buffer, Head(stream))) /\ buffer' = <<>>
         ELSE buffer' = Append(buffer, Head(stream)) /\ UNCHANGED lines
    /\ UNCHANGED <<socket, closed, requests, pc, command, answer, verdict, inStep>>

\* A character that has arrived is read without waiting.
ReadNext ==
    /\ pc = "more"
    /\ Receive
    /\ IF Head(stream).text = "feed"
         THEN lines' = Append(lines, buffer) /\ buffer' = <<>>
         ELSE buffer' = Append(buffer, Head(stream)) /\ UNCHANGED lines
    /\ UNCHANGED <<socket, closed, requests, pc, command, answer, verdict, inStep>>

\* Mutant of ReadEnds: the line being read is counted as well.
ReadEndsWithPart ==
    /\ pc = "more"
    /\ arrived = 0 /\ ~(closed /\ stream = <<>>)
    /\ pc' = "idle"
    /\ LET result == IF buffer = <<>> THEN lines ELSE Append(lines, buffer)
       IN  answer' = [lines |-> result, ok |-> Success(command.kind, result)]
    /\ UNCHANGED <<socket, network, command, reading, verdict, inStep>>

\* Mutant of ReadEnds: the further characters are waited for as well.
ReadEndsNever ==
    /\ pc = "more"
    /\ arrived = 0 /\ closed /\ stream = <<>>
    /\ Return
    /\ UNCHANGED <<socket, network, command, reading, verdict, inStep>>

\* No character has arrived: the reply is taken to be complete.
ReadEnds ==
    /\ pc = "more"
    /\ arrived = 0 /\ ~(closed /\ stream = <<>>)
    /\ Return
    /\ UNCHANGED <<socket, network, command, reading, verdict, inStep>>

\* The server has closed and all is read, or Receive throws: the connection is
\* given up and the command returns what it has.
ReadBreaks ==
    /\ pc = "more"
    /\ CloseSocket
    /\ Return
    /\ UNCHANGED <<command, reading, verdict, inStep>>

Next ==
    \/ ServerAnswers \/ ServerCloses \/ Deliver
    \/ Connect \/ Disconnect
    \/ \E kind \in Kinds : Execute(kind)
    \/ Send \/ SendFails
    \/ ReadFirst \/ ReadFirstFails
    \/ ReadNext \/ ReadEnds \/ ReadBreaks

Spec == Init /\ [][Next]_vars

\* The script's thread goes on, the network delivers, the server answers, and an
\* end of the stream is noticed.
Fairness ==
    /\ WF_vars(ServerAnswers)
    /\ WF_vars(Deliver)
    /\ WF_vars(Send \/ SendFails)
    /\ WF_vars(ReadFirst)
    /\ WF_vars(ReadFirstFails /\ closed /\ stream = <<>>)
    /\ WF_vars(ReadNext)
    /\ WF_vars(ReadEnds)
    /\ WF_vars(ReadBreaks /\ closed /\ stream = <<>>)

FairSpec == Spec /\ Fairness

-----------------------------------------------------------------------------
Chars == [of : Nat, text : Texts]

Commands == [num : Nat, kind : Kinds]

\* The type invariant of a client and its connection.
TypeOK ==
    /\ socket \in BOOLEAN /\ closed \in BOOLEAN /\ inStep \in BOOLEAN
    /\ requests \in Seq(Commands)
    /\ stream \in Seq(Chars)
    /\ arrived \in 0..Len(stream)
    /\ pc \in {"idle", "send", "first", "more"}
    /\ command \in Commands
    /\ buffer \in Seq(Chars)
    /\ lines \in Seq(Seq(Chars))
    /\ answer \in [lines : Seq(Seq(Chars)), ok : BOOLEAN]
    /\ verdict \in {"none", "good", "bad"}

\* The lines of the reply to command n.
Lines(n, kind) ==
    CASE kind = "act"  -> << <<Char(n, "done")>> >>
      [] kind = "mode" -> << <<Char(n, "mode")>>, <<Char(n, "width")>> >>
      [] kind = "freq" -> << <<Char(n, "high"), Char(n, "low")>> >>

\* A command sent when nothing was left unread or unanswered reports a success
\* only if the server carried it out, and returns that reply and no part of it,
\* in whatever pieces it arrived and wherever the connection broke.
OwnAnswer ==
    pc = "idle" /\ inStep /\ answer.ok =>
        verdict = "good" /\ answer.lines = Lines(command.num, command.kind)

\* And if nothing is left unread or unanswered when it returns, its result is
\* what the server made of it: a failure is reported only for a failure.
CompleteAnswer ==
    [][ReadEnds /\ inStep /\ stream = <<>> /\ requests = <<>>
         => (answer'.ok <=> verdict = "good")]_vars

\* A command that begins returns, provided the server answers.
CommandReturns == pc # "idle" ~> pc = "idle"
=============================================================================

---------------------------- MODULE SdrppProofs ----------------------------
(***************************************************************************)
(* The answers of the SDR++ extension (module Sdrpp), proved for any       *)
(* number of commands and connections and any division of the replies.     *)
(*                                                                         *)
(* A command sent when nothing was left unread or unanswered has the       *)
(* stream to itself: the invariant lists, for each kind of reply, how far  *)
(* it can have been read.                                                  *)
(***************************************************************************)
EXTENDS Sdrpp, SequenceTheorems, TLAPS

At(b, l, s) == buffer = b /\ lines = l /\ stream = s

\* How far the reply to an "act" can have been read.
ActRead ==
    LET t == Char(command.num, IF verdict = "good" THEN "done" ELSE "error")
        f == Char(command.num, "feed")
    IN  At(<<t>>, <<>>, <<f>>) \/ At(<<>>, << <<t>> >>, <<>>)

\* How far a mode and a bandwidth can have been read.
ModeRead ==
    LET m == Char(command.num, "mode")
        w == Char(command.num, "width")
        f == Char(command.num, "feed")
    IN  \/ At(<<m>>, <<>>, <<f, w, f>>)
        \/ At(<<>>, << <<m>> >>, <<w, f>>)
        \/ At(<<w>>, << <<m>> >>, <<f>>)
        \/ At(<<>>, << <<m>>, <<w>> >>, <<>>)

\* How far a frequency can have been read.
FreqRead ==
    LET h == Char(command.num, "high")
        l == Char(command.num, "low")
        f == Char(command.num, "feed")
    IN  \/ At(<<h>>, <<>>, <<l, f>>)
        \/ At(<<h, l>>, <<>>, <<f>>)
        \/ At(<<>>, << <<h, l>> >>, <<>>)

Answered ==
    /\ requests = <<>>
    /\ verdict # "none"
    /\ command.kind # "act" => verdict = "good"

Untouched == buffer = <<>> /\ lines = <<>>

Alone ==
    inStep =>
        /\ pc = "idle" => requests = <<>>
        /\ pc = "send" => Untouched /\ requests = <<>> /\ stream = <<>>
        /\ pc = "first" =>
             /\ Untouched
             /\ \/ requests \in {<<>>, <<command>>} /\ stream = <<>>
                \/ Answered /\ stream = Reply(command.num, command.kind, verdict = "good")
        /\ pc = "more" =>
             /\ Answered
             /\ command.kind = "act" => ActRead
             /\ command.kind = "mode" => ModeRead
             /\ command.kind = "freq" => FreqRead

IInv == TypeOK /\ Alone /\ OwnAnswer

-----------------------------------------------------------------------------
\* A reply is made of characters.
LEMMA ReplyType ==
  ASSUME NEW n \in Nat, NEW kind \in Kinds, NEW good \in BOOLEAN
  PROVE  Reply(n, kind, good) \in Seq(Chars)
<1> DEFINE ch(text) == Char(n, text)
<1>1. /\ ch("done") \in Chars /\ ch("error") \in Chars /\ ch("mode") \in Chars
      /\ ch("width") \in Chars /\ ch("high") \in Chars /\ ch("low") \in Chars
      /\ ch("feed") \in Chars
  BY DEF Char, Chars, Texts
<1> DEFINE verdictChar == IF good THEN ch("done") ELSE ch("error")
<1>2. verdictChar \in Chars
  BY <1>1
<1>3. CASE kind = "act"
  <2>1. Reply(n, kind, good) = <<verdictChar, ch("feed")>>
    BY <1>3 DEF Reply
  <2> HIDE DEF ch, verdictChar
  <2> QED  BY <1>1, <1>2, <2>1
<1>4. CASE kind = "mode"
  <2>1. Reply(n, kind, good) = <<ch("mode"), ch("feed"), ch("width"), ch("feed")>>
    BY <1>4 DEF Reply
  <2> HIDE DEF ch
  <2> QED  BY <1>1, <2>1
<1>5. CASE kind = "freq"
  <2>1. Reply(n, kind, good) = <<ch("high"), ch("low"), ch("feed")>>
    BY <1>5 DEF Reply
  <2> HIDE DEF ch
  <2> QED  BY <1>1, <2>1
<1> QED  BY <1>3, <1>4, <1>5 DEF Kinds

\* A new connection has nothing under way.
LEMMA NothingUnderWay ==
    <<>> \in Seq(Commands) /\ <<>> \in Seq(Chars) /\ 0 \in 0..Len(<<>>)
OBVIOUS

\* Whether a result is a success is a truth value.
LEMMA SuccessType ==
  ASSUME NEW kind \in Kinds, NEW result
  PROVE  Success(kind, result) \in BOOLEAN
BY DEF Success, Kinds

\* A single line is "done" if its character says so.
LEMMA OneLine ==
  ASSUME NEW n \in Nat, NEW text \in Texts
  PROVE  Success("act", << <<Char(n, text)>> >>) <=> text = "done"
<1> DEFINE line == <<Char(n, text)>>
<1>1. Text(line) = <<text>>
  BY DEF Text, Char
<1>2. Len(<<line>>) = 1 /\ <<line>>[1] = line
  OBVIOUS
<1>3. <<text>> = <<"done">> <=> text = "done"
  <2>1. <<text>>[1] = text /\ <<"done">>[1] = "done"
    OBVIOUS
  <2> QED  BY <2>1
<1> HIDE DEF line
<1>4. Success("act", <<line>>) <=> text = "done"
  BY <1>1, <1>2, <1>3 DEF Success
<1> QED  BY <1>4 DEF line

\* What a command that had the stream to itself returns.
LEMMA Returned ==
  ASSUME TypeOK, Alone, inStep, pc = "more"
  PROVE  /\ Success(command.kind, lines) =>
              verdict = "good" /\ lines = Lines(command.num, command.kind)
         /\ stream = <<>> => (Success(command.kind, lines) <=> verdict = "good")
<1>1. command.num \in Nat /\ command.kind \in Kinds
  BY DEF TypeOK, Commands
<1>2. Answered
  BY DEF Alone
<1>3. CASE command.kind = "act"
  <2>1. ActRead
    BY <1>3 DEF Alone
  <2>2. CASE lines = <<>>
    <3>1. ~Success(command.kind, lines)
      BY <1>3, <2>2 DEF Success
    <3>2. stream # <<>>
      BY <2>1, <2>2 DEF ActRead, At
    <3> QED  BY <3>1, <3>2
  <2>3. CASE lines # <<>>
    <3> DEFINE text == IF verdict = "good" THEN "done" ELSE "error"
    <3>1. lines = << <<Char(command.num, text)>> >>
      BY <2>1, <2>3 DEF ActRead, At
    <3>2. text \in Texts /\ (text = "done" <=> verdict = "good")
      BY DEF Texts
    <3>3. Success(command.kind, lines) <=> verdict = "good"
      BY <1>1, <1>3, <3>1, <3>2, OneLine
    <3>4. verdict = "good" => lines = Lines(command.num, command.kind)
      BY <1>3, <3>1 DEF Lines
    <3> QED  BY <3>3, <3>4
  <2> QED  BY <2>2, <2>3
<1>4. CASE command.kind = "mode"
  <2>1. ModeRead /\ verdict = "good"
    BY <1>2, <1>4 DEF Alone, Answered
  <2>2. Success(command.kind, lines) <=> Len(lines) = 2
    BY <1>4 DEF Success
  <2>3. Len(lines) = 2 <=> stream = <<>>
    BY <2>1 DEF ModeRead, At
  <2>4. Len(lines) = 2 => lines = Lines(command.num, command.kind)
    <3> DEFINE m == <<Char(command.num, "mode")>>  w == <<Char(command.num, "width")>>
    <3>1. Lines(command.num, command.kind) = <<m, w>>
      BY <1>4 DEF Lines
    <3>2. lines \in {<<>>, <<m>>, <<m, w>>}
      BY <2>1 DEF ModeRead, At
    <3> HIDE DEF m, w
    <3> QED  BY <3>1, <3>2
  <2> QED  BY <2>1, <2>2, <2>3, <2>4
<1>5. CASE command.kind = "freq"
  <2>1. FreqRead /\ verdict = "good"
    BY <1>2, <1>5 DEF Alone, Answered
  <2>2. Success(command.kind, lines) <=> Len(lines) = 1
    BY <1>5 DEF Success
  <2>3. Len(lines) = 1 <=> stream = <<>>
    BY <2>1 DEF FreqRead, At
  <2>4. Len(lines) = 1 => lines = Lines(command.num, command.kind)
    BY <1>5, <2>1 DEF FreqRead, At, Lines
  <2> QED  BY <2>1, <2>2, <2>3, <2>4
<1> QED  BY <1>1, <1>3, <1>4, <1>5 DEF Kinds

\* The initial state satisfies the invariant.
LEMMA InitIInv == Init => IInv
<1> SUFFICES ASSUME Init PROVE IInv
  OBVIOUS
<1>1. TypeOK
  <2>1. answer \in [lines : Seq(Seq(Chars)), ok : BOOLEAN]
    BY DEF Init, NoAnswer
  <2>2. command \in Commands
    BY DEF Init, Commands, Kinds
  <2>3. lines \in Seq(Seq(Chars)) /\ buffer \in Seq(Chars) /\ stream \in Seq(Chars)
    BY DEF Init
  <2>4. arrived \in 0..Len(stream)
    BY DEF Init
  <2>5. requests \in Seq(Commands)
    BY DEF Init
  <2> QED  BY <2>1, <2>2, <2>3, <2>4, <2>5 DEF Init, TypeOK
<1> QED  BY <1>1 DEF Init, IInv, Alone, OwnAnswer, NoAnswer

-----------------------------------------------------------------------------
\* The server's answer is the whole reply to the command that is alone.
LEMMA ServerAnswersIInv == IInv /\ ServerAnswers => IInv'
<1> SUFFICES ASSUME IInv, ServerAnswers PROVE IInv'
  OBVIOUS
<1> DEFINE r == Head(requests)
<1>1. r \in Commands /\ Tail(requests) \in Seq(Commands)
  BY DEF IInv, TypeOK, ServerAnswers
<1>2. PICK good \in BOOLEAN :
        /\ good \/ r.kind = "act"
        /\ stream' = stream \o Reply(r.num, r.kind, good)
        /\ verdict' = IF r.num # command.num THEN verdict
                      ELSE IF good THEN "good" ELSE "bad"
  BY DEF ServerAnswers
<1>3. r.num \in Nat /\ r.kind \in Kinds /\ good \in BOOLEAN
  BY <1>1 DEF Commands
<1>4. Reply(r.num, r.kind, good) \in Seq(Chars)
  BY <1>3, ReplyType
<1>5. stream' \in Seq(Chars) /\ Len(stream) <= Len(stream')
  BY <1>2, <1>4 DEF IInv, TypeOK
<1>6. TypeOK'
  <2>1. arrived' \in 0..Len(stream')
    BY <1>5 DEF IInv, TypeOK, ServerAnswers
  <2>2. verdict' \in {"none", "good", "bad"}
    BY <1>2 DEF IInv, TypeOK
  <2>3. requests' \in Seq(Commands)
    BY <1>1 DEF ServerAnswers
  <2> QED  BY <1>5, <2>1, <2>2, <2>3 DEF IInv, TypeOK, ServerAnswers, reading
<1>7. Alone'
  <2> SUFFICES ASSUME inStep PROVE Alone'
    BY DEF ServerAnswers, Alone
  <2>1. pc \notin {"idle", "send", "more"}
    BY DEF IInv, Alone, Answered, ServerAnswers
  <2>2. CASE pc = "first"
    <3>1. requests = <<command>> /\ stream = <<>> /\ Untouched
      BY <2>2 DEF IInv, Alone, Answered, ServerAnswers
    <3>2. r = command /\ requests' = <<>>
      BY <3>1 DEF ServerAnswers
    <3>3. stream' = Reply(command.num, command.kind, good)
      BY <1>2, <1>4, <3>1, <3>2
    <3>4. verdict' = IF good THEN "good" ELSE "bad"
      BY <1>2, <3>2
    <3>5. stream' = Reply(command.num, command.kind, verdict' = "good")
      BY <1>3, <3>3, <3>4
    <3>6. Answered'
      BY <1>2, <3>2, <3>4 DEF Answered, ServerAnswers
    <3>7. Untouched' /\ pc' = "first"
      BY <2>2, <3>1 DEF Untouched, ServerAnswers, reading
    <3>8. command' = command
      BY DEF ServerAnswers
    <3>9. stream' = Reply(command'.num, command'.kind, verdict' = "good")
      BY <3>5, <3>8
    <3> QED  BY <3>6, <3>7, <3>9 DEF Alone
  <2> QED  BY <2>1, <2>2 DEF IInv, TypeOK
<1>8. OwnAnswer'
  BY DEF IInv, Alone, OwnAnswer, ServerAnswers
<1> QED  BY <1>6, <1>7, <1>8 DEF IInv

\* A server that closes answers nothing more.
LEMMA ServerClosesIInv == IInv /\ ServerCloses => IInv'
<1> SUFFICES ASSUME IInv, ServerCloses PROVE IInv'
  OBVIOUS
<1>1. TypeOK'
  BY DEF IInv, TypeOK, ServerCloses, reading
<1>2. Alone'
  BY DEF IInv, Alone, Answered, Untouched, ActRead, ModeRead, FreqRead, At, ServerCloses, reading
<1>3. OwnAnswer'
  BY DEF IInv, OwnAnswer, ServerCloses
<1> QED  BY <1>1, <1>2, <1>3 DEF IInv

\* What has arrived does not change what was sent.
LEMMA DeliverIInv == IInv /\ Deliver => IInv'
<1> SUFFICES ASSUME IInv, Deliver PROVE IInv'
  OBVIOUS
<1>1. TypeOK'
  BY DEF IInv, TypeOK, Deliver, reading
<1>2. Alone'
  BY DEF IInv, Alone, Answered, Untouched, ActRead, ModeRead, FreqRead, At, Deliver, reading
<1>3. OwnAnswer'
  BY DEF IInv, OwnAnswer, Deliver
<1> QED  BY <1>1, <1>2, <1>3 DEF IInv

\* Between commands the connection may be replaced or closed.
LEMMA ReconnectIInv == IInv /\ (Connect \/ Disconnect) => IInv'
<1> SUFFICES ASSUME IInv, Connect \/ Disconnect PROVE IInv'
  OBVIOUS
<1>1. /\ pc = "idle" /\ socket' \in BOOLEAN /\ closed' = FALSE
      /\ requests' = <<>> /\ stream' = <<>> /\ arrived' = 0
      /\ UNCHANGED <<pc, command, reading, answer, verdict, inStep>>
  BY DEF Connect, Disconnect, CloseSocket
<1>2. TypeOK'
  BY <1>1, NothingUnderWay DEF IInv, TypeOK, reading
<1>3. Alone' /\ OwnAnswer'
  BY <1>1 DEF IInv, Alone, OwnAnswer
<1> QED  BY <1>2, <1>3 DEF IInv

\* A command that begins in step has the stream to itself.
LEMMA ExecuteIInv ==
  ASSUME IInv, NEW kind \in Kinds, Execute(kind)
  PROVE  IInv'
<1>1. command' \in Commands
  BY DEF IInv, TypeOK, Execute, Commands
<1>2. TypeOK'
  BY <1>1 DEF IInv, TypeOK, Execute, network
<1>3. Alone' /\ OwnAnswer'
  BY DEF Alone, OwnAnswer, Untouched, Execute, network
<1> QED  BY <1>2, <1>3 DEF IInv

\* The command is the only one the server has to answer.
LEMMA SendIInv == IInv /\ Send => IInv'
<1> SUFFICES ASSUME IInv, Send PROVE IInv'
  OBVIOUS
<1>1. requests' \in Seq(Commands)
  BY DEF IInv, TypeOK, Send
<1>2. TypeOK'
  BY <1>1 DEF IInv, TypeOK, Send, reading
<1>3. Alone'
  <2> SUFFICES ASSUME inStep PROVE Alone'
    BY DEF Send, Alone
  <2>1. Untouched /\ requests = <<>> /\ stream = <<>>
    BY DEF IInv, Alone, Send
  <2>2. Append(<<>>, command) = <<command>>
    OBVIOUS
  <2>3. requests' \in {<<>>, <<command>>}
    BY <2>1, <2>2 DEF Send
  <2> QED  BY <2>1, <2>3 DEF Alone, Untouched, Send, reading
<1>4. OwnAnswer'
  BY DEF OwnAnswer, Send
<1> QED  BY <1>2, <1>3, <1>4 DEF IInv

\* A command that fails leaves no connection, and no success.
LEMMA FailIInv == IInv /\ (SendFails \/ ReadFirstFails) => IInv'
<1> SUFFICES ASSUME IInv, SendFails \/ ReadFirstFails PROVE IInv'
  OBVIOUS
<1>1. /\ socket' = FALSE /\ closed' = FALSE /\ requests' = <<>> /\ stream' = <<>>
      /\ arrived' = 0 /\ pc' = "idle" /\ answer' = NoAnswer
      /\ UNCHANGED <<command, reading, verdict, inStep>>
  BY DEF SendFails, ReadFirstFails, Fail, CloseSocket
<1>2. NoAnswer \in [lines : Seq(Seq(Chars)), ok : BOOLEAN] /\ ~NoAnswer.ok
  BY DEF NoAnswer
<1>3. TypeOK'
  BY <1>1, <1>2, NothingUnderWay DEF IInv, TypeOK, reading
<1>4. Alone' /\ OwnAnswer'
  BY <1>1, <1>2 DEF Alone, OwnAnswer
<1> QED  BY <1>3, <1>4 DEF IInv

\* A character that is read is one of the stream's.
LEMMA ReceiveType ==
  ASSUME TypeOK, Receive
  PROVE  /\ Head(stream) \in Chars
         /\ stream # <<>>
         /\ stream' \in Seq(Chars)
         /\ arrived' \in 0..Len(stream')
<1>1. Len(stream) > 0 /\ stream \in Seq(Chars)
  BY DEF TypeOK, Receive
<1>2. stream # <<>>
  BY <1>1
<1> QED  BY <1>1, <1>2 DEF TypeOK, Receive

\* The first character of the reply is read.
LEMMA ReadFirstIInv == IInv /\ ReadFirst => IInv'
<1> SUFFICES ASSUME IInv, ReadFirst PROVE IInv'
  OBVIOUS
<1>1. /\ Head(stream) \in Chars /\ stream # <<>>
      /\ stream' \in Seq(Chars) /\ arrived' \in 0..Len(stream')
  BY ReceiveType DEF IInv, ReadFirst
<1>2. buffer' \in Seq(Chars)
  BY <1>1 DEF IInv, TypeOK, ReadFirst
<1>3. TypeOK'
  BY <1>1, <1>2 DEF IInv, TypeOK, ReadFirst
<1>4. Alone'
  <2> SUFFICES ASSUME inStep PROVE Alone'
    BY DEF ReadFirst, Alone
  <2>1. /\ Untouched /\ Answered
        /\ stream = Reply(command.num, command.kind, verdict = "good")
    BY <1>1 DEF IInv, Alone, ReadFirst
  <2>2. Append(<<>>, Head(stream)) = <<Head(stream)>>
    OBVIOUS
  <2>3. buffer' = <<Head(stream)>> /\ lines' = <<>> /\ stream' = Tail(stream)
    BY <2>1, <2>2 DEF Untouched, ReadFirst, Receive
  <2>4. command.kind = "act" => ActRead'
    <3> SUFFICES ASSUME command.kind = "act" PROVE ActRead'
      OBVIOUS
    <3> DEFINE t == Char(command.num, IF verdict = "good" THEN "done" ELSE "error")
               f == Char(command.num, "feed")
    <3>1. stream = <<t, f>>
      BY <2>1 DEF Reply
    <3>2. buffer' = <<t>> /\ lines' = <<>> /\ stream' = <<f>>
      BY <2>3, <3>1
    <3>3. command' = command /\ verdict' = verdict
      BY DEF ReadFirst
    <3> QED  BY <3>2, <3>3 DEF ActRead, At
  <2>5. command.kind = "mode" => ModeRead'
    <3> SUFFICES ASSUME command.kind = "mode" PROVE ModeRead'
      OBVIOUS
    <3> DEFINE m == Char(command.num, "mode")
               w == Char(command.num, "width")
               f == Char(command.num, "feed")
    <3>1. stream = <<m, f, w, f>>
      BY <2>1 DEF Reply
    <3>2. buffer' = <<m>> /\ lines' = <<>> /\ stream' = <<f, w, f>>
      BY <2>3, <3>1
    <3>3. command' = command /\ verdict' = verdict
      BY DEF ReadFirst
    <3> QED  BY <3>2, <3>3 DEF ModeRead, At
  <2>6. command.kind = "freq" => FreqRead'
    <3> SUFFICES ASSUME command.kind = "freq" PROVE FreqRead'
      OBVIOUS
    <3> DEFINE h == Char(command.num, "high")
               l == Char(command.num, "low")
               f == Char(command.num, "feed")
    <3>1. stream = <<h, l, f>>
      BY <2>1 DEF Reply
    <3>2. buffer' = <<h>> /\ lines' = <<>> /\ stream' = <<l, f>>
      BY <2>3, <3>1
    <3>3. command' = command /\ verdict' = verdict
      BY DEF ReadFirst
    <3> QED  BY <3>2, <3>3 DEF FreqRead, At
  <2>7. Answered' /\ pc' = "more" /\ command' = command
    BY <2>1 DEF Answered, ReadFirst
  <2> QED  BY <2>4, <2>5, <2>6, <2>7 DEF Alone
<1>5. OwnAnswer'
  BY DEF OwnAnswer, ReadFirst
<1> QED  BY <1>3, <1>4, <1>5 DEF IInv

\* A line feed ends the line.
LEMMA NextFeed ==
  ASSUME ReadNext, Head(stream).text = "feed"
  PROVE  stream' = Tail(stream) /\ buffer' = <<>> /\ lines' = Append(lines, buffer)
BY DEF ReadNext, Receive

\* Any other character is added to the line.
LEMMA NextOther ==
  ASSUME ReadNext, Head(stream).text # "feed"
  PROVE  stream' = Tail(stream) /\ buffer' = Append(buffer, Head(stream)) /\ lines' = lines
BY DEF ReadNext, Receive

\* A second element is appended.
LEMMA Second ==
  ASSUME NEW a, NEW b
  PROVE  Append(<<a>>, b) = <<a, b>>
<1> DEFINE S == {a, b}
<1>1. a \in S /\ b \in S
  OBVIOUS
<1> HIDE DEF S
<1>2. <<a>> \in Seq(S) /\ <<a, b>> \in Seq(S)
  BY <1>1
<1>3. Append(<<a>>, b) \in Seq(S)
  BY <1>1, <1>2
<1>4. /\ Len(Append(<<a>>, b)) = 2
      /\ Append(<<a>>, b)[1] = a /\ Append(<<a>>, b)[2] = b
  BY <1>1, <1>2
<1>5. \A i \in 1..2 : Append(<<a>>, b)[i] = <<a, b>>[i]
  <2>1. \A i \in 1..2 : i = 1 \/ i = 2
    OBVIOUS
  <2> QED  BY <1>4, <2>1
<1> QED  BY <1>2, <1>3, <1>4, <1>5, SeqEqual

\* One more character of the reply is read.
LEMMA ReadNextIInv == IInv /\ ReadNext => IInv'
<1> SUFFICES ASSUME IInv, ReadNext PROVE IInv'
  OBVIOUS
<1>1. /\ Head(stream) \in Chars /\ stream # <<>>
      /\ stream' \in Seq(Chars) /\ arrived' \in 0..Len(stream')
  BY ReceiveType DEF IInv, ReadNext
<1>2. buffer' \in Seq(Chars) /\ lines' \in Seq(Seq(Chars))
  <2>1. buffer \in Seq(Chars) /\ lines \in Seq(Seq(Chars)) /\ <<>> \in Seq(Chars)
    BY DEF IInv, TypeOK
  <2>2. Append(buffer, Head(stream)) \in Seq(Chars)
    BY <1>1, <2>1
  <2>3. Append(lines, buffer) \in Seq(Seq(Chars))
    <3> HIDE DEF Chars
    <3> QED  BY <2>1
  <2> QED  BY <2>1, <2>2, <2>3 DEF ReadNext
<1>3. TypeOK'
  BY <1>1, <1>2 DEF IInv, TypeOK, ReadNext
<1>4. Alone'
  <2> SUFFICES ASSUME inStep PROVE Alone'
    BY DEF ReadNext, Alone
  <2>1. command' = command /\ verdict' = verdict /\ pc' = "more"
    BY DEF ReadNext
  <2>2. Answered'
    BY DEF IInv, Alone, Answered, ReadNext
  <2> DEFINE n == command.num
             f == Char(n, "feed")
  <2>3. command.kind = "act" => ActRead'
    <3> SUFFICES ASSUME command.kind = "act" PROVE ActRead'
      OBVIOUS
    <3> DEFINE t == Char(n, IF verdict = "good" THEN "done" ELSE "error")
    <3>0. f.text = "feed"
      BY DEF Char
    <3>1. buffer = <<t>> /\ lines = <<>> /\ stream = <<f>>
      BY <1>1 DEF IInv, Alone, ActRead, At, ReadNext
    <3>2. stream' = Tail(<<f>>) /\ buffer' = <<>> /\ lines' = Append(<<>>, <<t>>)
      <4>1. Head(<<f>>) = f
        OBVIOUS
      <4> QED  BY <3>0, <3>1, <4>1, NextFeed
    <3>3. At(<<>>, << <<t>> >>, <<>>)'
      BY <3>2, <2>1 DEF At
    <3> QED  BY <3>3, <2>1 DEF ActRead
  <2>4. command.kind = "mode" => ModeRead'
    <3> SUFFICES ASSUME command.kind = "mode" PROVE ModeRead'
      OBVIOUS
    <3> DEFINE m == Char(n, "mode")
               w == Char(n, "width")
    <3>0. f.text = "feed" /\ w.text # "feed"
      BY DEF Char
    <3>1. \/ At(<<m>>, <<>>, <<f, w, f>>)
          \/ At(<<>>, << <<m>> >>, <<w, f>>)
          \/ At(<<w>>, << <<m>> >>, <<f>>)
      BY <1>1 DEF IInv, Alone, ModeRead, At, ReadNext
    <3>2. CASE At(<<m>>, <<>>, <<f, w, f>>)
      <4>1. Head(<<f, w, f>>) = f /\ Tail(<<f, w, f>>) = <<w, f>>
        OBVIOUS
      <4>2. buffer' = <<>> /\ lines' = Append(<<>>, <<m>>) /\ stream' = <<w, f>>
        BY <3>0, <3>2, <4>1, NextFeed DEF At
      <4>3. At(<<>>, << <<m>> >>, <<w, f>>)'
        BY <4>2, <2>1 DEF At
      <4> QED  BY <4>3 DEF ModeRead
    <3>3. CASE At(<<>>, << <<m>> >>, <<w, f>>)
      <4>1. Head(<<w, f>>) = w /\ Tail(<<w, f>>) = <<f>>
        OBVIOUS
      <4>2. buffer' = Append(<<>>, w) /\ lines' = << <<m>> >> /\ stream' = <<f>>
        BY <3>0, <3>3, <4>1, NextOther DEF At
      <4>3. At(<<w>>, << <<m>> >>, <<f>>)'
        BY <4>2, <2>1 DEF At
      <4> QED  BY <4>3 DEF ModeRead
    <3>4. CASE At(<<w>>, << <<m>> >>, <<f>>)
      <4>1. Head(<<f>>) = f /\ Tail(<<f>>) = <<>>
        OBVIOUS
      <4>2. buffer' = <<>> /\ lines' = Append(<< <<m>> >>, <<w>>) /\ stream' = <<>>
        BY <3>0, <3>4, <4>1, NextFeed DEF At
      <4>3. Append(<< <<m>> >>, <<w>>) = << <<m>>, <<w>> >>
        BY Second
      <4>4. At(<<>>, << <<m>>, <<w>> >>, <<>>)'
        BY <4>2, <4>3, <2>1 DEF At
      <4> QED  BY <4>4 DEF ModeRead
    <3> QED  BY <3>1, <3>2, <3>3, <3>4
  <2>5. command.kind = "freq" => FreqRead'
    <3> SUFFICES ASSUME command.kind = "freq" PROVE FreqRead'
      OBVIOUS
    <3> DEFINE h == Char(n, "high")
               l == Char(n, "low")
    <3>0. f.text = "feed" /\ l.text # "feed"
      BY DEF Char
    <3>1. At(<<h>>, <<>>, <<l, f>>) \/ At(<<h, l>>, <<>>, <<f>>)
      BY <1>1 DEF IInv, Alone, FreqRead, At, ReadNext
    <3>2. CASE At(<<h>>, <<>>, <<l, f>>)
      <4>1. Head(<<l, f>>) = l /\ Tail(<<l, f>>) = <<f>>
        OBVIOUS
      <4>2. buffer' = Append(<<h>>, l) /\ lines' = <<>> /\ stream' = <<f>>
        BY <3>0, <3>2, <4>1, NextOther DEF At
      <4>3. Append(<<h>>, l) = <<h, l>>
        BY Second
      <4>4. At(<<h, l>>, <<>>, <<f>>)'
        BY <4>2, <4>3, <2>1 DEF At
      <4> QED  BY <4>4 DEF FreqRead
    <3>3. CASE At(<<h, l>>, <<>>, <<f>>)
      <4>1. Head(<<f>>) = f /\ Tail(<<f>>) = <<>>
        OBVIOUS
      <4>2. buffer' = <<>> /\ lines' = Append(<<>>, <<h, l>>) /\ stream' = <<>>
        BY <3>0, <3>3, <4>1, NextFeed DEF At
      <4>3. At(<<>>, << <<h, l>> >>, <<>>)'
        BY <4>2, <2>1 DEF At
      <4> QED  BY <4>3 DEF FreqRead
    <3> QED  BY <3>1, <3>2, <3>3
  <2> QED  BY <2>1, <2>2, <2>3, <2>4, <2>5 DEF Alone
<1>5. OwnAnswer'
  BY DEF OwnAnswer, ReadNext
<1> QED  BY <1>3, <1>4, <1>5 DEF IInv

\* A command that returns what it has read returns its own answer.
LEMMA ReadEndsIInv == IInv /\ (ReadEnds \/ ReadBreaks) => IInv'
<1> SUFFICES ASSUME IInv, ReadEnds \/ ReadBreaks PROVE IInv'
  OBVIOUS
<1>1. /\ pc = "more" /\ pc' = "idle"
      /\ answer' = [lines |-> lines, ok |-> Success(command.kind, lines)]
      /\ UNCHANGED <<command, reading, verdict, inStep>>
      /\ \/ UNCHANGED <<socket, network>>
         \/ /\ socket' = FALSE /\ closed' = FALSE /\ requests' = <<>>
            /\ stream' = <<>> /\ arrived' = 0
  BY DEF ReadEnds, ReadBreaks, Return, CloseSocket
<1>2. Success(command.kind, lines) \in BOOLEAN
  BY SuccessType DEF IInv, TypeOK, Commands
<1>3. answer' \in [lines : Seq(Seq(Chars)), ok : BOOLEAN]
  BY <1>1, <1>2 DEF IInv, TypeOK
<1>4. TypeOK'
  BY <1>1, <1>3, NothingUnderWay DEF IInv, TypeOK, reading, network
<1>5. Alone'
  <2> SUFFICES ASSUME inStep PROVE requests' = <<>>
    BY <1>1 DEF Alone
  <2>1. requests = <<>>
    BY <1>1 DEF IInv, Alone, Answered
  <2> QED  BY <1>1, <2>1 DEF network
<1>6. OwnAnswer'
  <2> SUFFICES ASSUME inStep, answer'.ok
               PROVE  /\ verdict' = "good"
                      /\ answer'.lines = Lines(command'.num, command'.kind)
    BY <1>1 DEF OwnAnswer
  <2>1. Success(command.kind, lines)
    BY <1>1
  <2>2. verdict = "good" /\ lines = Lines(command.num, command.kind)
    BY <1>1, <2>1, Returned DEF IInv
  <2> QED  BY <1>1, <2>2
<1> QED  BY <1>4, <1>5, <1>6 DEF IInv

\* A step that changes nothing keeps the invariant.
LEMMA StutterIInv == IInv /\ UNCHANGED vars => IInv'
BY DEF IInv, TypeOK, Alone, OwnAnswer, Answered, Untouched, ActRead, ModeRead, FreqRead, At,
       vars, network, reading

-----------------------------------------------------------------------------
\* The invariant holds in every state.
THEOREM Invariant == Spec => []IInv
<1>1. IInv /\ [Next]_vars => IInv'
  BY ServerAnswersIInv, ServerClosesIInv, DeliverIInv, ReconnectIInv, ExecuteIInv, SendIInv,
     FailIInv, ReadFirstIInv, ReadNextIInv, ReadEndsIInv, StutterIInv DEF Next
<1> QED  BY InitIInv, <1>1, PTL DEF Spec

\* Type correctness, for any number of commands.
THEOREM TypeCorrect == Spec => []TypeOK
<1>1. IInv => TypeOK
  BY DEF IInv
<1> QED  BY Invariant, <1>1, PTL

\* A command in step succeeds only with the server's own answer to it, however
\* its reply was cut to pieces and wherever the connection broke.
THEOREM AnswersAreOwn == Spec => []OwnAnswer
<1>1. IInv => OwnAnswer
  BY DEF IInv
<1> QED  BY Invariant, <1>1, PTL

\* A command in step that leaves nothing behind tells what the server did.
THEOREM AnswersAreComplete == Spec => CompleteAnswer
<1> DEFINE Complete == ReadEnds /\ inStep /\ stream = <<>> /\ requests = <<>>
                         => (answer'.ok <=> verdict = "good")
<1>1. IInv /\ [Next]_vars => [Complete]_vars
  <2> SUFFICES ASSUME IInv, ReadEnds, inStep, stream = <<>>
               PROVE  answer'.ok <=> verdict = "good"
    OBVIOUS
  <2>1. Success(command.kind, lines) <=> verdict = "good"
    BY Returned DEF IInv, ReadEnds
  <2>2. answer'.ok = Success(command.kind, lines)
    BY DEF ReadEnds, Return
  <2> QED  BY <2>1, <2>2
<1> QED  BY Invariant, <1>1, PTL DEF Spec, CompleteAnswer
=============================================================================

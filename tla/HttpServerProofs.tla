--------------------------- MODULE HttpServerProofs ---------------------------
(***************************************************************************)
(* Theorems about the web server, for all clients, scripts, files, moments *)
(* and bounds: the order of what is sent, and the life of connections;     *)
(* then about the calendar its dates are compared by: the operators ++ and *)
(* -- of DateTime step from day to day in whatever year a walk begins and  *)
(* however long it is.                                                     *)
(***************************************************************************)
EXTENDS HttpServer, CalendarWalk, TLAPS

(* What can be sent.                                                       *)
Codes == Status \cup {200, 301, 302, 500}
HeadMessage == [message : {"status line"}, status : Codes, fields : [Field -> Value]]
Message == HeadMessage \cup {Body, Error}

(* The inductive invariant of the response: besides the property, the      *)
(* messages have their type and an executing script leaves room for the    *)
(* message of its failure.                                                 *)
ResponseInv ==
    /\ wire \in Seq(Message)
    /\ HeadIsSentOnce
    /\ phase = "script" => Len(wire) <= MaxWire + 1

-----------------------------------------------------------------------------
(* A status line is a head and the pieces of a body are not.               *)
LEMMA MessageKinds ==
    /\ \A s \in Codes, h \in [Field -> Value] :
           StatusLine(s, h) \in Message /\ IsHead(StatusLine(s, h))
    /\ Body \in Message /\ ~IsHead(Body)
    /\ Error \in Message /\ ~IsHead(Error)
  BY DEF StatusLine, Message, HeadMessage, Body, Error, IsHead

(* The headers a response starts with are headers.                         *)
LEMMA DefaultHeaders == default_headers \in [Field -> Value]
  BY DEF default_headers, Field, Value

(* A head followed by nothing, or a piece of the body behind a head.       *)
Formed(w, s, h) ==
    /\ w \in Seq(Message)
    /\ w # <<>>
    /\ w[1] = StatusLine(s, h)
    /\ \A i \in 2 .. Len(w) : ~IsHead(w[i])

(* A response is well formed if nothing is sent, or its head and a body.   *)
LEMMA Reestablished ==
    ASSUME ResponseTypeOK', wire' \in Seq(Message),
           committed' => Formed(wire', status', headers'),
           ~committed' => wire' = <<>>,
           phase' = "script" => Len(wire') <= MaxWire + 1
    PROVE  ResponseInv'
  BY DEF ResponseInv, HeadIsSentOnce, Formed

(* And the other way round. *)
LEMMA EnoughIsFormed ==
    ASSUME ResponseInv
    PROVE  /\ committed => Formed(wire, status, headers)
           /\ ~committed => wire = <<>>
  BY DEF ResponseInv, HeadIsSentOnce, Formed

(* Committing sends the head, if it was not sent before.                   *)
LEMMA CommittingForms ==
    ASSUME ResponseInv, NEW s \in Codes, NEW h \in [Field -> Value],
           committed => s = status /\ h = headers
    PROVE  /\ Formed(Committing(s, h), s, h)
           /\ Len(Committing(s, h)) = IF committed THEN Len(wire) ELSE 1
<1>1. CASE committed
  BY <1>1, EnoughIsFormed DEF Committing
<1>2. CASE ~committed
  <2>1. wire = <<>>  BY <1>2, EnoughIsFormed
  <2>2. StatusLine(s, h) \in Message  BY MessageKinds
  <2>3. Committing(s, h) = <<StatusLine(s, h)>>
    BY <1>2, <2>1, <2>2 DEF Committing
  <2>. QED  BY <1>2, <2>2, <2>3 DEF Formed
<1>. QED  BY <1>1, <1>2

(* A piece of the body goes behind the head.                               *)
LEMMA AppendForms ==
    ASSUME NEW s, NEW h, NEW w, Formed(w, s, h), NEW m \in {Body, Error}
    PROVE  Formed(Append(w, m), s, h) /\ Len(Append(w, m)) = Len(w) + 1
<1>1. m \in Message /\ ~IsHead(m)  BY MessageKinds
<1>2. w \in Seq(Message) /\ Len(w) > 0  BY DEF Formed
<1>3. Append(w, m)[1] = StatusLine(s, h)  BY <1>1, <1>2 DEF Formed
<1>4. ASSUME NEW i \in 2 .. Len(Append(w, m))
      PROVE  ~IsHead(Append(w, m)[i])
  <2>1. CASE i = Len(w) + 1  BY <1>1, <1>2, <2>1
  <2>2. CASE i \in 2 .. Len(w)  BY <1>1, <1>2, <2>2 DEF Formed
  <2>. QED  BY <1>1, <1>2, <1>4, <2>1, <2>2
<1>. QED  BY <1>1, <1>2, <1>3, <1>4 DEF Formed

-----------------------------------------------------------------------------
(* The steps of the response, one lemma for each way to send something.    *)

(* Steps that send nothing before the head is sent: what they set is free. *)
LEMMA SettingStep ==
    ASSUME ResponseInv,
           (\E f \in Field : SetHeader(f)) \/ (\E s \in Status : SetStatus(s))
    PROVE  ResponseInv'
<1>1. ~committed /\ wire = <<>>
  BY EnoughIsFormed DEF SetHeader, SetStatus
<1>2. ResponseTypeOK  BY DEF ResponseInv, HeadIsSentOnce
<1>3. UNCHANGED <<committed, wire, pending, phase>>
  BY DEF SetHeader, SetStatus
<1>4. status' \in Codes /\ headers' \in [Field -> Value]
  <2>1. status \in Codes /\ headers \in [Field -> Value]
    BY <1>2 DEF ResponseTypeOK, Codes
  <2>2. ASSUME NEW f \in Field, SetHeader(f)
        PROVE  status' = status /\ headers' \in [Field -> Value]
    BY <2>1, <2>2 DEF SetHeader, Value
  <2>3. ASSUME NEW s \in Status, SetStatus(s)
        PROVE  status' \in Codes /\ headers' = headers
    BY <2>3 DEF SetStatus, Codes
  <2>. QED  BY <2>1, <2>2, <2>3
<1>5. ResponseTypeOK'
  BY <1>2, <1>3, <1>4 DEF ResponseTypeOK, Codes
<1>. QED  BY <1>1, <1>3, <1>5, Reestablished DEF ResponseInv

(* Steps that only change whether an exception is pending or how the script *)
(* ends.                                                                   *)
LEMMA QuietStep ==
    ASSUME ResponseInv, UNCHANGED <<status, headers, committed, wire>>,
           pending' \in BOOLEAN, phase' \in {phase, "crashed"}
    PROVE  ResponseInv'
<1>1. ResponseTypeOK  BY DEF ResponseInv, HeadIsSentOnce
<1>2. ResponseTypeOK'  BY <1>1 DEF ResponseTypeOK
<1>3. Formed(wire, status, headers) <=> Formed(wire', status', headers')
  BY DEF Formed
<1>. QED  BY <1>2, <1>3, EnoughIsFormed, Reestablished DEF ResponseInv

(* Everything that sends the head if it was not sent, and then nothing.    *)
LEMMA CommitStep ==
    ASSUME ResponseInv, phase = "script", phase' \in {"script", "finished"},
           pending' = pending,
           status' \in Codes, headers' \in [Field -> Value],
           committed => status' = status /\ headers' = headers,
           wire' = Committing(status', headers'), committed' = TRUE
    PROVE  ResponseInv'
<1>1. ResponseTypeOK  BY DEF ResponseInv, HeadIsSentOnce
<1>2. /\ Formed(wire', status', headers')
      /\ Len(wire') = IF committed THEN Len(wire) ELSE 1
  BY CommittingForms
<1>3. Len(wire) <= MaxWire + 1  BY DEF ResponseInv
<1>4. MaxWire \in Nat  BY WireAssumption
<1>5. Len(wire') <= MaxWire + 1  BY <1>2, <1>3, <1>4
<1>6. ResponseTypeOK'
  BY <1>1, <1>2, <1>4, <1>5 DEF ResponseTypeOK, Codes, Formed
<1>. QED  BY <1>2, <1>5, <1>6, Reestablished DEF Formed

(* A piece of the body, behind the head.                                   *)
LEMMA WriteStep ==
    ASSUME ResponseInv, phase = "script", NEW m \in {Body, Error},
           status' \in Codes, headers' \in [Field -> Value], pending' = pending,
           committed => status' = status /\ headers' = headers,
           Writing(m, status', headers'),
           \/ phase' = "script" /\ Len(wire) < MaxWire
           \/ phase' = "failed"
    PROVE  ResponseInv'
<1>1. ResponseTypeOK  BY DEF ResponseInv, HeadIsSentOnce
<1>. DEFINE w == Committing(status', headers')
<1>2. Formed(w, status', headers') /\ Len(w) = IF committed THEN Len(wire) ELSE 1
  BY CommittingForms
<1>3. wire' = Append(w, m) /\ committed' = TRUE  BY DEF Writing
<1>4. Formed(wire', status', headers') /\ Len(wire') = Len(w) + 1
  BY <1>2, <1>3, AppendForms
<1>5. Len(wire) <= MaxWire + 1 /\ Len(wire) \in Nat  BY DEF ResponseInv
<1>6. MaxWire \in Nat  BY WireAssumption
<1>7. Len(wire') <= MaxWire + 2  BY <1>2, <1>4, <1>5, <1>6
<1>8. phase' = "script" => Len(wire') <= MaxWire + 1
  BY <1>2, <1>4, <1>5, <1>6
<1>9. ResponseTypeOK'
  BY <1>1, <1>3, <1>7 DEF ResponseTypeOK, Codes
<1>. QED  BY <1>3, <1>4, <1>8, <1>9, Reestablished DEF Formed

(* Every step of an executing script and of its end.                       *)
LEMMA RespondStep ==
    ASSUME ResponseInv, Respond
    PROVE  ResponseInv'
<1>1. /\ ResponseTypeOK /\ pending \in BOOLEAN
      /\ status \in Codes /\ headers \in [Field -> Value]
  BY DEF ResponseInv, HeadIsSentOnce, ResponseTypeOK, Codes
<1>2. CASE WriteText
  BY <1>1, <1>2, WriteStep DEF WriteText, Executing, Writing
<1>3. CASE HeadersAlreadySent \/ Throw \/ Catch \/ FailSilently
  BY <1>1, <1>3, QuietStep DEF HeadersAlreadySent, Throw, Catch, FailSilently
<1>4. CASE (\E f \in Field : SetHeader(f)) \/ (\E s \in Status : SetStatus(s))
  BY <1>4, SettingStep
<1>5. ASSUME NEW s \in {301, 302}, Redirect(s)
      PROVE  ResponseInv'
  <2>1. status' \in Codes /\ headers' \in [Field -> Value]
    BY <1>1, <1>5 DEF Redirect, Codes, Value
  <2>. QED  BY <1>5, <2>1, CommitStep DEF Redirect, Executing
<1>6. CASE Finish
  <2>1. status' \in Codes /\ headers' \in [Field -> Value]
    BY <1>1, <1>6 DEF Finish
  <2>2. wire' = Committing(status', headers')
    BY <1>6 DEF Finish, Committing, StatusLine
  <2>. QED  BY <1>6, <2>1, <2>2, CommitStep DEF Finish, Executing
<1>7. CASE Fail
  <2>1. status' \in Codes /\ headers' \in [Field -> Value]
    <3>1. CASE committed
      BY <1>1, <1>7, <3>1 DEF Fail, SendException
    <3>2. CASE ~committed
      <4>1. /\ status' = 500
            /\ headers' = [f \in Field |-> IF f = "Content-Type"
                                           THEN "text/plain" ELSE "absent"]
        BY <1>7, <3>2 DEF Fail, SendException
      <4>. QED  BY <4>1 DEF Codes, Value
    <3>. QED  BY <3>1, <3>2
  <2>2. Writing(Error, status', headers')
    <3>1. CASE committed
      BY <1>7, <3>1 DEF Fail, SendException
    <3>2. CASE ~committed
      BY <1>7, <3>2 DEF Fail, SendException
    <3>. QED  BY <3>1, <3>2
  <2>3. committed => status' = status /\ headers' = headers
    BY <1>7 DEF Fail, SendException
  <2>. QED  BY <1>7, <2>1, <2>2, <2>3, WriteStep DEF Fail, Executing
<1>. QED  BY <1>2, <1>3, <1>4, <1>5, <1>6, <1>7 DEF Respond

-----------------------------------------------------------------------------
(* The server begins with an empty response. *)
LEMMA EmptyResponse ==
    ASSUME status = 200, headers = default_headers, committed = FALSE,
           wire = <<>>, pending = FALSE, phase = "script"
    PROVE  ResponseInv
<1>1. wire \in Seq(Message) /\ Len(wire) = 0
  OBVIOUS
<1>2. MaxWire \in Nat  BY WireAssumption
<1>3. Len(wire) <= MaxWire + 2  BY <1>1, <1>2
<1>4. committed \in BOOLEAN /\ pending \in BOOLEAN  OBVIOUS
<1>5. ResponseTypeOK
  BY <1>3, <1>4, DefaultHeaders DEF ResponseTypeOK
<1>. QED  BY <1>1, <1>2, <1>5 DEF ResponseInv, HeadIsSentOnce

(* Every step of server, clients, files and clock keeps the response well  *)
(* formed.                                                                 *)
LEMMA ServerStep ==
    ASSUME ResponseInv, [Next]_vars
    PROVE  ResponseInv'
<1>1. CASE UNCHANGED responseVars
  <2>1. ResponseInv' <=> ResponseInv
    BY <1>1 DEF responseVars, ResponseInv, HeadIsSentOnce, ResponseTypeOK
  <2>. QED  BY <2>1
<1>2. CASE Execute
  <2>1. /\ status' = 200 /\ headers' = default_headers /\ committed' = FALSE
        /\ wire' = <<>> /\ pending' = FALSE /\ phase' = "script"
    BY <1>2 DEF Execute, Begin
  <2>2. wire' \in Seq(Message) /\ Len(wire') = 0  BY <2>1
  <2>3. MaxWire \in Nat  BY WireAssumption
  <2>4. Len(wire') <= MaxWire + 2 /\ Len(wire') <= MaxWire + 1
    BY <2>2, <2>3
  <2>5. committed' \in BOOLEAN /\ pending' \in BOOLEAN  BY <2>1
  <2>6. ResponseTypeOK'
    BY <2>1, <2>4, <2>5, DefaultHeaders DEF ResponseTypeOK
  <2>. QED  BY <2>1, <2>2, <2>4, <2>6, Reestablished
<1>3. CASE ReportError
  <2>1. status' = 500 /\ status' \in Codes /\ headers' \in [Field -> Value]
    BY <1>3 DEF ReportError, Codes, Value, Field
  <2>2. StatusLine(status', headers') \in Message /\ Error \in Message /\ ~IsHead(Error)
    BY <2>1, MessageKinds
  <2>3. /\ wire' = <<StatusLine(status', headers'), Error>>
        /\ committed' = TRUE /\ pending' = TRUE /\ phase' = "failed"
    BY <1>3 DEF ReportError, StatusLine
  <2>4. Formed(wire', status', headers')
    BY <2>2, <2>3 DEF Formed
  <2>5. ResponseTypeOK'
    BY <2>1, <2>3, WireAssumption DEF ResponseTypeOK
  <2>. QED  BY <2>3, <2>4, <2>5, Reestablished DEF Formed
<1>4. CASE Step
  BY <1>4, RespondStep DEF Step
<1>5. CASE Environment \/ \E c \in Client : Accept(c)
  BY <1>1, <1>5 DEF Environment, Tick, Mark, Edit, Protect, Connect, Collect, Accept
<1>6. CASE \/ ServeOther \/ ServeIncomplete \/ Open \/ Compile \/ Close
           \/ \E p \in Path : ServeScript(p)
  BY <1>1, <1>6 DEF ServeOther, ServeIncomplete, Open, Compile, Close, ServeScript
<1>. QED
  BY <1>1, <1>2, <1>3, <1>4, <1>5, <1>6 DEF Next, Serve, vars

(* Whatever a script does, and however it ends, the status line and the    *)
(* headers are sent once, before the body, and are those of the response.  *)
THEOREM HeadsAreSentOnce == Spec => []HeadIsSentOnce
<1>1. Init => ResponseInv
  BY EmptyResponse DEF Init, ResponseInit
<1>2. ResponseInv /\ [Next]_vars => ResponseInv'
  BY ServerStep
<1>3. ResponseInv => HeadIsSentOnce
  BY DEF ResponseInv
<1>. QED  BY <1>1, <1>2, <1>3, PTL DEF Spec

-----------------------------------------------------------------------------
(* What the client gets in the end. A script that has sent its head and no *)
(* body has redirected: everything else sends the head with a piece of the *)
(* body, and so the status of a late failure is not that of an early one.  *)
AnswerInv ==
    /\ ScriptIsAnswered
    /\ phase = "script" /\ Len(wire) = 1 => status \in {301, 302}

(* Fail: an error before the head replaces the response, a later one is    *)
(* its last message.                                                       *)
LEMMA FailureAnswers ==
    ASSUME ResponseInv, AnswerInv, Fail
    PROVE  AnswerInv'
<1>1. wire \in Seq(Message) /\ phase = "script" /\ phase' = "failed"
  BY DEF ResponseInv, Fail, Executing
<1>2. Error \in Message /\ Error \notin HeadMessage
  BY DEF Message, HeadMessage, Error
<1>3. CASE committed
  <2>1. wire' = Append(wire, Error) /\ UNCHANGED <<status, headers>>
    BY <1>3 DEF Fail, SendException, Writing, Committing
  <2>2. wire'[Len(wire')] = Error /\ wire' # <<>>
    BY <1>1, <1>2, <2>1
  <2>3. ~(Len(wire') = 2 /\ status' = 500)
    <3>. DEFINE n == Len(wire)
                k == Len(wire')
    <3>1. n \in Nat /\ k = n + 1
      BY <1>1, <1>2, <2>1
    <3>2. n = 1 => status' # 500  BY <1>1, <2>1 DEF AnswerInv
    <3>. HIDE DEF n, k
    <3>3. k = 2 => n = 1  BY <3>1
    <3>4. ~(k = 2 /\ status' = 500)  BY <3>2, <3>3
    <3>. QED  BY <3>4 DEF k
  <2>. QED  BY <1>1, <2>2, <2>3 DEF AnswerInv, ScriptIsAnswered
<1>4. CASE ~committed
  <2>1. headers' = [f \in Field |-> IF f = "Content-Type" THEN "text/plain" ELSE "absent"]
    BY <1>4 DEF Fail, SendException
  <2>2. headers'["Location"] = "absent" /\ headers'["Content-Type"] = "text/plain"
    BY <2>1 DEF Field
  <2>3. wire = <<>>  BY <1>4, EnoughIsFormed
  <2>4. StatusLine(status', headers') \in Message
    <3>1. status' = 500  BY <1>4 DEF Fail, SendException
    <3>2. headers' \in [Field -> Value]  BY <2>1 DEF Value
    <3>. QED  BY <3>1, <3>2, MessageKinds DEF Codes
  <2>5. wire' # <<>> /\ wire'[Len(wire')] = Error
    <3>. DEFINE w == Committing(status', headers')
    <3>1. w = <<StatusLine(status', headers')>>
      BY <1>4, <2>3, <2>4 DEF Committing
    <3>2. w \in Seq(Message)  BY <2>4, <3>1
    <3>3. wire' = Append(w, Error)
      BY <1>4 DEF Fail, SendException, Writing
    <3>. HIDE DEF w
    <3>. QED  BY <1>2, <3>2, <3>3
  <2>. QED  BY <1>1, <2>2, <2>5 DEF AnswerInv, ScriptIsAnswered
<1>. QED  BY <1>3, <1>4

(* The other steps of a script.                                            *)
LEMMA RespondAnswers ==
    ASSUME ResponseInv, AnswerInv, Respond
    PROVE  AnswerInv'
<1>1. wire \in Seq(Message) /\ phase = "script"
  BY DEF ResponseInv, Respond, WriteText, HeadersAlreadySent, SetHeader, SetStatus,
         Redirect, Throw, Catch, Finish, Fail, FailSilently, Executing
<1>2. committed => Len(wire) >= 1
  BY <1>1, EnoughIsFormed DEF Formed
<1>3. CASE WriteText
  <2>. DEFINE w == Committing(status, headers)
  <2>1. status \in Codes /\ headers \in [Field -> Value]
    BY DEF ResponseInv, HeadIsSentOnce, ResponseTypeOK, Codes
  <2>2. Formed(w, status, headers) /\ Len(w) = IF committed THEN Len(wire) ELSE 1
    BY <2>1, CommittingForms
  <2>3. wire' = Append(w, Body) /\ phase' = "script"
    BY <1>1, <1>3 DEF WriteText, Writing
  <2>4. Len(wire') = Len(w) + 1
    BY <2>2, <2>3, AppendForms
  <2>5. Len(wire') # 1
    BY <1>1, <1>2, <2>2, <2>4
  <2>. QED  BY <2>3, <2>5 DEF AnswerInv, ScriptIsAnswered
<1>4. CASE \/ HeadersAlreadySent \/ Throw \/ Catch \/ FailSilently
           \/ \E f \in Field : SetHeader(f)
  BY <1>1, <1>4 DEF HeadersAlreadySent, Throw, Catch, FailSilently, SetHeader,
                    AnswerInv, ScriptIsAnswered
<1>5. ASSUME NEW s \in Status, SetStatus(s)
      PROVE  AnswerInv'
  <2>1. wire' = <<>> /\ phase' = "script"
    BY <1>1, <1>5, EnoughIsFormed DEF SetStatus
  <2>. QED  BY <2>1 DEF AnswerInv, ScriptIsAnswered
<1>6. ASSUME NEW s \in {301, 302}, Redirect(s)
      PROVE  AnswerInv'
  BY <1>1, <1>6 DEF Redirect, AnswerInv, ScriptIsAnswered
<1>7. CASE Finish
  <2>1. status \in Codes /\ headers \in [Field -> Value]
    BY DEF ResponseInv, HeadIsSentOnce, ResponseTypeOK, Codes
  <2>2. Formed(Committing(status, headers), status, headers)
    BY <2>1, CommittingForms
  <2>3. wire' # <<>> /\ phase' = "finished"
    BY <1>7, <2>2 DEF Finish, Formed
  <2>. QED  BY <2>3 DEF AnswerInv, ScriptIsAnswered
<1>8. CASE Fail
  BY <1>8, FailureAnswers
<1>. QED  BY <1>3, <1>4, <1>5, <1>6, <1>7, <1>8 DEF Respond

(* When ServeScript has done its work the client has got a response, a     *)
(* failure is its last message, and one that comes before anything was     *)
(* sent replaces all that the script has set, however it got there.        *)
THEOREM ScriptsAreAnswered == Spec => []ScriptIsAnswered
<1>1. Init => ResponseInv /\ AnswerInv
  <2>1. Init => ResponseInv
    BY EmptyResponse DEF Init, ResponseInit
  <2>2. Init => AnswerInv
    BY DEF Init, ResponseInit, AnswerInv, ScriptIsAnswered
  <2>. QED  BY <2>1, <2>2
<1>2. ResponseInv /\ AnswerInv /\ [Next]_vars => (ResponseInv /\ AnswerInv)'
  <2>. SUFFICES ASSUME ResponseInv, AnswerInv, [Next]_vars
                PROVE  AnswerInv'
    BY ServerStep
  <2>1. CASE UNCHANGED responseVars
    BY <2>1 DEF responseVars, AnswerInv, ScriptIsAnswered
  <2>2. CASE Execute
    <3>1. wire' = <<>> /\ phase' = "script"
      BY <2>2 DEF Execute, Begin
    <3>. QED  BY <3>1 DEF AnswerInv, ScriptIsAnswered
  <2>3. CASE ReportError
    <3>1. /\ headers' = [f \in Field |-> IF f = "Content-Type" THEN "text/plain"
                                                               ELSE "absent"]
          /\ wire' = <<StatusLine(500, headers'), Error>>
          /\ phase' = "failed"
      BY <2>3 DEF ReportError
    <3>2. headers'["Location"] = "absent" /\ headers'["Content-Type"] = "text/plain"
      BY <3>1 DEF Field
    <3>. QED  BY <3>1, <3>2 DEF AnswerInv, ScriptIsAnswered
  <2>4. CASE Step
    BY <2>4, RespondAnswers DEF Step
  <2>5. CASE Environment \/ \E c \in Client : Accept(c)
    BY <2>1, <2>5 DEF Environment, Tick, Mark, Edit, Protect, Connect, Collect, Accept
  <2>6. CASE \/ ServeOther \/ ServeIncomplete \/ Open \/ Compile \/ Close
             \/ \E p \in Path : ServeScript(p)
    BY <2>1, <2>6 DEF ServeOther, ServeIncomplete, Open, Compile, Close, ServeScript
  <2>. QED
    BY <2>1, <2>2, <2>3, <2>4, <2>5, <2>6 DEF Next, Serve, vars
<1>3. AnswerInv => ScriptIsAnswered
  BY DEF AnswerInv
<1>. QED  BY <1>1, <1>2, <1>3, PTL DEF Spec

-----------------------------------------------------------------------------
(* Connections. OneConnection is inductive as it stands.                   *)

(* There is at least one moment.                                           *)
LEMMA MomentsExist == Len(Moments) \in Nat /\ Len(Moments) >= 1
  BY MomentAssumption

LEMMA NobodyConnected == Init => OneConnection
<1>. SUFFICES ASSUME Init PROVE OneConnection
  OBVIOUS
<1>1. TypeOK
  <2>1. clock \in 1 .. Len(Moments)  BY MomentsExist DEF Init
  <2>2. file \in [Path -> [edit : 0 .. MaxEdits, mtime : 1 .. Len(Moments),
                           valid : BOOLEAN, readable : BOOLEAN]]
    BY MomentsExist, BoundAssumption DEF Init
  <2>. QED  BY <2>1, <2>2 DEF Init, TypeOK
<1>. QED  BY <1>1 DEF Init, OneConnection

(* A step of the environment does not touch the connection in service, and *)
(* neither does a step that leaves connections alone.                      *)
LEMMA EnvironmentStep ==
    ASSUME OneConnection, Environment
    PROVE  OneConnection'
<1>1. TypeOK /\ MaxEdits \in Nat /\ Len(Moments) \in Nat
  BY MomentsExist, BoundAssumption DEF OneConnection
<1>2. CASE Tick
  <2>1. clock' \in 1 .. Len(Moments)
    BY <1>1, <1>2 DEF Tick, TypeOK
  <2>. QED  BY <1>1, <1>2, <2>1 DEF Tick, OneConnection, TypeOK, serverVars
<1>3. CASE Mark
  BY <1>1, <1>3 DEF Mark, OneConnection, TypeOK, serverVars
<1>4. ASSUME NEW p \in Path, Edit(p) \/ Protect(p)
      PROVE  OneConnection'
  <2>1. file' \in [Path -> [edit : 0 .. MaxEdits, mtime : 1 .. Len(Moments),
                            valid : BOOLEAN, readable : BOOLEAN]]
    <3>1. CASE Edit(p)
      <4>1. PICK v \in BOOLEAN :
                file' = [file EXCEPT ![p].edit = @ + 1, ![p].mtime = clock,
                                     ![p].valid = v]
        BY <3>1 DEF Edit
      <4>2. file[p].edit + 1 \in 0 .. MaxEdits
        BY <1>1, <3>1 DEF Edit, TypeOK
      <4>. QED  BY <1>1, <4>1, <4>2 DEF TypeOK
    <3>2. CASE Protect(p)
      BY <1>1, <3>2 DEF Protect, TypeOK
    <3>. QED  BY <1>4, <3>1, <3>2
  <2>. QED
    BY <1>1, <1>4, <2>1 DEF Edit, Protect, OneConnection, TypeOK, serverVars
<1>5. ASSUME NEW c \in Client, Connect(c) \/ Collect(c)
      PROVE  OneConnection'
  <2>1. /\ conn' \in [Client -> {"away", "waiting", "open", "abandoned", "closed"}]
        /\ \A d \in Client : conn'[d] = "open" <=> conn[d] = "open"
    BY <1>1, <1>5 DEF Connect, Collect, TypeOK
  <2>. QED
    BY <1>1, <1>5, <2>1 DEF Connect, Collect, OneConnection, TypeOK, serverVars
<1>. QED  BY <1>2, <1>3, <1>4, <1>5 DEF Environment

(* A step of the server that leaves the connections alone.                 *)
LEMMA WorkingStep ==
    ASSUME OneConnection, UNCHANGED <<clock, file, conn, client>>,
           client # None, pc' \in {"open", "compile", "compiled", "script", "crashed"},
           path' \in Path \cup {None}
    PROVE  OneConnection'
  BY DEF OneConnection, TypeOK

(* Serve() returns: the client it served was the only one connected.       *)
LEMMA ReturnStep ==
    ASSUME OneConnection, UNCHANGED <<clock, file>>, client # None,
           NEW state \in {"closed", "abandoned"}, Return(state)
    PROVE  OneConnection'
<1>1. TypeOK /\ {c \in Client : conn[c] = "open"} = {client} \ {None}
  BY DEF OneConnection
<1>2. client \in Client  BY <1>1 DEF TypeOK
<1>3. conn' = [conn EXCEPT ![client] = state]  BY DEF Return
<1>4. {c \in Client : conn'[c] = "open"} = {}
  BY <1>1, <1>2, <1>3 DEF TypeOK
<1>5. conn' \in [Client -> {"away", "waiting", "open", "abandoned", "closed"}]
  BY <1>1, <1>3 DEF TypeOK
<1>. QED  BY <1>1, <1>4, <1>5 DEF Return, OneConnection, TypeOK

LEMMA AcceptStep ==
    ASSUME OneConnection, NEW c \in Client, Accept(c)
    PROVE  OneConnection'
<1>1. TypeOK /\ client = None /\ {d \in Client : conn[d] = "open"} = {}
  BY DEF OneConnection, Accept
<1>2. conn' \in [Client -> {"away", "waiting", "open", "abandoned", "closed"}]
  BY <1>1 DEF Accept, TypeOK
<1>3. {d \in Client : conn'[d] = "open"} = {c}
  BY <1>1 DEF Accept, TypeOK
<1>4. c # None  BY ClientAssumption
<1>. QED  BY <1>1, <1>2, <1>3, <1>4 DEF Accept, OneConnection, TypeOK

(* The server holds one connection open, that of the client it serves, for *)
(* any number of clients: whatever way Serve() ends, it is closed or left  *)
(* to the collector.                                                       *)
THEOREM OneConnectionAtATime == Spec => []OneConnection
<1>1. OneConnection /\ [Next]_vars => OneConnection'
  <2>. SUFFICES ASSUME OneConnection, [Next]_vars PROVE OneConnection'
    OBVIOUS
  <2>1. CASE UNCHANGED vars
    BY <2>1 DEF vars, serverVars, OneConnection, TypeOK
  <2>2. CASE Environment
    BY <2>2, EnvironmentStep
  <2>3. ASSUME NEW c \in Client, Accept(c)
        PROVE  OneConnection'
    BY <2>3, AcceptStep
  <2>4. CASE ServeOther \/ ServeIncomplete
    BY <2>4, ReturnStep DEF ServeOther, ServeIncomplete, OneConnection
  <2>5. CASE Close
    BY <2>5, ReturnStep DEF Close, OneConnection
  <2>6. ASSUME NEW p \in Path, ServeScript(p)
        PROVE  OneConnection'
    BY <2>6, WorkingStep DEF ServeScript, OneConnection
  <2>7. CASE Open \/ Compile \/ Execute \/ ReportError
    <3>1. /\ UNCHANGED <<clock, file, conn, client>>
          /\ pc \in {"open", "compile", "compiled"}
          /\ pc' \in {"compile", "compiled", "script"}
          /\ path' = path
      BY <2>7 DEF Open, Compile, Execute, ReportError, serverVars
    <3>2. client # None /\ path \in Path \cup {None}
      BY <3>1 DEF OneConnection, TypeOK
    <3>. QED  BY <3>1, <3>2, WorkingStep
  <2>8. CASE Step
    BY <2>8, WorkingStep DEF Step, serverVars, OneConnection, TypeOK
  <2>. QED
    BY <2>1, <2>2, <2>3, <2>4, <2>5, <2>6, <2>7, <2>8 DEF Next, Serve
<1>. QED  BY <1>1, NobodyConnected, PTL DEF Spec

-----------------------------------------------------------------------------
(* Edits of scripts.  What is compared when a script is requested are two  *)
(* values of class DateTime, which stand for moments of the clock.         *)

Tm == [year : Nat, month : Month, day : 1 .. 31,
       hour : 0 .. 23, minute : 0 .. 59, second : 0 .. 60]

(* Every moment is the time of a date.                                     *)
LEMMA MomentsAreDates ==
    ASSUME NEW i \in 1 .. Len(Moments)
    PROVE  /\ Moments[i] \in Tm
           /\ Date_IsValid(Moments[i].year, Moments[i].month, Moments[i].day)
<1>1. Moments \in Seq(Tm)
  BY MomentAssumption DEF Tm
<1>2. Date_IsValid(Moments[i].year, Moments[i].month, Moments[i].day)
  BY ClockAssumption
<1>. QED  BY <1>1, <1>2

(* A time DateTime takes for midnight is moved back, so that a later time  *)
(* it can represent stays later.                                           *)
LEMMA LaterStaysLater ==
    ASSUME NEW m \in Tm, NEW n \in Tm,
           Date_IsValid(m.year, m.month, m.day), Date_IsValid(n.year, n.month, n.day),
           Time_IsValid(n.hour, n.minute, n.second),
           Then(Date_Compare(m, n), Time_Compare(m, n)) < 0
    PROVE  Before(DateTime(m), DateTime(n))
<1>. DEFINE d == DateTime(m)
            e == DateTime(n)
<1>1. /\ d.date.year = m.year /\ d.date.month = m.month /\ d.date.day = m.day
      /\ e.date.year = n.year /\ e.date.month = n.month /\ e.date.day = n.day
  BY DEF DateTime, Date
<1>2. /\ e.time.hour = n.hour /\ e.time.minute = n.minute /\ e.time.second = n.second
  BY DEF DateTime, Time
<1>3. \/ d.time.hour = m.hour /\ d.time.minute = m.minute /\ d.time.second = m.second
      \/ d.time.hour = 0 /\ d.time.minute = 0 /\ d.time.second = 0
  BY DEF DateTime, Time
<1>4. Date_Compare(d.date, e.date) = Date_Compare(m, n)
  BY <1>1 DEF Date_Compare
<1>5. Time_Compare(m, n) < 0 => Time_Compare(d.time, e.time) < 0
  BY <1>2, <1>3 DEF Tm, Time_Compare, Then, Order
<1>6. Date_Compare(m, n) \in Int
  BY DEF Date_Compare, Then, Order
<1>. HIDE DEF d, e
<1>7. DateTime_Compare(d, e) < 0
  BY <1>4, <1>5, <1>6 DEF DateTime_Compare, Then
<1>. QED  BY <1>7 DEF Before, d, e

(* What the cache and the compiler hold.                                   *)
Script == 0 .. MaxEdits \cup {None}
Mapping == [script : Script, error : {"", "Unable to include file"},
            last_cached : {DateTime(Moments[i]) : i \in 1 .. Len(Moments)}]
Compilation == [opened : BOOLEAN, from : 1 .. Len(Moments), to : 1 .. Len(Moments)]

CacheTypeOK ==
    /\ clock \in 1 .. Len(Moments)
    /\ file \in [Path -> [edit : 0 .. MaxEdits, mtime : 1 .. Len(Moments),
                          valid : BOOLEAN, readable : BOOLEAN]]
    /\ cache \in [Path -> Mapping \cup {None}]
    /\ compiled \in [Path -> Compilation \cup {None}]
    /\ mapping \in [opened : BOOLEAN, script : Script, read : 0 .. Len(Moments)]

(* A script in the cache is what its file contained when it was opened, or *)
(* the file has been written since then; last_cached was set later.        *)
CacheIsDated(p) ==
    cache[p] # None =>
        /\ compiled[p] \in Compilation
        /\ cache[p].last_cached = DateTime(Moments[compiled[p].to])
        /\ compiled[p].from <= compiled[p].to /\ compiled[p].to <= clock
        /\ compiled[p].opened /\ file[p].mtime < compiled[p].from
              => cache[p].script = Compiled(p)

(* So is the script the compiler has made but not stored yet.              *)
MappingIsDated ==
    /\ pc \in {"open", "compile"} => path \in Path
    /\ pc = "compile" =>
          /\ mapping.read \in 1 .. clock
          /\ mapping.opened /\ file[path].mtime < mapping.read
                => mapping.script = Compiled(path)

(* The inductive invariant. *)
CacheInv ==
    /\ CacheTypeOK
    /\ \A p \in Path : CacheIsDated(p)
    /\ MappingIsDated

LEMMA CacheInvImpliesNoticed == CacheInv => EditsAreNoticed
<1>. SUFFICES ASSUME CacheInv, NEW p \in Path, Unnoticed(p),
                     compiled[p].opened, ~Unrepresentable(file[p].mtime)
              PROVE  file[p].mtime \in compiled[p].from .. compiled[p].to
  BY DEF EditsAreNoticed, CacheInv, CacheIsDated, Compilation, Unnoticed
<1>. DEFINE mtime == file[p].mtime
            from  == compiled[p].from
            to    == compiled[p].to
<1>1. /\ cache[p] # None /\ ~Before(cache[p].last_cached, LastModified(p))
      /\ cache[p].script # Compiled(p)
  BY DEF Unnoticed, Stale
<1>2. CacheIsDated(p)
  BY DEF CacheInv
<1>3. mtime \in 1 .. Len(Moments) /\ from \in 1 .. Len(Moments) /\ to \in 1 .. Len(Moments)
  BY <1>1, <1>2 DEF CacheInv, CacheTypeOK, CacheIsDated, Compilation
<1>4. ~(mtime < from)
  BY <1>1, <1>2 DEF CacheIsDated
<1>5. ~(to < mtime)
  <2>. SUFFICES ASSUME to < mtime PROVE FALSE
    OBVIOUS
  <2>1. cache[p].last_cached = DateTime(Moments[to])
    BY <1>1, <1>2 DEF CacheIsDated
  <2>2. LastModified(p) = DateTime(Moments[mtime])
    BY DEF LastModified
  <2>3. Time_IsValid(Moments[mtime].hour, Moments[mtime].minute, Moments[mtime].second)
    BY DEF Unrepresentable
  <2>. HIDE DEF mtime, to
  <2>4. Then(Date_Compare(Moments[to], Moments[mtime]),
             Time_Compare(Moments[to], Moments[mtime])) < 0
    BY <1>3, ClockAssumption
  <2>5. Before(DateTime(Moments[to]), DateTime(Moments[mtime]))
    BY <1>3, <2>3, <2>4, MomentsAreDates, LaterStaysLater
  <2>. QED  BY <1>1, <2>1, <2>2, <2>5
<1>6. Len(Moments) \in Nat
  BY MomentsExist
<1>. HIDE DEF mtime, from, to
<1>7. mtime \in from .. to
  BY <1>3, <1>4, <1>5, <1>6
<1>. QED  BY <1>7 DEF mtime, from, to

LEMMA CacheIsEmpty == Init => CacheInv
<1>. SUFFICES ASSUME Init PROVE CacheInv
  OBVIOUS
<1>1. CacheTypeOK
  BY MomentsExist, BoundAssumption DEF Init, CacheTypeOK, NoMapping, Script
<1>2. \A p \in Path : CacheIsDated(p)
  BY DEF Init, CacheIsDated
<1>3. MappingIsDated
  BY DEF Init, MappingIsDated
<1>. QED  BY <1>1, <1>2, <1>3 DEF CacheInv

(* An edit is later than all that was read before.                         *)
LEMMA EditStep ==
    ASSUME CacheInv, NEW p \in Path, Edit(p)
    PROVE  CacheInv'
<1>1. /\ CacheTypeOK /\ MaxEdits \in Nat /\ Len(Moments) \in Nat
      /\ \A q \in Path : CacheIsDated(q)
      /\ MappingIsDated
  BY MomentsExist, BoundAssumption DEF CacheInv
<1>2. UNCHANGED <<clock, pc, cache, compiled, path, mapping>>
  BY DEF Edit, serverVars
<1>3. /\ file' \in [Path -> [edit : 0 .. MaxEdits, mtime : 1 .. Len(Moments),
                             valid : BOOLEAN, readable : BOOLEAN]]
      /\ file'[p].mtime = clock
      /\ \A q \in Path \ {p} : file'[q] = file[q]
  <2>1. PICK v \in BOOLEAN :
            file' = [file EXCEPT ![p].edit = @ + 1, ![p].mtime = clock, ![p].valid = v]
    BY DEF Edit
  <2>2. file[p].edit + 1 \in 0 .. MaxEdits
    BY <1>1 DEF Edit, CacheTypeOK
  <2>. QED  BY <1>1, <2>1, <2>2 DEF CacheTypeOK
<1>4. CacheTypeOK'
  BY <1>1, <1>2, <1>3 DEF CacheTypeOK
<1>5. ASSUME NEW q \in Path
      PROVE  CacheIsDated(q)'
  <2>1. CASE q = p
    <3>1. CacheIsDated(p)  BY <1>1
    <3>2. compiled[p] \in Compilation => compiled[p].from \in Int /\ compiled[p].to \in Int
      BY <1>1 DEF Compilation
    <3>3. clock \in Int  BY <1>1 DEF CacheTypeOK
    <3>. QED  BY <1>2, <1>3, <2>1, <3>1, <3>2, <3>3 DEF CacheIsDated
  <2>2. CASE q # p
    BY <1>1, <1>2, <1>3, <1>5, <2>2 DEF CacheIsDated, Compiled
  <2>. QED  BY <2>1, <2>2
<1>6. MappingIsDated'
  <2>1. clock \in Int  BY <1>1 DEF CacheTypeOK
  <2>2. CASE path = p
    BY <1>1, <1>2, <1>3, <2>1, <2>2 DEF MappingIsDated
  <2>3. CASE path # p
    BY <1>1, <1>2, <1>3, <2>3 DEF MappingIsDated, Compiled
  <2>. QED  BY <2>2, <2>3
<1>. QED  BY <1>4, <1>5, <1>6 DEF CacheInv

(* The other steps of the environment.                                     *)
LEMMA TimePasses ==
    ASSUME CacheInv, Tick
    PROVE  CacheInv'
<1>1. /\ UNCHANGED <<file, pc, cache, compiled, path, mapping>>
      /\ clock' = clock + 1 /\ clock < Len(Moments)
  BY DEF Tick, serverVars
<1>2. clock \in 1 .. Len(Moments) /\ Len(Moments) \in Nat
  BY MomentsExist DEF CacheInv, CacheTypeOK
<1>3. CacheTypeOK'
  BY <1>1, <1>2 DEF CacheInv, CacheTypeOK
<1>4. ASSUME NEW q \in Path
      PROVE  CacheIsDated(q)'
  <2>1. CacheIsDated(q)  BY DEF CacheInv
  <2>2. compiled[q] \in Compilation => compiled[q].to \in Int
    BY <1>2 DEF Compilation
  <2>. QED  BY <1>1, <1>2, <2>1, <2>2 DEF CacheIsDated, Compiled
<1>5. MappingIsDated'
  BY <1>1, <1>2 DEF CacheInv, MappingIsDated, Compiled
<1>. QED  BY <1>3, <1>4, <1>5 DEF CacheInv

LEMMA ProtectStep ==
    ASSUME CacheInv, NEW p \in Path, Protect(p)
    PROVE  CacheInv'
<1>1. UNCHANGED <<clock, pc, cache, compiled, path, mapping>>
  BY DEF Protect, serverVars
<1>2. /\ file' \in [Path -> [edit : 0 .. MaxEdits, mtime : 1 .. Len(Moments),
                             valid : BOOLEAN, readable : BOOLEAN]]
      /\ \A q \in Path : /\ file'[q].mtime = file[q].mtime
                         /\ file'[q].valid = file[q].valid
                         /\ file'[q].edit = file[q].edit
  BY DEF Protect, CacheInv, CacheTypeOK
<1>3. \A q \in Path : CacheIsDated(q)'
  BY <1>1, <1>2 DEF CacheInv, CacheIsDated, Compiled
<1>4. MappingIsDated'
  BY <1>1, <1>2 DEF CacheInv, MappingIsDated, Compiled
<1>5. CacheTypeOK'
  BY <1>1, <1>2 DEF CacheInv, CacheTypeOK
<1>. QED  BY <1>3, <1>4, <1>5 DEF CacheInv

(* Steps that leave files, cache and compiler alone.                       *)
LEMMA CacheUntouched ==
    ASSUME CacheInv, UNCHANGED <<clock, file, cache, compiled>>,
           \/ UNCHANGED <<path, mapping>> /\ (pc' = pc \/ pc' \notin {"open", "compile"})
           \/ pc' \notin {"open", "compile"} /\ mapping' \in {mapping, NoMapping}
           \/ pc' = "open" /\ path' \in Path /\ mapping' = mapping
    PROVE  CacheInv'
<1>1. NoMapping \in [opened : BOOLEAN, script : Script, read : 0 .. Len(Moments)]
  BY MomentsExist DEF NoMapping, Script
<1>2. CacheTypeOK'
  BY <1>1 DEF CacheInv, CacheTypeOK
<1>3. \A q \in Path : CacheIsDated(q)'
  BY DEF CacheInv, CacheIsDated, Compiled
<1>4. MappingIsDated'
  BY DEF CacheInv, MappingIsDated, Compiled
<1>. QED  BY <1>2, <1>3, <1>4 DEF CacheInv

(* compile_script() reads the file now ...                                 *)
LEMMA OpenStep ==
    ASSUME CacheInv, Open
    PROVE  CacheInv'
<1>1. /\ UNCHANGED <<clock, file, cache, compiled, path>> /\ pc' = "compile"
      /\ path \in Path
      /\ clock \in 1 .. Len(Moments) /\ Len(Moments) \in Nat
  BY MomentsExist DEF Open, CacheInv, CacheTypeOK, MappingIsDated
<1>2. Compiled(path) \in Script
  BY <1>1 DEF CacheInv, CacheTypeOK, Compiled, Script
<1>3. /\ mapping' \in [opened : BOOLEAN, script : Script, read : 0 .. Len(Moments)]
      /\ mapping'.read = clock
      /\ mapping'.opened => mapping'.script = Compiled(path)
  <2>1. CASE file[path].readable
    <3>1. mapping' = [opened |-> TRUE, script |-> Compiled(path), read |-> clock]
      BY <2>1 DEF Open
    <3>. QED  BY <1>1, <1>2, <3>1
  <2>2. CASE ~file[path].readable
    <3>1. mapping' = [NoMapping EXCEPT !.read = clock]
      BY <2>2 DEF Open
    <3>2. mapping' = [opened |-> FALSE, script |-> None, read |-> clock]
      BY <3>1 DEF NoMapping
    <3>3. None \in Script  BY DEF Script
    <3>. QED  BY <1>1, <3>2, <3>3
  <2>. QED  BY <2>1, <2>2
<1>4. CacheTypeOK'
  BY <1>1, <1>3 DEF CacheInv, CacheTypeOK
<1>5. \A q \in Path : CacheIsDated(q)'
  BY <1>1 DEF CacheInv, CacheIsDated, Compiled
<1>6. MappingIsDated'
  BY <1>1, <1>3 DEF MappingIsDated, Compiled
<1>. QED  BY <1>4, <1>5, <1>6 DEF CacheInv

(* ... and stores what it has compiled, with the time it is then.          *)
LEMMA CompileStep ==
    ASSUME CacheInv, Compile
    PROVE  CacheInv'
<1>1. /\ UNCHANGED <<clock, file, path, mapping>> /\ pc = "compile" /\ pc' = "compiled"
      /\ path \in Path
      /\ clock \in 1 .. Len(Moments) /\ Len(Moments) \in Nat
      /\ mapping.read \in 1 .. clock
      /\ mapping.opened /\ file[path].mtime < mapping.read => mapping.script = Compiled(path)
      /\ mapping.opened \in BOOLEAN /\ mapping.script \in Script
      /\ cache \in [Path -> Mapping \cup {None}]
      /\ compiled \in [Path -> Compilation \cup {None}]
  BY MomentsExist DEF Compile, CacheInv, CacheTypeOK, MappingIsDated
<1>. DEFINE entry == [script |-> IF mapping.opened THEN mapping.script
                                 ELSE IF cache[path] = None THEN None
                                 ELSE cache[path].script,
                      error |-> IF mapping.opened THEN "" ELSE "Unable to include file",
                      last_cached |-> Now]
            record == [opened |-> mapping.opened, from |-> mapping.read, to |-> clock]
<1>2. cache' = [cache EXCEPT ![path] = entry] /\ compiled' = [compiled EXCEPT ![path] = record]
  BY DEF Compile
<1>3. entry \in Mapping
  <2>1. cache[path] # None => cache[path].script \in Script
    BY <1>1 DEF Mapping
  <2>2. None \in Script
    BY DEF Script
  <2>3. Now \in {DateTime(Moments[i]) : i \in 1 .. Len(Moments)}
    BY <1>1 DEF Now
  <2>. QED  BY <1>1, <2>1, <2>2, <2>3 DEF Mapping
<1>4. record \in Compilation
  BY <1>1 DEF Compilation
<1>5. CacheTypeOK'
  <2>. HIDE DEF entry, record
  <2>. QED  BY <1>1, <1>2, <1>3, <1>4 DEF CacheInv, CacheTypeOK
<1>6. ASSUME NEW q \in Path
      PROVE  CacheIsDated(q)'
  <2>1. CASE q = path
    <3>1. cache'[q] = entry /\ compiled'[q] = record
      BY <1>1, <1>2, <2>1
    <3>2. /\ mapping.opened => entry.script = mapping.script
          /\ entry.last_cached = DateTime(Moments[clock])
      BY DEF Now
    <3>3. record.opened = mapping.opened /\ record.from = mapping.read /\ record.to = clock
      OBVIOUS
    <3>4. Compiled(q)' = Compiled(q) /\ file' = file /\ clock' = clock
      BY <1>1 DEF Compiled
    <3>. HIDE DEF entry, record
    <3>. QED  BY <1>1, <1>4, <2>1, <3>1, <3>2, <3>3, <3>4 DEF CacheIsDated
  <2>2. CASE q # path
    <3>1. cache'[q] = cache[q] /\ compiled'[q] = compiled[q]
      BY <1>1, <1>2, <1>6, <2>2
    <3>2. CacheIsDated(q)
      BY DEF CacheInv
    <3>. QED  BY <1>1, <3>1, <3>2 DEF CacheIsDated, Compiled
  <2>. QED  BY <2>1, <2>2
<1>7. MappingIsDated'
  BY <1>1 DEF MappingIsDated
<1>. QED  BY <1>5, <1>6, <1>7 DEF CacheInv

(* For any scripts, edits and moments: an edit of a file that is compiled  *)
(* goes unnoticed only if it falls between the opening of the file and the *)
(* time set as last_cached, or if DateTime takes its time for midnight.    *)
THEOREM EditsAreSeen == Spec => []EditsAreNoticed
<1>1. CacheInv /\ [Next]_vars => CacheInv'
  <2>. SUFFICES ASSUME CacheInv, [Next]_vars PROVE CacheInv'
    OBVIOUS
  <2>1. CASE UNCHANGED <<clock, file, pc, serverVars>>
    BY <2>1, CacheUntouched DEF serverVars
  <2>2. CASE Tick
    BY <2>2, TimePasses
  <2>3. ASSUME NEW p \in Path, Edit(p) \/ Protect(p)
        PROVE  CacheInv'
    BY <2>3, EditStep, ProtectStep
  <2>4. CASE Mark \/ \E c \in Client : Connect(c) \/ Collect(c) \/ Accept(c)
    BY <2>4, CacheUntouched DEF Mark, Connect, Collect, Accept, serverVars
  <2>5. CASE ServeOther \/ ServeIncomplete \/ Close
    BY <2>5, CacheUntouched DEF ServeOther, ServeIncomplete, Close, Return
  <2>6. ASSUME NEW p \in Path, ServeScript(p)
        PROVE  CacheInv'
    BY <2>6, CacheUntouched DEF ServeScript
  <2>7. CASE Open
    BY <2>7, OpenStep
  <2>8. CASE Compile
    BY <2>8, CompileStep
  <2>9. CASE Execute \/ ReportError \/ Step
    <3>1. /\ UNCHANGED <<clock, file, cache, compiled, path, mapping>>
          /\ pc' = pc \/ pc' \notin {"open", "compile"}
      BY <2>9 DEF Execute, ReportError, Step, serverVars
    <3>. QED  BY <3>1, CacheUntouched
  <2>. QED
    BY <2>1, <2>2, <2>3, <2>4, <2>5, <2>6, <2>7, <2>8, <2>9
       DEF Next, Environment, Serve, vars
<1>. QED  BY <1>1, CacheIsEmpty, CacheInvImpliesNoticed, PTL DEF Spec

-----------------------------------------------------------------------------
(* THE PARTS OF A DATE *)

ValidDate ==
    {d \in [year : Int, month : Month, day : 1 .. 31] :
        d.day <= days_in_month(d.month, is_leap_year(d.year))}

(* Days before a year, and of it before a month.                           *)
YearStart(y)  == 365 * (y - 1) + (y - 1) \div 4 - (y - 1) \div 100 + (y - 1) \div 400

MonthStart(m, leap) ==
    <<0, 31, 59, 90, 120, 151, 181, 212, 243, 273, 304, 334>>[m]
        + (IF leap /\ m > 2 THEN 1 ELSE 0)

LeapDay(y) == IF is_leap_year(y) THEN 1 ELSE 0

LEMMA YearStep ==
    ASSUME NEW y \in Int
    PROVE  YearStart(y + 1) = YearStart(y) + 365 + LeapDay(y)
<1>1. y \div 4 = (y - 1) \div 4 + (IF y % 4 = 0 THEN 1 ELSE 0)
  OBVIOUS
<1>2. y \div 100 = (y - 1) \div 100 + (IF y % 100 = 0 THEN 1 ELSE 0)
  OBVIOUS
<1>3. y \div 400 = (y - 1) \div 400 + (IF y % 400 = 0 THEN 1 ELSE 0)
  OBVIOUS
<1>4. /\ y % 100 = 0 => y % 4 = 0
      /\ y % 400 = 0 => y % 100 = 0
  OBVIOUS
<1> QED
  BY <1>1, <1>2, <1>3, <1>4 DEF YearStart, LeapDay, is_leap_year

(* Years have at least 365 days, so that a later one begins later.         *)
LEMMA LaterYears ==
    ASSUME NEW y \in Int, NEW z \in Int, y < z
    PROVE  YearStart(y) + 365 <= YearStart(z)
<1> DEFINE a == y - 1
           b == z - 1
<1>1. a \in Int /\ b \in Int /\ a + 1 <= b
  OBVIOUS
<1> HIDE DEF a, b
<1>2. a \div 4 <= b \div 4 /\ a \div 400 <= b \div 400
  BY <1>1
<1>3. b \div 100 - a \div 100 <= b - a
  BY <1>1
<1>4. 365 * a + 365 + a \div 4 - a \div 100 + a \div 400 <= 365 * b + b \div 4 - b \div 100 + b \div 400
  BY <1>1, <1>2, <1>3
<1> QED
  BY <1>4 DEF YearStart, a, b

LEMMA MonthStep ==
    ASSUME NEW m \in Month, NEW leap \in BOOLEAN
    PROVE  /\ MonthStart(m, leap) \in Nat
           /\ days_in_month(m, leap) \in 28 .. 31
           /\ m # DECEMBER => MonthStart(m + 1, leap) = MonthStart(m, leap) + days_in_month(m, leap)
           /\ m = DECEMBER => MonthStart(m, leap) + days_in_month(m, leap) = 365 + (IF leap THEN 1 ELSE 0)
           /\ m = JANUARY => MonthStart(m, leap) = 0
           /\ m # JANUARY => MonthStart(m, leap) >= 31
<1>1. m \in {1, 2, 3, 4, 5, 6, 7, 8, 9, 10, 11, 12}
  BY DEF Month
<1> QED
  BY <1>1 DEF MonthStart, days_in_month, DECEMBER, JANUARY

LEMMA Fields ==
    ASSUME NEW d \in ValidDate
    PROVE  /\ d.year \in Int /\ d.month \in Month /\ d.day \in Nat /\ is_leap_year(d.year) \in BOOLEAN
           /\ d.day >= 1 /\ d.day <= days_in_month(d.month, is_leap_year(d.year)) /\ d.day <= 31
           /\ d = [year |-> d.year, month |-> d.month, day |-> d.day]
<1>1. is_leap_year(d.year) \in BOOLEAN
  BY DEF is_leap_year
<1>2. /\ d \in [year : Int, month : Month, day : 1 .. 31]
      /\ d.day <= days_in_month(d.month, is_leap_year(d.year))
  BY DEF ValidDate
<1>3. d = [year |-> d.year, month |-> d.month, day |-> d.day]
  BY <1>2
<1> QED
  BY <1>1, <1>2, <1>3

LEMMA DayNumberParts ==
    ASSUME NEW d \in ValidDate
    PROVE  /\ DayNumber(d) = YearStart(d.year) + MonthStart(d.month, is_leap_year(d.year)) + d.day - 1
           /\ YearStart(d.year) \in Int /\ MonthStart(d.month, is_leap_year(d.year)) \in Nat
           /\ DayNumber(d) \in Int
<1>1. d.year \in Int /\ d.month \in Month /\ d.day \in Int /\ is_leap_year(d.year) \in BOOLEAN
  BY Fields
<1>2. is_leap_year(d.year) <=> (d.year % 4 = 0) /\ (d.year % 100 = 0 => d.year % 400 = 0)
  BY <1>1 DEF is_leap_year
<1>3. MonthStart(d.month, is_leap_year(d.year)) \in Nat
  BY <1>1, MonthStep
<1>4. YearStart(d.year) \in Int
  BY <1>1 DEF YearStart
<1>5. DayNumber(d) = YearStart(d.year) + MonthStart(d.month, is_leap_year(d.year)) + d.day - 1
  BY <1>1, <1>2 DEF DayNumber, YearStart, MonthStart, Month
<1> QED
  BY <1>1, <1>3, <1>4, <1>5

-----------------------------------------------------------------------------
(* A STEP *)

(* The day after a date, and the day before it.                            *)
LEMMA NextDay ==
    ASSUME NEW d \in ValidDate
    PROVE  /\ Increment(d) \in ValidDate
           /\ DayNumber(Increment(d)) = DayNumber(d) + 1
           /\ Date_Compare(Increment(d), d) = 1
<1> DEFINE leap == is_leap_year(d.year)
           last == days_in_month(d.month, leap)
<1>1. /\ d.year \in Int /\ d.month \in Month /\ d.day \in Nat /\ leap \in BOOLEAN
      /\ d.day >= 1 /\ d.day <= last
      /\ d = [year |-> d.year, month |-> d.month, day |-> d.day]
  BY Fields
<1>2. last \in 28 .. 31
  BY <1>1, MonthStep
<1>3. /\ is_leap_year(d.year + 1) \in BOOLEAN
      /\ \A l \in BOOLEAN, m \in Month : days_in_month(m, l) \in 28 .. 31
  <2>1. is_leap_year(d.year + 1) \in BOOLEAN
    BY DEF is_leap_year
  <2> QED
    BY <2>1, MonthStep
<1>4. CASE d.day # last
  <2>1. Increment(d) = [year |-> d.year, month |-> d.month, day |-> d.day + 1]
    BY <1>1, <1>4 DEF Increment, GetDaysInMonth
  <2>2. Increment(d) \in ValidDate
    BY <1>1, <1>2, <1>4, <2>1 DEF ValidDate
  <2>3. DayNumber(Increment(d)) = DayNumber(d) + 1
    BY <1>1, <2>1, <2>2, DayNumberParts
  <2>4. Date_Compare(Increment(d), d) = 1
    BY <1>1, <2>1 DEF Date_Compare, Then, Order
  <2> QED
    BY <2>2, <2>3, <2>4
<1>5. CASE d.day = last /\ d.month # DECEMBER
  <2>1. Increment(d) = [year |-> d.year, month |-> d.month + 1, day |-> 1]
    BY <1>1, <1>5 DEF Increment, GetDaysInMonth
  <2>2. d.month + 1 \in Month
    BY <1>1, <1>5 DEF Month, DECEMBER
  <2>3. Increment(d) \in ValidDate
    BY <1>1, <1>3, <2>1, <2>2 DEF ValidDate
  <2>4. MonthStart(d.month + 1, leap) = MonthStart(d.month, leap) + last
    BY <1>1, <1>5, MonthStep
  <2>5. DayNumber(Increment(d)) = DayNumber(d) + 1
    BY <1>1, <1>2, <1>5, <2>1, <2>3, <2>4, DayNumberParts
  <2>6. Date_Compare(Increment(d), d) = 1
    BY <1>1, <2>1 DEF Date_Compare, Then, Order, Month
  <2> QED
    BY <2>3, <2>5, <2>6
<1>6. CASE d.day = last /\ d.month = DECEMBER
  <2>1. Increment(d) = [year |-> d.year + 1, month |-> JANUARY, day |-> 1]
    BY <1>1, <1>6 DEF Increment, GetDaysInMonth
  <2>2. JANUARY \in Month
    BY DEF Month, JANUARY
  <2>3. Increment(d) \in ValidDate
    BY <1>1, <1>3, <2>1, <2>2 DEF ValidDate
  <2>4. MonthStart(d.month, leap) + last = 365 + LeapDay(d.year)
    BY <1>1, <1>6, MonthStep DEF LeapDay
  <2>5. MonthStart(JANUARY, is_leap_year(d.year + 1)) = 0
    BY <1>3, <2>2, MonthStep
  <2>6. YearStart(d.year + 1) = YearStart(d.year) + 365 + LeapDay(d.year)
    BY <1>1, YearStep
  <2>7. DayNumber(Increment(d)) = DayNumber(d) + 1
    BY <1>1, <1>2, <1>6, <2>1, <2>3, <2>4, <2>5, <2>6, DayNumberParts DEF LeapDay
  <2>8. Date_Compare(Increment(d), d) = 1
    BY <1>1, <2>1 DEF Date_Compare, Then, Order
  <2> QED
    BY <2>3, <2>7, <2>8
<1> QED
  BY <1>4, <1>5, <1>6

LEMMA DayBefore ==
    ASSUME NEW d \in ValidDate
    PROVE  /\ Decrement(d) \in ValidDate
           /\ DayNumber(Decrement(d)) = DayNumber(d) - 1
           /\ Date_Compare(Decrement(d), d) = -1
<1> DEFINE leap == is_leap_year(d.year)
<1>1. /\ d.year \in Int /\ d.month \in Month /\ d.day \in Nat /\ leap \in BOOLEAN
      /\ d.day >= 1 /\ d.day <= days_in_month(d.month, leap) /\ d.day <= 31
      /\ d = [year |-> d.year, month |-> d.month, day |-> d.day]
  BY Fields
<1>2. /\ is_leap_year(d.year - 1) \in BOOLEAN
      /\ \A l \in BOOLEAN, m \in Month : days_in_month(m, l) \in 28 .. 31
  <2>1. is_leap_year(d.year - 1) \in BOOLEAN
    BY DEF is_leap_year
  <2> QED
    BY <2>1, MonthStep
<1>3. CASE d.day > 1
  <2>1. Decrement(d) = [year |-> d.year, month |-> d.month, day |-> d.day - 1]
    BY <1>1, <1>3 DEF Decrement
  <2>2. Decrement(d) \in ValidDate
    <3>1. d.day - 1 \in 1 .. 31 /\ d.day - 1 <= days_in_month(d.month, leap)
      BY <1>1, <1>2, <1>3
    <3> QED
      BY <1>1, <2>1, <3>1 DEF ValidDate
  <2>3. DayNumber(Decrement(d)) = DayNumber(d) - 1
    BY <1>1, <2>1, <2>2, DayNumberParts
  <2>4. Date_Compare(Decrement(d), d) = -1
    <3>1. Order(d.year, d.year) = 0 /\ Order(d.month, d.month) = 0 /\ Order(d.day - 1, d.day) = -1
      BY <1>1 DEF Order, Month
    <3> QED
      BY <2>1, <3>1 DEF Date_Compare, Then
  <2> QED
    BY <2>2, <2>3, <2>4
<1>4. CASE d.day = 1 /\ d.month # JANUARY
  <2> DEFINE last == days_in_month(d.month - 1, leap)
  <2>1. Decrement(d) = [year |-> d.year, month |-> d.month - 1, day |-> last]
    BY <1>1, <1>4 DEF Decrement
  <2>2. d.month - 1 \in Month /\ d.month - 1 # DECEMBER /\ (d.month - 1) + 1 = d.month
    BY <1>1, <1>4 DEF Month, JANUARY, DECEMBER
  <2>3. last \in 28 .. 31 /\ MonthStart(d.month, leap) = MonthStart(d.month - 1, leap) + last
    BY <1>1, <2>2, MonthStep
  <2>4. Decrement(d) \in ValidDate
    BY <1>1, <2>1, <2>2, <2>3 DEF ValidDate
  <2>5. DayNumber(Decrement(d)) = DayNumber(d) - 1
    BY <1>1, <1>4, <2>1, <2>3, <2>4, DayNumberParts
  <2>6. Date_Compare(Decrement(d), d) = -1
    BY <1>1, <2>1 DEF Date_Compare, Then, Order, Month
  <2> QED
    BY <2>4, <2>5, <2>6
<1>5. CASE d.day = 1 /\ d.month = JANUARY
  <2> DEFINE old == is_leap_year(d.year - 1)
  <2>1. Decrement(d) = [year |-> d.year - 1, month |-> DECEMBER, day |-> 31]
    BY <1>1, <1>5 DEF Decrement
  <2>2. DECEMBER \in Month /\ days_in_month(DECEMBER, old) = 31
    BY DEF Month, DECEMBER, days_in_month
  <2>3. Decrement(d) \in ValidDate
    BY <1>1, <2>1, <2>2 DEF ValidDate
  <2>4. MonthStart(DECEMBER, old) + 31 = 365 + LeapDay(d.year - 1)
    BY <1>2, <2>2, MonthStep DEF LeapDay
  <2>5. MonthStart(d.month, leap) = 0
    BY <1>1, <1>5, MonthStep
  <2>6. YearStart(d.year) = YearStart(d.year - 1) + 365 + LeapDay(d.year - 1)
    <3>1. d.year - 1 \in Int /\ (d.year - 1) + 1 = d.year
      BY <1>1
    <3> QED
      BY <3>1, YearStep
  <2>7. DayNumber(Decrement(d)) = DayNumber(d) - 1
    BY <1>1, <1>5, <2>1, <2>3, <2>4, <2>5, <2>6, DayNumberParts DEF LeapDay
  <2>8. Date_Compare(Decrement(d), d) = -1
    BY <1>1, <2>1 DEF Date_Compare, Then, Order
  <2> QED
    BY <2>3, <2>7, <2>8
<1> QED
  BY <1>1, <1>3, <1>4, <1>5

-----------------------------------------------------------------------------
(* THE DAY OF THE YEAR *)

(* The sum over the months before is the entry of the table.               *)
LEMMA DayOfYear ==
    ASSUME NEW d \in ValidDate
    PROVE  GetDayOfYear(d) = MonthStart(d.month, is_leap_year(d.year)) + d.day
<1> DEFINE leap == is_leap_year(d.year)
           sum(f) == [m \in 0 .. 12 |-> IF m = 0 THEN 0 ELSE f[m - 1] + days_in_month(m, leap)]
           before == CHOOSE f : f = sum(f)
           known  == [m \in 0 .. 12 |-> IF m = 12 THEN 365 + (IF leap THEN 1 ELSE 0)
                                                  ELSE MonthStart(m + 1, leap)]
<1>1. leap \in BOOLEAN /\ d.month \in Month
  BY Fields
<1>2. known = sum(known)
  <2> SUFFICES ASSUME NEW m \in 0 .. 12
               PROVE  known[m] = IF m = 0 THEN 0 ELSE known[m - 1] + days_in_month(m, leap)
    OBVIOUS
  <2>1. CASE m = 0
    BY <1>1, <2>1, MonthStep DEF Month, JANUARY
  <2>2. CASE m # 0
    <3>1. m \in Month /\ m - 1 \in 0 .. 12 /\ m - 1 # 12 /\ (m - 1) + 1 = m
      BY <2>2 DEF Month
    <3>2. known[m - 1] = MonthStart(m, leap)
      BY <3>1
    <3>3. known[m] = MonthStart(m, leap) + days_in_month(m, leap)
      BY <1>1, <3>1, MonthStep DEF DECEMBER
    <3> QED
      BY <2>2, <3>2, <3>3
  <2> QED
    BY <2>1, <2>2
<1>3. before = sum(before)
  <2> HIDE DEF known, sum
  <2> QED
    BY <1>2
<1>4. \A m \in 0 .. 12 : before[m] = IF m = 0 THEN 0 ELSE before[m - 1] + days_in_month(m, leap)
  <2> HIDE DEF before
  <2> QED
    BY <1>3
<1>5. GetDayOfYear(d) = before[d.month - 1] + d.day
  BY DEF GetDayOfYear
<1> HIDE DEF before
<1>6. before[0] = 0
  BY <1>4
<1>7. \A m \in 0 .. 11 : before[m + 1] = before[m] + days_in_month(m + 1, leap)
  BY <1>4
<1>8. \A m \in 0 .. 10 : before[m] = MonthStart(m + 1, leap) => before[m + 1] = MonthStart(m + 2, leap)
  <2> SUFFICES ASSUME NEW m \in 0 .. 10, before[m] = MonthStart(m + 1, leap)
               PROVE  before[m + 1] = MonthStart(m + 2, leap)
    OBVIOUS
  <2>1. m + 1 \in Month /\ m + 1 # DECEMBER /\ (m + 1) + 1 = m + 2
    BY DEF Month, DECEMBER
  <2>2. MonthStart((m + 1) + 1, leap) = MonthStart(m + 1, leap) + days_in_month(m + 1, leap)
    BY <1>1, <2>1, MonthStep
  <2> QED
    BY <1>7, <2>1, <2>2
<1>9. MonthStart(1, leap) = 0
  BY <1>1, MonthStep DEF Month, JANUARY
<1>10. \A m \in 0 .. 11 : before[m] = MonthStart(m + 1, leap)
  <2> HIDE DEF leap
  <2>1. before[1] = MonthStart(2, leap) /\ before[2] = MonthStart(3, leap) /\ before[3] = MonthStart(4, leap)
    BY <1>6, <1>8, <1>9
  <2>2. before[4] = MonthStart(5, leap) /\ before[5] = MonthStart(6, leap) /\ before[6] = MonthStart(7, leap)
    BY <1>8, <2>1
  <2>3. before[7] = MonthStart(8, leap) /\ before[8] = MonthStart(9, leap) /\ before[9] = MonthStart(10, leap)
    BY <1>8, <2>2
  <2>4. before[10] = MonthStart(11, leap) /\ before[11] = MonthStart(12, leap)
    BY <1>8, <2>3
  <2> QED
    BY <1>6, <1>9, <2>1, <2>2, <2>3, <2>4
<1>11. d.month - 1 \in 0 .. 11 /\ (d.month - 1) + 1 = d.month
  BY <1>1 DEF Month
<1> QED
  BY <1>5, <1>10, <1>11

-----------------------------------------------------------------------------
(* THE WALK *)

(* The walk has gone on from its first day by as many days as were counted.*)
WalkInv ==
    /\ first \in Nat /\ days \in Nat
    /\ date \in ValidDate
    /\ DayNumber(date) = DayNumber(Start(first)) + days

LEMMA Starts ==
    ASSUME NEW y \in Int
    PROVE  /\ Start(y) = [year |-> y, month |-> JANUARY, day |-> 1]
           /\ Start(y) \in ValidDate
           /\ DayNumber(Start(y)) = YearStart(y)
<1>1. is_leap_year(y) \in BOOLEAN /\ JANUARY \in Month
  BY DEF is_leap_year, Month, JANUARY
<1>2. days_in_month(JANUARY, is_leap_year(y)) = 31 /\ MonthStart(JANUARY, is_leap_year(y)) = 0
  BY <1>1, MonthStep DEF days_in_month, JANUARY
<1>3. Start(y) = [year |-> y, month |-> JANUARY, day |-> 1]
  BY <1>2 DEF Start, Date, Date_IsValid
<1>4. Start(y) \in ValidDate
  BY <1>1, <1>2, <1>3 DEF ValidDate
<1>5. YearStart(y) \in Int
  BY DEF YearStart
<1>6. DayNumber(Start(y)) = YearStart(Start(y).year) + MonthStart(Start(y).month, is_leap_year(Start(y).year)) + Start(y).day - 1
  BY <1>4, DayNumberParts
<1> QED
  BY <1>2, <1>3, <1>4, <1>5, <1>6

LEMMA WalkBegins == WalkInit => WalkInv
<1> SUFFICES ASSUME WalkInit  PROVE WalkInv
  OBVIOUS
<1>1. first \in Nat /\ days = 0 /\ date = Start(first)
  BY WalkAssumption DEF WalkInit
<1> QED
  BY <1>1, Starts, DayNumberParts DEF WalkInv

LEMMA WalkGoesOn == WalkInv /\ [WalkNext]_walkVars => WalkInv'
<1> SUFFICES ASSUME WalkInv, [WalkNext]_walkVars  PROVE WalkInv'
  OBVIOUS
<1>1. DayNumber(date) \in Int /\ DayNumber(Start(first)) \in Int
  BY DayNumberParts, Starts DEF WalkInv
<1>2. CASE Forward
  <2>1. first' = first /\ date' = Increment(date) /\ days' = days + 1
    BY <1>2 DEF Forward
  <2>2. date' \in ValidDate /\ DayNumber(date)' = DayNumber(date) + 1
    BY <2>1, NextDay DEF WalkInv
  <2> QED
    BY <1>1, <2>1, <2>2 DEF WalkInv
<1>3. CASE Backward
  <2>1. first' = first /\ date' = Decrement(date) /\ days' = days - 1 /\ days > 0
    BY <1>3 DEF Backward
  <2>2. date' \in ValidDate /\ DayNumber(date)' = DayNumber(date) - 1
    BY <2>1, DayBefore DEF WalkInv
  <2> QED
    BY <1>1, <2>1, <2>2 DEF WalkInv
<1>4. CASE UNCHANGED walkVars
  BY <1>4 DEF walkVars, WalkInv
<1> QED
  BY <1>2, <1>3, <1>4 DEF WalkNext

(* A date is in its year.                                                  *)
LEMMA InItsYear ==
    ASSUME NEW d \in ValidDate
    PROVE  YearStart(d.year) <= DayNumber(d) /\ DayNumber(d) < YearStart(d.year + 1)
<1> DEFINE leap == is_leap_year(d.year)
           before == MonthStart(d.month, leap)
<1>1. d.year \in Int /\ d.month \in Month /\ d.day \in Nat /\ leap \in BOOLEAN /\ d.day >= 1
  BY Fields
<1>2. before + d.day <= 365 + LeapDay(d.year)
  <2>1. d.day <= days_in_month(d.month, leap) /\ days_in_month(d.month, leap) \in 28 .. 31
    BY <1>1, Fields, MonthStep
  <2>2. before \in Nat /\ before + days_in_month(d.month, leap) <= 365 + LeapDay(d.year)
    <3>1. d.month \in {1, 2, 3, 4, 5, 6, 7, 8, 9, 10, 11, 12}
      BY <1>1 DEF Month
    <3> QED
      BY <1>1, <3>1, MonthStep DEF MonthStart, days_in_month, LeapDay
  <2> QED
    BY <1>1, <2>1, <2>2 DEF LeapDay
<1>3. /\ DayNumber(d) = YearStart(d.year) + before + d.day - 1
      /\ YearStart(d.year) \in Int /\ before \in Nat
  BY DayNumberParts
<1>4. YearStart(d.year + 1) = YearStart(d.year) + 365 + LeapDay(d.year)
  BY <1>1, YearStep
<1> HIDE DEF before
<1> QED
  BY <1>1, <1>2, <1>3, <1>4 DEF LeapDay

(* A date that is not the first one is later.                              *)
LEMMA WalkIsOrdered ==
    ASSUME WalkInv
    PROVE  Date_Compare(date, Start(first)) = Order(days, 0)
<1> DEFINE leap == is_leap_year(date.year)
           y == date.year
<1>1. /\ date \in ValidDate /\ first \in Int /\ days \in Nat
      /\ DayNumber(date) = YearStart(first) + days
      /\ Start(first) = [year |-> first, month |-> JANUARY, day |-> 1]
  BY Starts DEF WalkInv
<1>2. y \in Int /\ date.month \in Month /\ date.day \in Nat /\ leap \in BOOLEAN /\ date.day >= 1
  BY <1>1, Fields
<1>3. /\ DayNumber(date) = YearStart(y) + MonthStart(date.month, leap) + date.day - 1
      /\ YearStart(y) \in Int /\ MonthStart(date.month, leap) \in Nat
      /\ YearStart(y) <= DayNumber(date) /\ DayNumber(date) < YearStart(y + 1)
  BY <1>1, DayNumberParts, InItsYear
<1>4. YearStart(first) \in Int /\ YearStart(y + 1) \in Int
  BY <1>1, <1>2 DEF YearStart
<1>5. ~(y < first)
  <2> SUFFICES ASSUME y < first  PROVE FALSE
    OBVIOUS
  <2>1. y + 1 = first \/ y + 1 < first
    BY <1>1, <1>2
  <2>2. YearStart(y + 1) <= YearStart(first)
    <3>1. CASE y + 1 = first
      BY <1>4, <3>1
    <3>2. CASE y + 1 < first
      <4>1. y + 1 \in Int
        BY <1>2
      <4>2. YearStart(y + 1) + 365 <= YearStart(first)
        BY <1>1, <3>2, <4>1, LaterYears
      <4> QED
        BY <1>4, <4>2
    <3> QED
      BY <2>1, <3>1, <3>2
  <2> QED
    BY <1>1, <1>3, <1>4, <2>2
<1>6. CASE y > first
  <2>1. YearStart(first) + 365 <= YearStart(y)
    BY <1>1, <1>2, <1>6, LaterYears
  <2>2. days > 0
    BY <1>1, <1>3, <1>4, <2>1
  <2>3. Order(y, first) = 1 /\ Order(days, 0) = 1
    BY <1>6, <2>2 DEF Order
  <2> QED
    BY <1>1, <2>3 DEF Date_Compare, Then
<1>7. CASE y = first /\ date.month = JANUARY
  <2>1. MonthStart(date.month, leap) = 0
    BY <1>2, <1>7, MonthStep
  <2>2. days = date.day - 1
    BY <1>1, <1>2, <1>3, <1>4, <1>7, <2>1
  <2>3. Order(y, first) = 0 /\ Order(date.month, JANUARY) = 0 /\ Order(date.day, 1) = Order(days, 0)
    BY <1>2, <1>7, <2>2 DEF Order, JANUARY
  <2> QED
    BY <1>1, <2>3 DEF Date_Compare, Then
<1>8. CASE y = first /\ date.month # JANUARY
  <2>1. MonthStart(date.month, leap) >= 31
    BY <1>2, <1>8, MonthStep
  <2>2. days > 0
    BY <1>1, <1>2, <1>3, <1>4, <1>8, <2>1
  <2>3. Order(y, first) = 0 /\ Order(date.month, JANUARY) = 1 /\ Order(days, 0) = 1
    BY <1>2, <1>8, <2>2 DEF Order, JANUARY, Month
  <2> QED
    BY <1>1, <2>3 DEF Date_Compare, Then
<1> QED
  BY <1>1, <1>2, <1>5, <1>6, <1>7, <1>8

LEMMA WalkIsByDays ==
    ASSUME WalkInv
    PROVE  StepsAreDays
<1>1. date \in ValidDate /\ DayNumber(date) = DayNumber(Start(first)) + days
  BY DEF WalkInv
<1>2. Date_IsValid(date.year, date.month, date.day)
  BY <1>1, Fields DEF Date_IsValid
<1>3. DayOfYearCounts
  <2> DEFINE last == [year |-> date.year - 1, month |-> 12, day |-> 31]
             old == is_leap_year(date.year - 1)
  <2>1. date.year \in Int /\ date.day \in Nat /\ date.month \in Month /\ is_leap_year(date.year) \in BOOLEAN
    BY <1>1, Fields
  <2>2. old \in BOOLEAN /\ DECEMBER = 12 /\ DECEMBER \in Month
    BY DEF is_leap_year, Month, DECEMBER
  <2>3. last \in ValidDate
    BY <2>1, <2>2 DEF ValidDate, days_in_month
  <2>4. MonthStart(12, old) + 31 = 365 + LeapDay(date.year - 1)
    <3>1. days_in_month(12, old) = 31
      BY DEF days_in_month
    <3> QED
      BY <2>2, <3>1, MonthStep DEF LeapDay
  <2>5. DayNumber(last) = YearStart(date.year - 1) + MonthStart(12, old) + 31 - 1
    BY <2>3, DayNumberParts
  <2>6. YearStart(date.year) = YearStart(date.year - 1) + 365 + LeapDay(date.year - 1)
    <3>1. date.year - 1 \in Int /\ (date.year - 1) + 1 = date.year
      BY <2>1
    <3> QED
      BY <3>1, YearStep
  <2>7. YearStart(date.year - 1) \in Int /\ MonthStart(12, old) \in Nat
    BY <2>1, <2>2, MonthStep DEF YearStart
  <2>8. DayNumber(last) = YearStart(date.year) - 1
    BY <2>1, <2>4, <2>5, <2>6, <2>7 DEF LeapDay
  <2>9. GetDayOfYear(date) = MonthStart(date.month, is_leap_year(date.year)) + date.day
    BY <1>1, DayOfYear
  <2>10. /\ DayNumber(date) = YearStart(date.year) + MonthStart(date.month, is_leap_year(date.year)) + date.day - 1
         /\ YearStart(date.year) \in Int /\ MonthStart(date.month, is_leap_year(date.year)) \in Nat
    BY <1>1, DayNumberParts
  <2>11. GetDayOfYear(date) = DayNumber(date) - DayNumber(last)
    BY <2>1, <2>8, <2>9, <2>10
  <2> QED
    BY <2>11 DEF DayOfYearCounts
<1> QED
  BY <1>1, <1>2, <1>3 DEF StepsAreDays

(* A step forth leads to a later date, one back to an earlier one.         *)
LEMMA StepsAreOrdered ==
    ASSUME WalkInv, [WalkNext]_walkVars
    PROVE  [Date_Compare(date', date) = Order(days', days)]_walkVars
<1>1. CASE Forward
  BY <1>1, NextDay DEF Forward, WalkInv, Order
<1>2. CASE Backward
  BY <1>2, DayBefore DEF Backward, WalkInv, Order
<1> QED
  BY <1>1, <1>2 DEF WalkNext

(* Whatever year a walk begins in and however long it is, n steps of ++    *)
(* and -- (core/date.cc) lead to the date that is n days away: no month,   *)
(* leap year or century gains or loses one.                                *)
THEOREM StepsCountDays == WalkSpec => []StepsAreDays
<1> QED
  BY WalkBegins, WalkGoesOn, WalkIsByDays, PTL DEF WalkSpec

(* Compare() orders all these dates as the days pass.                      *)
THEOREM DatesAreOrdered == WalkSpec => OrderIsChronological
<1>1. WalkInv => Date_Compare(date, Start(first)) = Order(days, 0)
  BY WalkIsOrdered
<1>2. WalkInv /\ [WalkNext]_walkVars => [Date_Compare(date', date) = Order(days', days)]_walkVars
  BY StepsAreOrdered
<1> QED
  BY WalkBegins, WalkGoesOn, <1>1, <1>2, PTL DEF WalkSpec, OrderIsChronological
=============================================================================

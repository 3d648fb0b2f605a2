------------------------------- MODULE Response -------------------------------
(***************************************************************************)
(* The HTTP response to one script: class Response of src/sapi, its        *)
(* implementation HttpServerResponse, the members of the script object     *)
(* `response' (src/api/response.cc) and what HttpServer::ServeScript does  *)
(* with the response when the script has been executed.                    *)
(*                                                                         *)
(* What goes to the client is the sequence wire of messages: the status    *)
(* line with the headers, then pieces of the body.  Whether a piece is     *)
(* text, and its size, do not matter, except for empty pieces.             *)
(***************************************************************************)
EXTENDS Integers, Sequences

CONSTANTS Status,   \* the status codes a script sets
          MaxWire   \* bound of the model: messages a script sends

ASSUME StatusAssumption == Status \subseteq Nat
ASSUME WireAssumption   == MaxWire \in Nat

VARIABLES status,     \* m_status
          headers,    \* m_headers: the header fields that are set, and their values
          committed,  \* m_committed
          wire,       \* what has been sent
          pending,    \* whether the interpreter has an uncaught exception
          phase       \* "script": it executes; "finished", "failed": it has returned
                      \* true, or false and its exception has been sent; "crashed"

responseVars == <<status, headers, committed, wire, pending, phase>>

Field == {"Content-Type", "Location"}
Value == {"text/html", "text/plain", "of the script", "absent"}

StatusLine(s, h) == [message |-> "status line", status |-> s, fields |-> h]
Body  == [message |-> "body"]
Error == [message |-> "error"]
IsHead(m) == m.message = "status line"

(* Response::Response, and PushFrame: a script is about to be executed. *)
default_headers == [f \in Field |-> IF f = "Content-Type" THEN "text/html" ELSE "absent"]

Begin == /\ status' = 200
         /\ headers' = default_headers
         /\ committed' = FALSE
         /\ wire' = <<>>

ResponseInit == /\ status = 200
                /\ headers = default_headers
                /\ committed = FALSE
                /\ wire = <<>>
                /\ pending = FALSE
                /\ phase = "script"

-----------------------------------------------------------------------------
(* What is sent by a Commit() that finds this status and these headers. *)
Committing(s, h) == IF committed THEN wire ELSE Append(wire, StatusLine(s, h))

(* HttpServerResponse::Write of data that is not empty. *)
Writing(m, s, h) ==
    /\ wire' = Append(Committing(s, h), m)
    /\ committed' = TRUE

Executing == phase = "script"

(* Text of the template, a printed expression or Response#write(); nothing *)
(* at all happens when the text is empty.                                  *)
WriteText ==
    /\ Executing /\ Len(wire) < MaxWire
    /\ Writing(Body, status, headers)
    /\ UNCHANGED <<status, headers, pending, phase>>

(* A StateError is thrown when the headers are already sent. *)
HeadersAlreadySent ==
    /\ Executing /\ committed
    /\ pending' = TRUE
    /\ UNCHANGED <<status, headers, committed, wire, phase>>

(* Mutant: the header is set although headers have been sent. *)
SetHeaderLate(f) ==
    /\ Executing
    /\ headers' = [headers EXCEPT ![f] = "of the script"]
    /\ UNCHANGED <<status, committed, wire, pending, phase>>

(* Response#header(name, value) *)
SetHeader(f) ==
    /\ Executing /\ ~committed
    /\ headers' = [headers EXCEPT ![f] = "of the script"]
    /\ UNCHANGED <<status, committed, wire, pending, phase>>

(* Response#status(code) *)
SetStatus(s) ==
    /\ Executing /\ ~committed
    /\ status' = s
    /\ UNCHANGED <<headers, committed, wire, pending, phase>>

(* Response#redirect(url, permanent), which commits. *)
Redirect(s) ==
    /\ Executing /\ ~committed
    /\ status' = s
    /\ headers' = [headers EXCEPT !["Location"] = "of the script"]
    /\ wire' = Committing(status', headers')
    /\ committed' = TRUE
    /\ UNCHANGED <<pending, phase>>

(* The script throws an exception, or handles one. *)
Throw == /\ Executing /\ ~pending
         /\ pending' = TRUE
         /\ UNCHANGED <<status, headers, committed, wire, phase>>
Catch == /\ Executing /\ pending
         /\ pending' = FALSE
         /\ UNCHANGED <<status, headers, committed, wire, phase>>

-----------------------------------------------------------------------------
(* Execute() has returned true: the headers are sent if nothing else was. *)
Finish ==
    /\ Executing /\ ~pending
    /\ phase' = "finished"
    /\ wire' = Committing(status, headers)
    /\ committed' = TRUE
    /\ UNCHANGED <<status, headers, pending>>

(* Mutant: the headers of the script are kept. *)
SendExceptionKeepingHeaders ==
    IF committed
    THEN Writing(Error, status, headers) /\ UNCHANGED <<status, headers>>
    ELSE /\ status' = 500
         /\ headers' = [headers EXCEPT !["Content-Type"] = "text/plain"]
         /\ Writing(Error, status', headers')

(* Response::SendException: after the headers, the message is a piece of   *)
(* the body; before them, it replaces the response.                        *)
SendException ==
    IF committed
    THEN Writing(Error, status, headers) /\ UNCHANGED <<status, headers>>
    ELSE /\ status' = 500
         /\ headers' = [f \in Field |-> IF f = "Content-Type" THEN "text/plain" ELSE "absent"]
         /\ Writing(Error, status', headers')

(* Execute() has returned false. *)
Fail ==
    /\ Executing /\ pending
    /\ phase' = "failed"
    /\ SendException
    /\ UNCHANGED pending

(* It has, but there is no exception (module ScriptExecution shows how that *)
(* happens): SendException dereferences a null handle.                     *)
FailSilently ==
    /\ Executing /\ ~pending
    /\ phase' = "crashed"
    /\ UNCHANGED <<status, headers, committed, wire, pending>>

Respond == \/ WriteText \/ HeadersAlreadySent \/ Throw \/ Catch
           \/ \E f \in Field : SetHeader(f)
           \/ \E s \in Status : SetStatus(s)
           \/ \E s \in {301, 302} : Redirect(s)
           \/ Finish \/ Fail \/ FailSilently

-----------------------------------------------------------------------------
(* PROPERTIES                                                              *)

ResponseTypeOK ==
    /\ status \in Status \cup {200, 301, 302, 500}
    /\ headers \in [Field -> Value]
    /\ committed \in BOOLEAN /\ pending \in BOOLEAN
    /\ phase \in {"script", "finished", "failed", "crashed"}
    /\ Len(wire) <= MaxWire + 2

(* The status line and the headers are sent once, before any of the body,  *)
(* whatever the script writes, sets and throws in whatever order, and they *)
(* are those GetStatus() and GetHeaders() return ever after: neither the   *)
(* script nor a late SendException can believe in others.                  *)
HeadIsSentOnce ==
    /\ ResponseTypeOK
    /\ committed <=> wire # <<>>
    /\ committed => wire[1] = StatusLine(status, headers)
    /\ \A i \in 2 .. Len(wire) : ~IsHead(wire[i])

(* When ServeScript has done its work the client has got a response, and a *)
(* failure is its last message.  A failure of a script that had not sent   *)
(* anything replaces its response: nothing the script has set for a page   *)
(* that it did not write is sent.                                          *)
ScriptIsAnswered ==
    /\ phase = "finished" => wire # <<>>
    /\ phase = "failed" => wire # <<>> /\ wire[Len(wire)] = Error
    /\ (phase = "failed" /\ Len(wire) = 2 /\ status = 500)
          => headers["Location"] = "absent" /\ headers["Content-Type"] = "text/plain"
=============================================================================

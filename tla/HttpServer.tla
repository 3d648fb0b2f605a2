------------------------------ MODULE HttpServer ------------------------------
(***************************************************************************)
(* The built-in web server: src/sapi/httpd/server.cc.                      *)
(*                                                                         *)
(* One thread accepts a connection, answers one request on it and closes   *)
(* it.  Scripts are compiled once and cached with the time of compilation; *)
(* a script is compiled again when its file has been modified since.       *)
(* Meanwhile time passes, files are edited, clients connect, and any       *)
(* allocation may start the garbage collector, which calls                 *)
(* HttpServer::Mark() and closes sockets nobody refers to any more.        *)
(*                                                                         *)
(* The response of a script is module Response, the times that are         *)
(* compared are those of module DateTime.                                  *)
(***************************************************************************)
EXTENDS Response, DateTime

CONSTANTS Client,     \* clients
          Path,       \* the scripts below the root directory
          None,       \* a null handle, no entry of the cache, no connection
          Moments,    \* the local time at every tick of the clock
          MaxEdits    \* bound of the model: edits of a file

ASSUME ClientAssumption == None \notin Client \cup Path
ASSUME MomentAssumption ==
    /\ Moments \in Seq([year : Nat, month : Month, day : 1 .. 31,
                        hour : 0 .. 23, minute : 0 .. 59, second : 0 .. 60])
    /\ Moments # <<>>

(* The local time is always a date of the calendar and only goes forward:   *)
(* nobody sets the clock back, and it is not the end of a summer time.     *)
ASSUME ClockAssumption ==
    /\ \A i \in 1 .. Len(Moments) :
           Date_IsValid(Moments[i].year, Moments[i].month, Moments[i].day)
    /\ \A i, j \in 1 .. Len(Moments) :
           i < j => Then(Date_Compare(Moments[i], Moments[j]),
                         Time_Compare(Moments[i], Moments[j])) < 0
ASSUME BoundAssumption  == MaxEdits \in Nat

VARIABLES clock,      \* index of the present moment
          file,       \* the files: their contents, mtime and permissions
          cache,      \* m_script_cache
          compiled,   \* when a cached script was read and when last_cached was set
          conn,       \* the state of the connection of every client
          pc,         \* where in Run() the server is
          client,     \* the connection Serve() works on
          path,       \* the script ServeScript() works on
          mapping     \* what its file contained when it was compiled, and when

serverVars == <<cache, compiled, client, path, mapping>>
vars == <<clock, file, conn, pc, serverVars, responseVars>>

Now == DateTime(Moments[clock])
LastModified(p) == DateTime(Moments[file[p].mtime])

(* What compiling a file gives: a script, named after the edit, or null. *)
Compiled(p) == IF file[p].valid THEN file[p].edit ELSE None

NoMapping == [opened |-> FALSE, script |-> None, read |-> 0]

Init ==
    /\ clock = 1
    /\ file = [p \in Path |-> [edit |-> 0, mtime |-> 1, valid |-> TRUE, readable |-> TRUE]]
    /\ cache = [p \in Path |-> None]
    /\ compiled = [p \in Path |-> None]
    /\ conn = [c \in Client |-> "away"]
    /\ pc = "accept"
    /\ client = None /\ path = None
    /\ mapping = NoMapping
    /\ ResponseInit

-----------------------------------------------------------------------------
(* THE ENVIRONMENT *)

Tick == /\ clock < Len(Moments)
        /\ clock' = clock + 1
        /\ UNCHANGED <<file, conn, pc, serverVars, responseVars>>

(* A file is written: it may have a syntax error afterwards. *)
Edit(p) ==
    /\ file[p].edit < MaxEdits
    /\ \E v \in BOOLEAN : file' = [file EXCEPT ![p].edit = @ + 1, ![p].mtime = clock,
                                               ![p].valid = v]
    /\ UNCHANGED <<clock, conn, pc, serverVars, responseVars>>

(* Permissions change without a change of the mtime. *)
Protect(p) ==
    /\ file' = [file EXCEPT ![p].readable = ~@]
    /\ UNCHANGED <<clock, conn, pc, serverVars, responseVars>>

Connect(c) ==
    /\ conn[c] \in {"away", "closed"}
    /\ conn' = [conn EXCEPT ![c] = "waiting"]
    /\ UNCHANGED <<clock, file, pc, serverVars, responseVars>>

(* The collector destroys the Socket of a connection without a handle. *)
Collect(c) ==
    /\ pc # "crashed" /\ conn[c] = "abandoned"
    /\ conn' = [conn EXCEPT ![c] = "closed"]
    /\ UNCHANGED <<clock, file, pc, serverVars, responseVars>>

(* HttpServer::Mark() of a collection: it dereferences every cached script. *)
Mark ==
    /\ pc # "crashed"
    /\ \E p \in Path : cache[p] # None /\ cache[p].script = None
    /\ pc' = "crashed"
    /\ UNCHANGED <<clock, file, conn, serverVars, responseVars>>

Environment == \/ Tick \/ Mark
               \/ \E p \in Path : Edit(p) \/ Protect(p)
               \/ \E c \in Client : Connect(c) \/ Collect(c)

-----------------------------------------------------------------------------
(* THE SERVER *)

Accept(c) ==
    /\ pc = "accept" /\ conn[c] = "waiting"
    /\ conn' = [conn EXCEPT ![c] = "open"]
    /\ client' = c
    /\ pc' = "serve"
    /\ UNCHANGED <<clock, file, cache, compiled, path, mapping, responseVars>>

(* Serve() returns to Run(), with the connection closed or left behind. *)
Return(state) ==
    /\ conn' = [conn EXCEPT ![client] = state]
    /\ client' = None /\ path' = None /\ mapping' = NoMapping
    /\ pc' = "accept"

(* The request cannot be read, is malformed, asks for what is not there or *)
(* for a plain file: send_error() or ServeFile(), and the client is closed. *)
ServeOther ==
    /\ pc = "serve"
    /\ Return("closed")
    /\ UNCHANGED <<clock, file, cache, compiled, responseVars>>

(* parse_request() does not find the end of the headers. *)
ServeIncomplete ==
    /\ pc = "serve"
    /\ Return("abandoned")
    /\ UNCHANGED <<clock, file, cache, compiled, responseVars>>

(* Mutant: what is in the cache is never compiled again. *)
StaleOnce(p) == cache[p] = None

(* What ServeScript() compiles: a script that is not in the cache, or was   *)
(* put there before the last change of its file.                           *)
Stale(p) == cache[p] = None \/ Before(cache[p].last_cached, LastModified(p))

(* ServeScript(): a cached script that is not stale is executed, another   *)
(* one is compiled first.                                                  *)
ServeScript(p) ==
    /\ pc = "serve"
    /\ path' = p
    /\ pc' = IF Stale(p) THEN "open" ELSE "compiled"
    /\ UNCHANGED <<clock, file, cache, compiled, conn, client, mapping, responseVars>>

(* compile_script() opens the file, which may fail, and compiles it ...    *)
Open ==
    /\ pc = "open"
    /\ mapping' = IF file[path].readable
                  THEN [opened |-> TRUE, script |-> Compiled(path), read |-> clock]
                  ELSE [NoMapping EXCEPT !.read = clock]
    /\ pc' = "compile"
    /\ UNCHANGED <<clock, file, cache, compiled, conn, client, path, responseVars>>

(* ... and, later, sets last_cached.  If the file could not be opened the  *)
(* script is the old one, and the error message is only used without one;  *)
(* a syntax error leaves neither a script nor a message.                   *)
Compile ==
    /\ pc = "compile"
    /\ cache' = [cache EXCEPT ![path] =
                    [script |-> IF mapping.opened THEN mapping.script
                                ELSE IF @ = None THEN None ELSE @.script,
                     error |-> IF mapping.opened THEN "" ELSE "Unable to include file",
                     last_cached |-> Now]]
    /\ compiled' = [compiled EXCEPT ![path] = [opened |-> mapping.opened,
                                               from |-> mapping.read, to |-> clock]]
    /\ pc' = "compiled"
    /\ UNCHANGED <<clock, file, conn, client, path, mapping, responseVars>>

(* The interpreter and the response are created and the script executed.   *)
Execute ==
    /\ pc = "compiled" /\ cache[path].script # None
    /\ Begin
    /\ pending' = FALSE /\ phase' = "script"
    /\ pc' = "script"
    /\ UNCHANGED <<clock, file, conn, serverVars>>

(* Without a script, a SyntaxError with the message of the mapping is sent. *)
ReportError ==
    /\ pc = "compiled" /\ cache[path].script = None
    /\ status' = 500
    /\ headers' = [f \in Field |-> IF f = "Content-Type" THEN "text/plain" ELSE "absent"]
    /\ committed' = TRUE
    /\ wire' = <<StatusLine(500, headers'), Error>>
    /\ pending' = TRUE /\ phase' = "failed"
    /\ pc' = "script"
    /\ UNCHANGED <<clock, file, conn, serverVars>>

Step ==
    /\ pc = "script"
    /\ Respond
    /\ pc' = IF phase' = "crashed" THEN "crashed" ELSE pc
    /\ UNCHANGED <<clock, file, conn, serverVars>>

(* Mutant: only a script that was executed well has its connection closed. *)
CloseFinished ==
    /\ pc = "script" /\ phase \in {"finished", "failed"}
    /\ Return(IF phase = "finished" THEN "closed" ELSE "open")
    /\ UNCHANGED <<clock, file, cache, compiled, responseVars>>

Close ==
    /\ pc = "script" /\ phase \in {"finished", "failed"}
    /\ Return("closed")
    /\ UNCHANGED <<clock, file, cache, compiled, responseVars>>

Serve == \/ ServeOther \/ ServeIncomplete
         \/ \E p \in Path : ServeScript(p)
         \/ Open \/ Compile \/ Execute \/ ReportError \/ Step \/ Close

Next == Environment \/ Serve \/ \E c \in Client : Accept(c)

Spec == Init /\ [][Next]_vars

-----------------------------------------------------------------------------
(* PROPERTIES                                                              *)

TypeOK ==
    /\ clock \in 1 .. Len(Moments)
    /\ file \in [Path -> [edit : 0 .. MaxEdits, mtime : 1 .. Len(Moments),
                          valid : BOOLEAN, readable : BOOLEAN]]
    /\ conn \in [Client -> {"away", "waiting", "open", "abandoned", "closed"}]
    /\ pc \in {"accept", "serve", "open", "compile", "compiled", "script", "crashed"}
    /\ client \in Client \cup {None} /\ path \in Path \cup {None}

(* The server holds exactly one connection open, that of the client it     *)
(* serves: every way out of Serve() closes it or leaves it to the          *)
(* collector.                                                              *)
OneConnection ==
    /\ TypeOK
    /\ {c \in Client : conn[c] = "open"} = {client} \ {None}
    /\ pc = "accept" => client = None
    /\ pc \in {"serve", "open", "compile", "compiled", "script"} => client # None

(* A time of the clock the class Time cannot represent.                    *)
Unrepresentable(m) == ~Time_IsValid(Moments[m].hour, Moments[m].minute, Moments[m].second)

(* A script the server will execute although the file has been edited      *)
(* since. *)
Unnoticed(p) == /\ cache[p] # None /\ ~Stale(p)
                /\ cache[p].script # Compiled(p)

(* An edit goes unnoticed only if it falls into the ticks from the moment  *)
(* the file was read to the moment last_cached was set, or if the file     *)
(* could not be opened to compile it, or if its mtime is a time DateTime   *)
(* takes for midnight.  All other edits are served from the next request   *)
(* on.                                                                     *)
EditsAreNoticed ==
    \A p \in Path : Unnoticed(p) =>
        \/ file[p].mtime \in compiled[p].from .. compiled[p].to
        \/ ~compiled[p].opened
        \/ Unrepresentable(file[p].mtime)
=============================================================================

----------------------------- MODULE PodTerminal -----------------------------
(***************************************************************************)
(* A terminal in a container: the handler openPodTerminal, the goroutine   *)
(* that reads the browser's messages, and those of client-go that copy     *)
(* input, output and window sizes.  They meet in a pipe without a buffer   *)
(* and in a queue of sizes that drops its oldest when it is full.          *)
(*                                                                         *)
(* What is typed is abstracted to that something is, what is printed to    *)
(* whether it can be.  A size is the number of the message that brought it.*)
(* The request's context ends with its handler: the connection was taken   *)
(* over from net/http, which no longer watches it.                         *)
(***************************************************************************)
EXTENDS Naturals, Sequences

CONSTANTS QueueSize,   (* sizes the queue holds                              *)
          Shells,      (* shells tried                                       *)
          MaxWire,     (* bound: messages on their way from the browser      *)
          MaxSizes     (* bound: times the browser's window changes          *)

ASSUME TerminalBounds ==
  /\ QueueSize \in Nat \ {0} /\ Shells \in Nat \ {0}
  /\ MaxWire \in Nat /\ MaxSizes \in Nat

VARIABLES conn,      (* the WebSocket: open, left by the browser, or closed  *)
          wire,      (* messages on their way: 0 is input, others are sizes  *)
          sent,      (* sizes sent                                           *)
          terminal,  (* where the handler stands, and the shells it tried    *)
          reader,    (* the goroutine of StreamPodTerminal, and its last size*)
          pipe,      (* io.Pipe is open                                      *)
          queue,     (* terminalSizeQueue's channel                          *)
          resizer,   (* client-go: the size it is to send, or 0; off at first*)
          copier,    (* client-go: copies the pipe to the process            *)
          printer,   (* client-go: copies the output to the WebSocket        *)
          process    (* in the container: its state, input and window        *)

terminalVars == <<conn, wire, sent, terminal, reader, pipe, queue, resizer, copier,
                  printer, process>>

Sizes == 1..MaxSizes

TerminalTypeOK ==
  /\ conn \in {"open", "left", "closed"}
  /\ wire \in Seq(0..MaxSizes) /\ Len(wire) <= MaxWire
  /\ sent \in 0..MaxSizes
  /\ terminal \in [at : {"greet", "probe", "connect", "stream", "unwind", "answer",
                         "over"}, tried : 0..Shells]
  /\ reader \in [at : {"off", "read", "write", "push", "drain", "put", "over"},
                 size : 0..MaxSizes]
  /\ pipe \in BOOLEAN
  /\ queue \in Seq(Sizes) /\ Len(queue) <= QueueSize
  /\ resizer \in [on : BOOLEAN, size : 0..MaxSizes]
  /\ copier \in {"off", "on", "over"}
  /\ printer \in {"off", "copy", "discard", "over"}
  /\ process \in [state : {"none", "running", "gone"}, input : BOOLEAN, size : 0..MaxSizes]

TerminalInit ==
  /\ conn = "open" /\ wire = <<>> /\ sent = 0
  /\ terminal = [at |-> "greet", tried |-> 0]
  /\ reader = [at |-> "off", size |-> 0]
  /\ pipe = TRUE /\ queue = <<>>
  /\ resizer = [on |-> FALSE, size |-> 0] /\ copier = "off" /\ printer = "off"
  /\ process = [state |-> "none", input |-> TRUE, size |-> 0]

-----------------------------------------------------------------------------
handlerVars == <<terminal, pipe, copier, printer, process>>
sizeVars    == <<reader, queue, resizer>>

Go(step)     == terminal' = [terminal EXCEPT !.at = step]
ReadOn(step) == reader' = [reader EXCEPT !.at = step]

(* Faulty variant of Unwind: it only returns.                              *)
UnwindLeavingPipe ==
  /\ terminal.at = "unwind" /\ Go("answer")
  /\ UNCHANGED <<conn, wire, sent, sizeVars, pipe, copier, printer, process>>

(* Faulty variant of TryPut: a size that does not fit is dropped.          *)
TryPutOrDrop ==
  /\ reader.at = "push" /\ ReadOn("read")
  /\ queue' = IF Len(queue) < QueueSize THEN Append(queue, reader.size) ELSE queue
  /\ UNCHANGED <<conn, wire, sent, handlerVars, resizer>>

-----------------------------------------------------------------------------
(* The browser.                                                            *)
Tell(message) ==
  /\ conn = "open" /\ Len(wire) < MaxWire /\ wire' = Append(wire, message)
  /\ UNCHANGED <<conn, handlerVars, sizeVars>>

Type   == Tell(0) /\ UNCHANGED sent
Resize == sent < MaxSizes /\ sent' = sent + 1 /\ Tell(sent')

Leave ==
  /\ conn = "open" /\ conn' = "left"
  /\ UNCHANGED <<wire, sent, handlerVars, sizeVars>>

-----------------------------------------------------------------------------
(* The handler: openPodTerminal, StreamPodTerminal.                        *)
Greet ==
  /\ terminal.at = "greet"
  /\ Go("probe") \/ (conn = "left" /\ Go("answer"))
  /\ UNCHANGED <<conn, wire, sent, sizeVars, pipe, copier, printer, process>>

(* resolveContainerShell: a shell is found, and with it the reader starts, *)
(* or is missing and the next is tried, or nothing can be run.             *)
Probe ==
  /\ terminal.at = "probe"
  /\ \/ terminal.tried < Shells /\ Go("connect") /\ ReadOn("read")
     \/ /\ terminal.tried < Shells
        /\ terminal' = [terminal EXCEPT !.tried = @ + 1] /\ UNCHANGED reader
     \/ Go("answer") /\ UNCHANGED reader
  /\ UNCHANGED <<conn, wire, sent, queue, resizer, pipe, copier, printer, process>>

(* StreamWithContext connects to the container, or fails.                  *)
Connect ==
  /\ terminal.at = "connect"
  /\ \/ /\ Go("stream")
        /\ process' = [process EXCEPT !.state = "running"]
        /\ resizer' = [resizer EXCEPT !.on = TRUE] /\ copier' = "on" /\ printer' = "copy"
     \/ Go("unwind") /\ UNCHANGED <<process, resizer, copier, printer>>
  /\ UNCHANGED <<conn, wire, sent, reader, queue, pipe>>

StreamEnds ==
  /\ terminal.at = "stream" /\ printer = "over" /\ Go("unwind")
  /\ UNCHANGED <<conn, wire, sent, sizeVars, pipe, copier, printer, process>>

(* The writer is closed unless the reader has done so, then the deferred   *)
(* Close of the pipe's other end.                                          *)
Unwind ==
  /\ terminal.at = "unwind" /\ Go("answer")
  /\ pipe' = FALSE
  /\ UNCHANGED <<conn, wire, sent, sizeVars, copier, printer, process>>

(* The closing message, whether or not it arrives, and conn.Close().       *)
Answer ==
  /\ terminal.at = "answer" /\ Go("over")
  /\ conn' = "closed" /\ wire' = <<>>
  /\ UNCHANGED <<sent, sizeVars, pipe, copier, printer, process>>

-----------------------------------------------------------------------------
(* The reader.                                                             *)
Read ==
  /\ reader.at = "read" /\ wire # <<>>
  /\ wire' = Tail(wire)
  /\ reader' = IF Head(wire) = 0 THEN [reader EXCEPT !.at = "write"]
               ELSE [at |-> "push", size |-> Head(wire)]
  /\ UNCHANGED <<conn, sent, queue, resizer, handlerVars>>

(* Nothing more can be read, or the pipe was closed under a write.         *)
ReaderEnds ==
  /\ \/ reader.at = "read" /\ wire = <<>> /\ conn # "open"
     \/ reader.at = "write" /\ ~ pipe
  /\ ReadOn("over") /\ pipe' = FALSE
  /\ UNCHANGED <<conn, wire, sent, queue, resizer, terminal, copier, printer, process>>

(* terminalSizeQueue.Push.                                                 *)
TryPut ==
  /\ reader.at = "push"
  /\ IF Len(queue) < QueueSize
     THEN queue' = Append(queue, reader.size) /\ ReadOn("read")
     ELSE ReadOn("drain") /\ UNCHANGED queue
  /\ UNCHANGED <<conn, wire, sent, handlerVars, resizer>>

Drain ==
  /\ reader.at = "drain" /\ ReadOn("put")
  /\ queue' = IF queue = <<>> THEN queue ELSE Tail(queue)
  /\ UNCHANGED <<conn, wire, sent, handlerVars, resizer>>

Put ==
  /\ reader.at = "put" /\ ReadOn("read")
  /\ Len(queue) < QueueSize /\ queue' = Append(queue, reader.size)
  /\ UNCHANGED <<conn, wire, sent, handlerVars, resizer>>

-----------------------------------------------------------------------------
(* client-go's goroutines, and the process they serve.                     *)

(* What the reader writes is taken, and lost when the process is gone.     *)
CopyInput ==
  /\ copier = "on" /\ reader.at = "write" /\ pipe
  /\ ReadOn("read")
  /\ copier' = IF process.state = "running" THEN "on" ELSE "over"
  /\ UNCHANGED <<conn, wire, sent, queue, resizer, terminal, pipe, printer, process>>

EndOfInput ==
  /\ copier = "on" /\ ~ pipe /\ copier' = "over"
  /\ process' = [process EXCEPT !.input = FALSE]
  /\ UNCHANGED <<conn, wire, sent, sizeVars, terminal, pipe, printer>>

(* terminalOutputWriter.Write fails: the rest of the output is discarded.  *)
PrintFails ==
  /\ printer = "copy" /\ process.state = "running" /\ conn # "open"
  /\ printer' = "discard"
  /\ UNCHANGED <<conn, wire, sent, sizeVars, terminal, pipe, copier, process>>

OutputEnds ==
  /\ printer \in {"copy", "discard"} /\ process.state = "gone" /\ printer' = "over"
  /\ UNCHANGED <<conn, wire, sent, sizeVars, terminal, pipe, copier, process>>

(* terminalSizeQueue.Next, which returns as long as there are sizes.       *)
NextSize ==
  /\ resizer.on /\ resizer.size = 0 /\ queue # <<>>
  /\ resizer' = [resizer EXCEPT !.size = Head(queue)] /\ queue' = Tail(queue)
  /\ UNCHANGED <<conn, wire, sent, reader, handlerVars>>

SendSize ==
  /\ resizer.size # 0 /\ resizer' = [resizer EXCEPT !.size = 0]
  /\ process' = IF process.state = "running" THEN [process EXCEPT !.size = resizer.size]
                ELSE process
  /\ UNCHANGED <<conn, wire, sent, reader, queue, terminal, pipe, copier, printer>>

(* The process ends, or the connection to it does.                         *)
ProcessEnds ==
  /\ process.state = "running" /\ process' = [process EXCEPT !.state = "gone"]
  /\ UNCHANGED <<conn, wire, sent, sizeVars, terminal, pipe, copier, printer>>

-----------------------------------------------------------------------------
Handler == Greet \/ Probe \/ Connect \/ StreamEnds \/ Unwind \/ Answer
Reader  == Read \/ ReaderEnds \/ TryPut \/ Drain \/ Put
Copier  == CopyInput \/ EndOfInput
Resizer == NextSize \/ SendSize

TerminalNext ==
  \/ Type \/ Resize \/ Leave
  \/ Handler \/ Reader \/ Copier \/ Resizer \/ PrintFails \/ OutputEnds \/ ProcessEnds

(* Goroutines are scheduled and calls of the API server are answered; a    *)
(* shell whose input has ended ends.  Nothing is assumed of the browser.   *)
TerminalFairness ==
  /\ WF_terminalVars(Handler) /\ WF_terminalVars(Reader)
  /\ WF_terminalVars(Copier) /\ WF_terminalVars(Resizer)
  /\ WF_terminalVars(OutputEnds)
  /\ WF_terminalVars(ProcessEnds /\ ~ process.input)

-----------------------------------------------------------------------------
(* Everything of the session but the goroutine that waits for sizes, which *)
(* nobody ends: terminalSizeQueue.Close has no caller.                     *)
WoundUp ==
  /\ terminal.at = "over" /\ conn = "closed"
  /\ reader.at \in {"off", "over"} /\ copier \in {"off", "over"}
  /\ printer \in {"off", "over"}

(* When the browser leaves, in whichever phase, the process ends or the    *)
(* handler gives up, the session winds up: no goroutine of it stays behind *)
(* in the pipe, in the queue or at the socket (StreamPodTerminal's Close   *)
(* calls, Push).                                                           *)
SessionWindsUp == conn # "open" \/ process.state = "gone" ~> WoundUp

(* The process has the window the browser has, once every size sent has    *)
(* been through the queue: what the queue drops is older than what it      *)
(* keeps (terminalSizeQueue.Push).                                         *)
LastSizeArrives ==
  /\ process.state = "running" /\ reader.at = "read" /\ wire = <<>>
  /\ queue = <<>> /\ resizer.size = 0
  => process.size = sent
=============================================================================

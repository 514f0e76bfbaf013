-------------------------- MODULE ClusterWorkProofs --------------------------
(***************************************************************************)
(* Proofs about ClusterWork, for any number of requests, scalers, changes, *)
(* shells, messages and sizes and for a queue of any length.               *)
(*                                                                         *)
(* Each part has an inductive invariant.  The terminal's follows the size  *)
(* sent last: it is the last on the wire or the last that was read, and    *)
(* what was read last is the newest of the queue, or what the process has. *)
(* The objects' says that versions grow, that what a handler has listed is *)
(* complete but for what came or changed since, and that a batch has noted *)
(* whatever exists of what it created.  Every write of an object keeps it  *)
(* for the requests that do not make it (OthersGood), so that an action is *)
(* left with its own request.                                              *)
(***************************************************************************)
EXTENDS ClusterWork, TLAPS

-----------------------------------------------------------------------------
(* The terminal.                                                           *)

(* What the phase of the handler says of the process.                      *)
PhasesFit ==
  /\ process.state = "running" => terminal.at = "stream"
  /\ terminal.at \in {"greet", "probe", "connect"} => process.state = "none"
  /\ terminal.at \in {"greet", "probe"} => reader.at = "off"
  /\ printer = "over" => process.state = "gone"
  /\ conn = "closed" => terminal.at = "over"
  /\ resizer.size # 0 => resizer.on
  /\ resizer.on => process.state # "none"
  /\ reader.at \in {"push", "drain", "put"} => reader.size \in Sizes

(* The last size sent is the last on its way, or the last that was read.   *)
NoSizeFrom(k) == \A i \in DOMAIN wire : i >= k => wire[i] = 0
WireEndsIn(k) == k \in DOMAIN wire /\ wire[k] # 0 /\ wire[k] = sent /\ NoSizeFrom(k + 1)
SentOrRead ==
  conn # "closed" => (NoSizeFrom(1) /\ reader.size = sent) \/ \E k \in DOMAIN wire : WireEndsIn(k)

(* The last size read, once it is in the queue, is the last of the queue,  *)
(* or the one being sent, or the process's.                                *)
Pushing == reader.at \in {"push", "drain", "put"}
ReadOrSent ==
  /\ ~ Pushing /\ queue # <<>> => queue[Len(queue)] = reader.size
  /\ ~ Pushing /\ queue = <<>> /\ resizer.size # 0 => resizer.size = reader.size
  /\ ~ Pushing /\ queue = <<>> /\ resizer.size = 0 /\ process.state # "gone"
     => process.size = reader.size

TerminalInv == TerminalTypeOK /\ PhasesFit /\ SentOrRead /\ ReadOrSent

(* What is left of a sequence, and how its elements move up.               *)
LEMMA TailTyped ==
  ASSUME NEW S, NEW s \in Seq(S), s # <<>>
  PROVE  Head(s) \in S /\ Tail(s) \in Seq(S) /\ Len(s) \in Nat /\ Len(Tail(s)) = Len(s) - 1
OBVIOUS

LEMMA TailShifts ==
  ASSUME NEW S, NEW s \in Seq(S), s # <<>>
  PROVE  /\ Len(s) \in Nat \ {0} /\ DOMAIN s = 1..Len(s)
         /\ s[1] = Head(s) /\ s[Len(s)] \in S
         /\ DOMAIN Tail(s) = 1..(Len(s) - 1)
         /\ \A i \in 1..(Len(s) - 1) : Tail(s)[i] = s[i + 1]
         /\ Len(s) = 1 <=> Tail(s) = <<>>
OBVIOUS

(* Every step leaves the variables of the terminal well typed.             *)
LEMMA TerminalTypeKept ==
  ASSUME TerminalTypeOK, PhasesFit, [TerminalNext]_terminalVars
  PROVE  TerminalTypeOK'
<1> USE TerminalBounds DEF TerminalTypeOK, Sizes, terminalVars, handlerVars, sizeVars, Go,
     ReadOn, Tell
<1>1. CASE Type
  BY <1>1 DEF Type
<1>2. CASE Resize
  BY <1>2 DEF Resize
<1>3. CASE Leave
  BY <1>3 DEF Leave
<1>4. CASE Greet
  BY <1>4 DEF Greet
<1>5. CASE Probe
  BY <1>5 DEF Probe
<1>6. CASE Connect
  BY <1>6 DEF Connect
<1>7. CASE StreamEnds
  BY <1>7 DEF StreamEnds
<1>8. CASE Unwind
  BY <1>8 DEF Unwind
<1>9. CASE Answer
  <2>1. wire' \in Seq(0..MaxSizes) /\ Len(wire') <= MaxWire
    BY <1>9 DEF Answer
  <2> QED
    BY <1>9, <2>1 DEF Answer
<1>10. CASE Read
  <2>1. wire' \in Seq(0..MaxSizes) /\ Len(wire') <= MaxWire
    BY <1>10, TailTyped DEF Read
  <2>2. Head(wire) \in 0..MaxSizes
    BY <1>10, TailTyped DEF Read
  <2>3. reader' \in [at : {"off", "read", "write", "push", "drain", "put", "over"},
                       size : 0..MaxSizes]
    BY <1>10, <2>2 DEF Read
  <2> QED
    BY <1>10, <2>1, <2>2, <2>3 DEF Read
<1>11. CASE ReaderEnds
  BY <1>11 DEF ReaderEnds
<1>12. CASE TryPut
  <2>1. reader.size \in Sizes
    BY <1>12 DEF TryPut, PhasesFit
  <2>2. queue' \in Seq(Sizes) /\ Len(queue') <= QueueSize
    <3>1. CASE Len(queue) < QueueSize
      <4>1. queue' = Append(queue, reader.size)
        BY <1>12, <3>1 DEF TryPut
      <4> QED
        BY <3>1, <4>1, <2>1
    <3>2. CASE ~ (Len(queue) < QueueSize)
      BY <1>12, <3>2 DEF TryPut
    <3> QED
      BY <3>1, <3>2
  <2>3. reader' \in [at : {"off", "read", "write", "push", "drain", "put", "over"},
                       size : 0..MaxSizes]
    BY <1>12 DEF TryPut
  <2> QED
    BY <1>12, <2>1, <2>2, <2>3 DEF TryPut
<1>13. CASE Drain
  <2>1. queue' \in Seq(Sizes) /\ Len(queue') <= QueueSize
    <3>1. CASE queue = <<>>
      BY <1>13, <3>1 DEF Drain
    <3>2. CASE queue # <<>>
      <4>1. queue' = Tail(queue)
        BY <1>13, <3>2 DEF Drain
      <4> QED
        BY <3>2, <4>1, TailTyped
    <3> QED
      BY <3>1, <3>2
  <2>2. reader' \in [at : {"off", "read", "write", "push", "drain", "put", "over"},
                       size : 0..MaxSizes]
    BY <1>13 DEF Drain
  <2> QED
    BY <1>13, <2>1, <2>2 DEF Drain
<1>14. CASE Put
  <2>1. reader.size \in Sizes
    BY <1>14 DEF Put, PhasesFit
  <2>2. queue' \in Seq(Sizes) /\ Len(queue') <= QueueSize
    BY <1>14, <2>1 DEF Put
  <2>3. reader' \in [at : {"off", "read", "write", "push", "drain", "put", "over"},
                       size : 0..MaxSizes]
    BY <1>14 DEF Put
  <2> QED
    BY <1>14, <2>1, <2>2, <2>3 DEF Put
<1>15. CASE CopyInput
  BY <1>15 DEF CopyInput
<1>16. CASE EndOfInput
  BY <1>16 DEF EndOfInput
<1>17. CASE PrintFails
  BY <1>17 DEF PrintFails
<1>18. CASE OutputEnds
  BY <1>18 DEF OutputEnds
<1>19. CASE NextSize
  <2>1. queue' \in Seq(Sizes) /\ Len(queue') <= QueueSize
    BY <1>19, TailTyped DEF NextSize
  <2>2. Head(queue) \in 0..MaxSizes
    BY <1>19, TailTyped DEF NextSize
  <2>3. resizer' \in [on : BOOLEAN, size : 0..MaxSizes]
    BY <1>19, <2>2 DEF NextSize
  <2> QED
    BY <1>19, <2>1, <2>2, <2>3 DEF NextSize
<1>20. CASE SendSize
  <2>1. resizer' \in [on : BOOLEAN, size : 0..MaxSizes]
    BY <1>20 DEF SendSize
  <2>2. process' \in [state : {"none", "running", "gone"}, input : BOOLEAN,
                         size : 0..MaxSizes]
    BY <1>20 DEF SendSize
  <2> QED
    BY <1>20, <2>1, <2>2 DEF SendSize
<1>21. CASE ProcessEnds
  <2>1. process' \in [state : {"none", "running", "gone"}, input : BOOLEAN,
                         size : 0..MaxSizes]
    BY <1>21 DEF ProcessEnds
  <2> QED
    BY <1>21, <2>1 DEF ProcessEnds
<1>22. CASE UNCHANGED terminalVars
  BY <1>22
<1> QED
  BY <1>1, <1>2, <1>3, <1>4, <1>5, <1>6, <1>7, <1>8, <1>9, <1>10, <1>11, <1>12, <1>13, <1>14,
       <1>15, <1>16, <1>17, <1>18, <1>19, <1>20, <1>21, <1>22 DEF TerminalNext, Handler,
       Reader, Copier, Resizer

(* ... and the phases in step.                                            *)
LEMMA PhasesKept ==
  ASSUME TerminalTypeOK, PhasesFit, [TerminalNext]_terminalVars
  PROVE  PhasesFit'
<1> USE DEF PhasesFit, TerminalTypeOK, Sizes, terminalVars, handlerVars, sizeVars, Go, ReadOn,
     Tell
<1>1. CASE Type
  BY <1>1 DEF Type
<1>2. CASE Resize
  BY <1>2 DEF Resize
<1>3. CASE Leave
  BY <1>3 DEF Leave
<1>4. CASE Greet
  BY <1>4 DEF Greet
<1>5. CASE Probe
  <2>1. terminal.at = "probe" /\ terminal'.at \in {"connect", "probe", "answer"}
    BY <1>5 DEF Probe
  <2>2. reader' = reader \/ reader'.at = "read"
    BY <1>5 DEF Probe
  <2> QED
    BY <1>5, <2>1, <2>2 DEF Probe
<1>6. CASE Connect
  BY <1>6 DEF Connect
<1>7. CASE StreamEnds
  BY <1>7 DEF StreamEnds
<1>8. CASE Unwind
  BY <1>8 DEF Unwind
<1>9. CASE Answer
  BY <1>9 DEF Answer
<1>10. CASE Read
  <2>1. Head(wire) \in 0..MaxSizes
    BY <1>10, TailTyped DEF Read
  <2>2. reader'.at = "push" => reader'.size \in Sizes
    BY <1>10, <2>1 DEF Read
  <2>3. reader'.at \in {"push", "write"}
    BY <1>10 DEF Read
  <2> QED
    BY <1>10, <2>2, <2>3 DEF Read
<1>11. CASE ReaderEnds
  BY <1>11 DEF ReaderEnds
<1>12. CASE TryPut
  BY <1>12 DEF TryPut
<1>13. CASE Drain
  BY <1>13 DEF Drain
<1>14. CASE Put
  BY <1>14 DEF Put
<1>15. CASE CopyInput
  BY <1>15 DEF CopyInput
<1>16. CASE EndOfInput
  BY <1>16 DEF EndOfInput
<1>17. CASE PrintFails
  BY <1>17 DEF PrintFails
<1>18. CASE OutputEnds
  BY <1>18 DEF OutputEnds
<1>19. CASE NextSize
  BY <1>19 DEF NextSize
<1>20. CASE SendSize
  BY <1>20 DEF SendSize
<1>21. CASE ProcessEnds
  BY <1>21 DEF ProcessEnds
<1>22. CASE UNCHANGED terminalVars
  BY <1>22
<1> QED
  BY <1>1, <1>2, <1>3, <1>4, <1>5, <1>6, <1>7, <1>8, <1>9, <1>10, <1>11, <1>12, <1>13, <1>14,
       <1>15, <1>16, <1>17, <1>18, <1>19, <1>20, <1>21, <1>22 DEF TerminalNext, Handler,
       Reader, Copier, Resizer

(* Taking a size off the queue moves the others up.                        *)
LEMMA QueueShifts ==
  ASSUME queue \in Seq(Sizes), queue # <<>>, queue' = Tail(queue)
  PROVE  /\ Len(queue) \in Nat \ {0} /\ queue[1] = Head(queue) /\ Head(queue) \in Sizes
         /\ \A i \in 1..(Len(queue) - 1) : queue'[i] = queue[i + 1]
         /\ Len(queue') = Len(queue) - 1
         /\ Len(queue) = 1 <=> queue' = <<>>
<1>1. Head(queue) \in Sizes /\ Len(queue') = Len(queue) - 1
  BY TailTyped, Zenon
<1>2. /\ Len(queue) \in Nat \ {0} /\ queue[1] = Head(queue)
      /\ \A i \in 1..(Len(queue) - 1) : queue'[i] = queue[i + 1]
      /\ Len(queue) = 1 <=> queue' = <<>>
  BY TailShifts, Zenon
<1> QED
  BY <1>1, <1>2

(* The size read last stays the newest in the queue and behind it.        *)
LEMMA ReadOrSentKept ==
  ASSUME TerminalTypeOK, PhasesFit, ReadOrSent, [TerminalNext]_terminalVars
  PROVE  ReadOrSent'
<1> USE DEF PhasesFit, ReadOrSent, Pushing, TerminalTypeOK, Sizes, terminalVars, handlerVars,
     sizeVars, Go, ReadOn, Tell
<1>1. CASE Type
  BY <1>1 DEF Type
<1>2. CASE Resize
  BY <1>2 DEF Resize
<1>3. CASE Leave
  BY <1>3 DEF Leave
<1>4. CASE Greet
  BY <1>4 DEF Greet
<1>5. CASE Probe
  BY <1>5 DEF Probe
<1>6. CASE Connect
  BY <1>6 DEF Connect
<1>7. CASE StreamEnds
  BY <1>7 DEF StreamEnds
<1>8. CASE Unwind
  BY <1>8 DEF Unwind
<1>9. CASE Answer
  BY <1>9 DEF Answer
<1>10. CASE Read
  BY <1>10 DEF Read
<1>11. CASE ReaderEnds
  BY <1>11 DEF ReaderEnds
<1>12. CASE TryPut
  BY <1>12 DEF TryPut
<1>13. CASE Drain
  BY <1>13 DEF Drain
<1>14. CASE Put
  BY <1>14 DEF Put
<1>15. CASE CopyInput
  BY <1>15 DEF CopyInput
<1>16. CASE EndOfInput
  BY <1>16 DEF EndOfInput
<1>17. CASE PrintFails
  BY <1>17 DEF PrintFails
<1>18. CASE OutputEnds
  BY <1>18 DEF OutputEnds
<1>19. CASE NextSize
  <2>1. queue # <<>> /\ queue' = Tail(queue) /\ resizer'.size = Head(queue)
    BY <1>19 DEF NextSize
  <2>2. /\ Len(queue) \in Nat \ {0} /\ queue[1] = Head(queue) /\ Head(queue) \in Sizes
        /\ \A i \in 1..(Len(queue) - 1) : queue'[i] = queue[i + 1]
        /\ Len(queue') = Len(queue) - 1
        /\ Len(queue) = 1 <=> queue' = <<>>
    <3>1. queue \in Seq(Sizes)
      BY DEF TerminalTypeOK
    <3> HIDE DEF Sizes
    <3> QED
      BY <2>1, <3>1, QueueShifts
  <2>3. UNCHANGED <<reader, process>>
    BY <1>19 DEF NextSize
  <2>4. CASE Len(queue) = 1
    <3>1. queue' = <<>>
      BY <2>2, <2>4
    <3> QED
      BY <2>1, <2>2, <2>3, <2>4, <3>1
  <2>5. CASE Len(queue) > 1
    <3>1. queue' # <<>> /\ queue'[Len(queue')] = queue[Len(queue)]
      BY <2>2, <2>5
    <3> QED
      BY <2>1, <2>3, <3>1
  <2> QED
    BY <2>2, <2>4, <2>5
<1>20. CASE SendSize
  BY <1>20 DEF SendSize
<1>21. CASE ProcessEnds
  BY <1>21 DEF ProcessEnds
<1>22. CASE UNCHANGED terminalVars
  BY <1>22
<1> QED
  BY <1>1, <1>2, <1>3, <1>4, <1>5, <1>6, <1>7, <1>8, <1>9, <1>10, <1>11, <1>12, <1>13, <1>14,
       <1>15, <1>16, <1>17, <1>18, <1>19, <1>20, <1>21, <1>22 DEF TerminalNext, Handler,
       Reader, Copier, Resizer

(* Taking a message off the wire moves the others up.                      *)
LEMMA WireShifts ==
  ASSUME wire \in Seq(0..MaxSizes), wire # <<>>, wire' = Tail(wire)
  PROVE  /\ wire[1] = Head(wire) /\ Head(wire) \in 0..MaxSizes
         /\ NoSizeFrom(1) => NoSizeFrom(1)'
         /\ NoSizeFrom(1 + 1) => NoSizeFrom(1)'
         /\ \A k \in DOMAIN wire : k # 1 /\ NoSizeFrom(k + 1) =>
              k - 1 \in DOMAIN wire' /\ wire'[k - 1] = wire[k] /\ NoSizeFrom(k - 1 + 1)'
<1>1. /\ Len(wire) \in Nat \ {0} /\ DOMAIN wire = 1..Len(wire) /\ wire[1] = Head(wire)
      /\ DOMAIN wire' = 1..(Len(wire) - 1)
      /\ \A i \in 1..(Len(wire) - 1) : wire'[i] = wire[i + 1]
  BY TailShifts, Zenon
<1>2. Head(wire) \in 0..MaxSizes
  BY TailTyped, Zenon
<1>3. NoSizeFrom(1) => NoSizeFrom(1)'
  BY <1>1 DEF NoSizeFrom
<1>4. NoSizeFrom(1 + 1) => NoSizeFrom(1)'
  BY <1>1 DEF NoSizeFrom
<1>5. ASSUME NEW k \in DOMAIN wire, k # 1, NoSizeFrom(k + 1)
      PROVE  k - 1 \in DOMAIN wire' /\ wire'[k - 1] = wire[k] /\ NoSizeFrom(k - 1 + 1)'
  <2>1. k \in 2..Len(wire) /\ k - 1 \in 1..(Len(wire) - 1) /\ k - 1 + 1 = k
    BY <1>1, <1>5
  <2>2. wire'[k - 1] = wire[k]
    BY <1>1, <2>1
  <2>3. \A i \in 1..(Len(wire) - 1) : i >= k => wire[i + 1] = 0
    BY <1>1, <1>5, <2>1 DEF NoSizeFrom
  <2>4. NoSizeFrom(k)'
    BY <1>1, <2>3 DEF NoSizeFrom
  <2> QED
    BY <1>1, <2>1, <2>2, <2>4
<1> QED
  BY <1>1, <1>2, <1>3, <1>4, <1>5

(* The size sent last stays the last on its way, or becomes the last read.*)
LEMMA SentOrReadKept ==
  ASSUME TerminalTypeOK, PhasesFit, SentOrRead, [TerminalNext]_terminalVars
  PROVE  SentOrRead'
<1> USE DEF PhasesFit, SentOrRead, NoSizeFrom, WireEndsIn, TerminalTypeOK, Sizes,
     terminalVars, handlerVars, sizeVars, Go, ReadOn, Tell
<1>1. CASE Type
  <2>1. wire' = Append(wire, 0) /\ UNCHANGED <<conn, sent, reader>>
    BY <1>1 DEF Type
  <2>2. CASE NoSizeFrom(1) /\ reader.size = sent
    <3>1. NoSizeFrom(1)'
      BY <2>1, <2>2
    <3> QED
      BY <2>1, <2>2, <3>1
  <2>3. ASSUME NEW k \in DOMAIN wire, WireEndsIn(k)
        PROVE  SentOrRead'
    <3>1. k \in DOMAIN wire' /\ wire'[k] = wire[k]
      BY <2>1, <2>3
    <3>2. NoSizeFrom(k + 1)'
      BY <2>1, <2>3
    <3> QED
      BY <2>1, <2>3, <3>1, <3>2
  <2> QED
    BY <2>1, <2>2, <2>3
<1>2. CASE Resize
  BY <1>2 DEF Resize
<1>3. CASE Leave
  BY <1>3 DEF Leave
<1>4. CASE Greet
  BY <1>4 DEF Greet
<1>5. CASE Probe
  BY <1>5 DEF Probe
<1>6. CASE Connect
  BY <1>6 DEF Connect
<1>7. CASE StreamEnds
  BY <1>7 DEF StreamEnds
<1>8. CASE Unwind
  BY <1>8 DEF Unwind
<1>9. CASE Answer
  BY <1>9 DEF Answer
<1>10. CASE Read
  <2>1. wire \in Seq(0..MaxSizes) /\ wire # <<>> /\ wire' = Tail(wire) /\ UNCHANGED <<conn, sent>>
    BY <1>10 DEF Read
  <2>2. reader'.size = IF wire[1] = 0 THEN reader.size ELSE wire[1]
    BY <1>10, <2>1, WireShifts DEF Read
  <2>3. CASE NoSizeFrom(1) /\ reader.size = sent
    <3>1. wire[1] = 0
      BY <2>1, <2>3
    <3> QED
      BY <2>1, <2>2, <2>3, <3>1, WireShifts
  <2>4. ASSUME NEW k \in DOMAIN wire, WireEndsIn(k)
        PROVE  SentOrRead'
    <3>1. CASE k = 1
      <4>1. NoSizeFrom(1)' /\ reader'.size = sent
        BY <2>1, <2>2, <2>4, <3>1, WireShifts DEF WireEndsIn
      <4> QED
        BY <2>1, <4>1 DEF SentOrRead
    <3>2. CASE k # 1
      <4>1. WireEndsIn(k - 1)'
        BY <2>1, <2>4, <3>2, WireShifts DEF WireEndsIn
      <4>2. k - 1 \in DOMAIN wire'
        BY <4>1 DEF WireEndsIn
      <4> QED
        BY <2>1, <4>1, <4>2 DEF SentOrRead
    <3> QED
      BY <3>1, <3>2
  <2> QED
    BY <2>1, <2>3, <2>4
<1>11. CASE ReaderEnds
  BY <1>11 DEF ReaderEnds
<1>12. CASE TryPut
  BY <1>12 DEF TryPut
<1>13. CASE Drain
  BY <1>13 DEF Drain
<1>14. CASE Put
  BY <1>14 DEF Put
<1>15. CASE CopyInput
  BY <1>15 DEF CopyInput
<1>16. CASE EndOfInput
  BY <1>16 DEF EndOfInput
<1>17. CASE PrintFails
  BY <1>17 DEF PrintFails
<1>18. CASE OutputEnds
  BY <1>18 DEF OutputEnds
<1>19. CASE NextSize
  BY <1>19 DEF NextSize
<1>20. CASE SendSize
  BY <1>20 DEF SendSize
<1>21. CASE ProcessEnds
  BY <1>21 DEF ProcessEnds
<1>22. CASE UNCHANGED terminalVars
  BY <1>22
<1> QED
  BY <1>1, <1>2, <1>3, <1>4, <1>5, <1>6, <1>7, <1>8, <1>9, <1>10, <1>11, <1>12, <1>13, <1>14,
       <1>15, <1>16, <1>17, <1>18, <1>19, <1>20, <1>21, <1>22 DEF TerminalNext, Handler,
       Reader, Copier, Resizer

-----------------------------------------------------------------------------
(* The objects.                                                            *)

Steps(op) ==
  CASE op = "create"   -> {"create", "undo", "over"}
    [] op = "update"   -> {"read", "write", "over"}
    [] op = "delete"   -> {"delete", "over"}
    [] op = "scale"    -> {"check", "find", "write", "over"}
    [] op = "unscale"  -> {"check", "find", "delete", "over"}
    [] op = "annotate" -> {"check", "read", "write", "over"}
    [] op = "rollback" -> {"read", "write", "over"}

(* What a handler holds in each of its steps.                              *)
CallFits(call) ==
  /\ call.at \in Steps(call.op)
  /\ call.at = "create" => call.batch # <<>>
  /\ call.refused => call.op = "create" /\ call.at # "create"
  /\ call.at \in {"read", "write", "delete"} => call.name \in Names
  /\ call.op \in {"scale", "unscale"} /\ call.at \in {"write", "delete"}
     => call.name \in Scalers /\ call.listed \in Revisions /\ call.listed <= revision
  /\ call.op = "scale" /\ call.at \in {"check", "find"} => call.name \in Scalers
  /\ call.op \in {"annotate", "rollback"} /\ call.at \in {"check", "read", "write"}
     => call.name = Workload
  /\ \A i \in DOMAIN call.created : call.created[i] \in call.made

(* Versions grow, and a list is older than what was created after it.      *)
VersionsGrow ==
  \A n \in Names : Exists(n) =>
    /\ objects[n].version <= revision
    /\ objects[n].listed # Nil => objects[n].listed < objects[n].version /\ objects[n].scales

(* A scaler that a handler has not found came after its list, and one that *)
(* it found scales or has changed after it.                                *)
ListComplete(call) ==
  /\ call.op = "scale" /\ call.at = "write" /\ call.version = Nil
     => \A s \in Scalers : Exists(s) /\ objects[s].scales => objects[s].version > call.listed
  /\ call.op = "unscale" /\ call.at = "delete" /\ Exists(call.name)
     => objects[call.name].scales \/ objects[call.name].version > call.listed

(* What a batch has created and nobody deleted is in its references.       *)
OwnsNothing(r) == \A n \in Names : Exists(n) => objects[n].creator # r
OwnNoted(r, call) ==
  /\ call.op = "create" /\ ~ call.lost /\ call.at \in {"create", "undo"}
     => \A n \in Names : Exists(n) /\ objects[n].creator = r
                         => \E i \in DOMAIN call.created : call.created[i] = n
  /\ call.at = "over" /\ call.refused /\ ~ call.lost => OwnsNothing(r)

CallGood(r, call) == CallFits(call) /\ ListComplete(call) /\ OwnNoted(r, call)

RequestGood(r) == /\ request[r] = Nil => OwnsNothing(r)
                  /\ request[r] # Nil => CallGood(r, request[r])

ObjectsInv ==
  ObjectsTypeOK /\ VersionsGrow /\ OneScalerEach /\ \A r \in Requests : RequestGood(r)

(* What a write does, and what becomes of a call.                          *)
LEMMA StoreFacts ==
  ASSUME ObjectsTypeOK, NEW n \in Names, NEW o \in Objects \cup {Nil}, Store(n, o)
  PROVE  /\ objects' \in [Names -> Objects \cup {Nil}]
         /\ revision \in Revisions /\ revision' \in Revisions /\ revision' = revision + 1
         /\ objects'[n] = o /\ \A m \in Names \ {n} : objects'[m] = objects[m]
BY ObjectsAssumption DEF Store, ObjectsTypeOK, Revisions

(* A created object is new, and the newest.                                *)
LEMMA MakeFacts ==
  ASSUME ObjectsTypeOK, NEW n \in Names, NEW r \in Requests \cup {Nil}, NEW scales \in BOOLEAN,
         NEW listed \in Revisions \cup {Nil}, Make(n, r, scales, listed)
  PROVE  /\ objects' \in [Names -> Objects \cup {Nil}]
         /\ revision \in Revisions /\ revision' \in Revisions /\ revision' = revision + 1
         /\ ~ Exists(n) /\ Exists(n)'
         /\ objects'[n].version = revision' /\ objects'[n].creator = r
         /\ objects'[n].scales = scales /\ objects'[n].listed = listed
         /\ \A m \in Names \ {n} : objects'[m] = objects[m]
<1> DEFINE o == [version |-> revision + 1, creator |-> r, scales |-> scales, listed |-> listed]
<1>1. Store(n, o) /\ ~ Exists(n)
  BY DEF Make
<1>2. revision + 1 \in Revisions
  BY <1>1, ObjectsAssumption DEF Store, ObjectsTypeOK, Revisions
<1>3. o \in Objects
  BY <1>2 DEF Objects
<1>4. o # Nil
  BY <1>3, NilAssumption
<1>5. /\ o.version = revision + 1 /\ o.creator = r /\ o.scales = scales /\ o.listed = listed
  OBVIOUS
<1> HIDE DEF o
<1> QED
  BY <1>1, <1>3, <1>4, <1>5, StoreFacts DEF Exists

(* A changed object keeps its creator and gets a new version.              *)
LEMMA ChangeFacts ==
  ASSUME ObjectsTypeOK, NEW n \in Names, NEW scales \in BOOLEAN,
         NEW listed \in Revisions \cup {Nil}, Change(n, scales, listed)
  PROVE  /\ objects' \in [Names -> Objects \cup {Nil}]
         /\ revision \in Revisions /\ revision' \in Revisions /\ revision' = revision + 1
         /\ Exists(n) /\ Exists(n)'
         /\ objects'[n].version = revision' /\ objects'[n].creator = objects[n].creator
         /\ objects'[n].scales = scales /\ objects'[n].listed = listed
         /\ \A m \in Names \ {n} : objects'[m] = objects[m]
<1> DEFINE o == [objects[n] EXCEPT !.version = revision + 1, !.scales = scales,
                                   !.listed = listed]
<1>1. Store(n, o) /\ Exists(n)
  BY DEF Change
<1>2. revision + 1 \in Revisions
  BY <1>1, ObjectsAssumption DEF Store, ObjectsTypeOK, Revisions
<1>3. objects[n] \in Objects
  BY <1>1 DEF Exists, ObjectsTypeOK
<1>4. o \in Objects
  BY <1>2, <1>3 DEF Objects
<1>5. o # Nil
  BY <1>4, NilAssumption
<1>6. /\ o.version = revision + 1 /\ o.creator = objects[n].creator
      /\ o.scales = scales /\ o.listed = listed
  BY <1>3 DEF Objects
<1> HIDE DEF o
<1> QED
  BY <1>1, <1>4, <1>5, <1>6, StoreFacts DEF Exists

(* A deletion touches one object.                                          *)
LEMMA DeleteFacts ==
  ASSUME ObjectsTypeOK, NEW n \in Names, Delete(n)
  PROVE  /\ objects' \in [Names -> Objects \cup {Nil}]
         /\ revision \in Revisions /\ revision' \in Revisions /\ revision' = revision + 1
         /\ Exists(n) /\ ~ Exists(n)'
         /\ \A m \in Names \ {n} : objects'[m] = objects[m]
BY StoreFacts DEF Delete, Exists

(* A handler moves its own call only.                                      *)
LEMMA BecomeFacts ==
  ASSUME ObjectsTypeOK, NEW r \in Requests, NEW call \in Calls, Become(r, call)
  PROVE  /\ request' \in [Requests -> Calls \cup {Nil}]
         /\ request'[r] = call /\ request'[r] # Nil
         /\ \A q \in Requests \ {r} : request'[q] = request[q]
BY NilAssumption DEF ObjectsTypeOK, Become

(* What is left of a call that is over.                                    *)
LEMMA OverFacts ==
  ASSUME NEW call \in Calls
  PROVE  /\ Over(call) \in Calls /\ Over(call).at = "over" /\ Over(call).op = call.op
         /\ Over(call).refused = call.refused /\ Over(call).lost = call.lost
         /\ Over(call).created = <<>>
<1>1. <<>> \in Seq(Names) /\ {} \in SUBSET Names
  OBVIOUS
<1>2. Over(call) \in Calls
  BY <1>1, Zenon DEF Over, Calls
<1>3. Over(call).at = "over" /\ Over(call).op = call.op
  BY DEF Over, Calls
<1>4. Over(call).refused = call.refused
  BY DEF Over, Calls
<1>5. Over(call).lost = call.lost
  BY DEF Over, Calls
<1>6. Over(call).created = <<>>
  BY DEF Over, Calls
<1> QED
  BY <1>2, <1>3, <1>4, <1>5, <1>6

-----------------------------------------------------------------------------
(* Any write: what all of them leave true.                                 *)
Wrote(n) ==
  /\ objects' \in [Names -> Objects \cup {Nil}]
  /\ revision \in Revisions /\ revision' \in Revisions /\ revision' = revision + 1
  /\ \A m \in Names \ {n} : objects'[m] = objects[m]
  /\ Exists(n)' => objects'[n].version = revision'

LEMMA WriteFacts ==
  ASSUME ObjectsTypeOK, NEW n \in Names,
         \/ \E r \in Requests \cup {Nil}, scales \in BOOLEAN, listed \in Revisions \cup {Nil} :
              Make(n, r, scales, listed)
         \/ \E scales \in BOOLEAN, listed \in Revisions \cup {Nil} : Change(n, scales, listed)
         \/ Delete(n)
  PROVE  Wrote(n)
BY MakeFacts, ChangeFacts, DeleteFacts DEF Wrote

LEMMA NilIsNoRevision == Nil \notin Revisions
BY ObjectsAssumption DEF Revisions

(* An object has the type of one.                                          *)
LEMMA ObjectTyped ==
  ASSUME ObjectsTypeOK, NEW n \in Names, Exists(n)
  PROVE  /\ objects[n] \in Objects /\ objects[n].version \in Nat /\ objects[n].scales \in BOOLEAN
         /\ objects[n].listed \in Nat \cup {Nil}
BY ObjectsAssumption DEF ObjectsTypeOK, Exists, Objects, Revisions

(* Versions grow on with any write of a list that is older.                *)
LEMMA VersionsGrowOn ==
  ASSUME ObjectsTypeOK, VersionsGrow, NEW n \in Names, Wrote(n),
         Exists(n)' /\ objects'[n].listed # Nil
           => objects'[n].listed \in Nat /\ objects'[n].listed <= revision /\ objects'[n].scales
  PROVE  VersionsGrow'
<1> SUFFICES ASSUME NEW m \in Names, Exists(m)'
             PROVE  /\ objects'[m].version <= revision'
                    /\ objects'[m].listed # Nil
                       => objects'[m].listed < objects'[m].version /\ objects'[m].scales
  BY DEF VersionsGrow, Exists
<1>1. revision \in Nat /\ revision' = revision + 1
  BY ObjectsAssumption DEF Wrote, Revisions
<1>2. CASE m = n
  BY <1>1, <1>2 DEF Wrote
<1>3. CASE m # n
  <2>1. objects'[m] = objects[m] /\ Exists(m)
    BY <1>3 DEF Wrote, Exists
  <2>2. objects[m].version \in Nat
    BY <2>1, ObjectTyped
  <2> QED
    BY <1>1, <2>1, <2>2 DEF VersionsGrow
<1> QED
  BY <1>2, <1>3

(* A call that fits still does after another's write.                      *)
LEMMA CallFitsOn ==
  ASSUME ObjectsTypeOK, NEW call \in Calls, CallFits(call), ListComplete(call),
         NEW n \in Names, Wrote(n)
  PROVE  CallFits(call)' /\ ListComplete(call)'
<1>1. revision \in Nat /\ revision' = revision + 1
  BY ObjectsAssumption DEF Wrote, Revisions
<1>2. CallFits(call)'
  <2>1. call.listed \in Revisions /\ call.listed <= revision => call.listed <= revision'
    BY <1>1, ObjectsAssumption DEF Revisions
  <2> QED
    BY <2>1 DEF CallFits
<1>3. \A m \in Names : Exists(m)' =>
        \/ m = n /\ objects'[m].version = revision'
        \/ m # n /\ Exists(m) /\ objects'[m] = objects[m]
  BY DEF Wrote, Exists
<1>4. ASSUME call.op \in {"scale", "unscale"}, call.at \in {"write", "delete"}
      PROVE  call.listed \in Nat /\ revision' > call.listed /\ call.name \in Scalers
  BY <1>1, <1>4, ObjectsAssumption DEF CallFits, Revisions
<1>5. ASSUME call.op = "scale", call.at = "write", call.version = Nil,
             NEW s \in Scalers, Exists(s)', objects'[s].scales
      PROVE  objects'[s].version > call.listed
  <2>1. s \in Names
    BY DEF Names
  <2> QED
    BY <1>3, <1>4, <1>5, <2>1 DEF ListComplete
<1>6. ASSUME call.op = "unscale", call.at = "delete", Exists(call.name)'
      PROVE  objects'[call.name].scales \/ objects'[call.name].version > call.listed
  <2>1. call.name \in Names
    BY <1>4, <1>6 DEF Names
  <2> QED
    BY <1>3, <1>4, <1>6, <2>1 DEF ListComplete
<1>7. ListComplete(call)'
  BY <1>5, <1>6 DEF ListComplete, Exists
<1> QED
  BY <1>2, <1>7

(* A scaler that is not new, or whose maker's list was complete, keeps     *)
(* OneScalerEach.                                                          *)
LEMMA OneScalerOn ==
  ASSUME ObjectsTypeOK, VersionsGrow, OneScalerEach, NEW n \in Names, Wrote(n),
         Exists(n)' /\ objects'[n].listed # Nil
           => \/ Exists(n) /\ objects[n].listed = objects'[n].listed
              \/ \A s \in Scalers : Exists(s) /\ objects[s].scales
                                   => objects[s].version > objects'[n].listed
  PROVE  OneScalerEach'
<1> SUFFICES ASSUME NEW s \in Scalers, NEW t \in Scalers, s # t, Exists(s)', Exists(t)',
                    objects'[s].scales, objects'[t].scales, objects'[s].listed # Nil
             PROVE  objects'[t].version > objects'[s].listed
  BY DEF OneScalerEach, Exists
<1>1. revision \in Nat /\ revision' = revision + 1
  BY ObjectsAssumption DEF Wrote, Revisions
<1>2. s \in Names /\ t \in Names
  BY DEF Names
<1>3. CASE s = n
  <2>1. objects'[t] = objects[t] /\ Exists(t)
    BY <1>2, <1>3 DEF Wrote, Exists
  <2>2. CASE Exists(n) /\ objects[n].listed = objects'[n].listed
    <3>1. objects[n].scales
      BY <1>3, <2>2 DEF VersionsGrow
    <3> QED
      BY <1>3, <2>1, <2>2, <3>1 DEF OneScalerEach
  <2> QED
    BY <1>3, <2>1, <2>2
<1>4. CASE s # n /\ t = n
  <2>1. objects'[s] = objects[s] /\ Exists(s)
    BY <1>2, <1>4 DEF Wrote, Exists
  <2>2. objects[s].version \in Nat /\ objects[s].listed \in Nat
    BY <1>2, <2>1, ObjectTyped
  <2>3. objects[s].listed < objects[s].version /\ objects[s].version <= revision
    BY <1>2, <2>1 DEF VersionsGrow
  <2>4. objects'[t].version = revision'
    BY <1>4 DEF Wrote
  <2> QED
    BY <1>1, <2>1, <2>2, <2>3, <2>4
<1>5. CASE s # n /\ t # n
  <2>1. objects'[s] = objects[s] /\ objects'[t] = objects[t] /\ Exists(s) /\ Exists(t)
    BY <1>2, <1>5 DEF Wrote, Exists
  <2> QED
    BY <2>1 DEF OneScalerEach
<1> QED
  BY <1>3, <1>4, <1>5

(* Nobody else makes a request own more.                                   *)
LEMMA OwnsNoMore ==
  ASSUME ObjectsTypeOK, NEW r \in Requests, NEW n \in Names, Wrote(n),
         Exists(n)' => \/ objects'[n].creator # r
                       \/ Exists(n) /\ objects'[n].creator = objects[n].creator
  PROVE  /\ \A m \in Names : Exists(m)' /\ objects'[m].creator = r
                           => Exists(m) /\ objects[m].creator = r
         /\ OwnsNothing(r) => OwnsNothing(r)'
         /\ \A call \in Calls : OwnNoted(r, call) => OwnNoted(r, call)'
<1>1. ASSUME NEW m \in Names, Exists(m)', objects'[m].creator = r
      PROVE  Exists(m) /\ objects[m].creator = r
  BY <1>1 DEF Wrote, Exists
<1>2. OwnsNothing(r) => OwnsNothing(r)'
  BY <1>1 DEF OwnsNothing, Exists
<1>3. ASSUME NEW call \in Calls, OwnNoted(r, call)
      PROVE  OwnNoted(r, call)'
  BY <1>1, <1>2, <1>3 DEF OwnNoted, Exists
<1> QED
  BY <1>1, <1>2, <1>3

-----------------------------------------------------------------------------
(* The invariant over the three kinds of step: a call moves, a call moves  *)
(* and writes, somebody else writes.                                       *)
LEMMA QuietStep ==
  ASSUME ObjectsInv, NEW r \in Requests, NEW call \in Calls, Become(r, call), Nothing,
         CallGood(r, call)
  PROVE  ObjectsInv'
<1>1. objects' = objects /\ revision' = revision
  BY DEF Nothing
<1>2. ObjectsTypeOK /\ ObjectsTypeOK'
  BY <1>1, BecomeFacts DEF ObjectsInv, ObjectsTypeOK
<1>3. VersionsGrow' /\ OneScalerEach'
  BY <1>1 DEF ObjectsInv, VersionsGrow, OneScalerEach, Exists
<1>4. ASSUME NEW q \in Requests
      PROVE  RequestGood(q)'
  <2>1. \A c \in Calls : CallGood(q, c) => CallGood(q, c)'
    BY <1>1 DEF CallGood, CallFits, ListComplete, OwnNoted, OwnsNothing, Exists
  <2>2. OwnsNothing(q) => OwnsNothing(q)'
    BY <1>1 DEF OwnsNothing, Exists
  <2>3. CASE q = r
    <3>1. request'[q] = call /\ request'[q] # Nil
      BY <1>2, <2>3, BecomeFacts
    <3> QED
      BY <2>1, <2>3, <3>1 DEF RequestGood
  <2>4. CASE q # r
    <3>1. request'[q] = request[q]
      BY <1>2, <2>4, BecomeFacts
    <3>2. request[q] # Nil => request[q] \in Calls
      BY <1>2 DEF ObjectsTypeOK
    <3>3. RequestGood(q)
      BY DEF ObjectsInv
    <3> QED
      BY <2>1, <2>2, <3>1, <3>2, <3>3 DEF RequestGood
  <2> QED
    BY <2>3, <2>4
<1> QED
  BY <1>2, <1>3, <1>4 DEF ObjectsInv

(* What a write may store.                                                 *)
StoresWell(n) ==
  /\ Exists(n)' /\ objects'[n].listed # Nil
     => objects'[n].listed \in Nat /\ objects'[n].listed <= revision /\ objects'[n].scales
  /\ Exists(n)' /\ objects'[n].listed # Nil
     => \/ Exists(n) /\ objects[n].listed = objects'[n].listed
        \/ \A s \in Scalers : Exists(s) /\ objects[s].scales
                             => objects[s].version > objects'[n].listed
CreatorKept(n, r) ==
  Exists(n)' => \/ objects'[n].creator # r
                \/ Exists(n) /\ objects'[n].creator = objects[n].creator

(* Another request's write leaves a request as good as it was.             *)
LEMMA OthersGood ==
  ASSUME ObjectsInv, NEW n \in Names, Wrote(n), StoresWell(n), NEW q \in Requests,
         CreatorKept(n, q), request'[q] = request[q]
  PROVE  RequestGood(q)'
<1>1. ObjectsTypeOK /\ RequestGood(q)
  BY DEF ObjectsInv
<1>2. CASE request[q] = Nil
  BY <1>1, <1>2, OwnsNoMore DEF RequestGood, CreatorKept
<1>3. CASE request[q] # Nil
  <2>1. request[q] \in Calls
    BY <1>1, <1>3 DEF ObjectsTypeOK
  <2>2. CallFits(request[q]) /\ ListComplete(request[q]) /\ OwnNoted(q, request[q])
    BY <1>1, <1>3 DEF RequestGood, CallGood
  <2> DEFINE c == request[q]
  <2>3. CallFits(c)' /\ ListComplete(c)'
    <3>1. \A call \in Calls : CallFits(call) /\ ListComplete(call)
                               => CallFits(call)' /\ ListComplete(call)'
      BY <1>1, CallFitsOn
    <3> QED
      BY <2>1, <2>2, <3>1
  <2> QED
    BY <1>1, <1>3, <2>1, <2>2, <2>3, OwnsNoMore DEF RequestGood, CallGood, CreatorKept
<1> QED
  BY <1>2, <1>3

(* ... and the objects.                                                    *)
LEMMA WorldKept ==
  ASSUME ObjectsInv, NEW n \in Names, Wrote(n), StoresWell(n)
  PROVE  /\ VersionsGrow' /\ OneScalerEach'
         /\ objects' \in [Names -> Objects \cup {Nil}] /\ revision' \in Revisions
BY VersionsGrowOn, OneScalerOn DEF ObjectsInv, StoresWell, Wrote

LEMMA WriteStep ==
  ASSUME ObjectsInv, NEW r \in Requests, NEW call \in Calls, Become(r, call),
         NEW n \in Names, Wrote(n), StoresWell(n),
         \A q \in Requests \ {r} : CreatorKept(n, q),
         \A c \in Calls : c = call => CallGood(r, c)'
  PROVE  ObjectsInv'
<1>1. ObjectsTypeOK
  BY DEF ObjectsInv
<1>2. /\ request' \in [Requests -> Calls \cup {Nil}] /\ request'[r] = call /\ request'[r] # Nil
      /\ \A q \in Requests \ {r} : request'[q] = request[q]
  BY <1>1, BecomeFacts
<1>3. RequestGood(r)'
  BY <1>2 DEF RequestGood
<1>4. \A q \in Requests \ {r} : RequestGood(q)'
  BY <1>2, OthersGood
<1> QED
  BY <1>2, <1>3, <1>4, WorldKept DEF ObjectsInv, ObjectsTypeOK

LEMMA OthersStep ==
  ASSUME ObjectsInv, NEW n \in Names, Wrote(n), StoresWell(n), UNCHANGED request,
         \A q \in Requests : CreatorKept(n, q)
  PROVE  ObjectsInv'
<1>1. \A q \in Requests : RequestGood(q)'
  BY OthersGood
<1> QED
  BY <1>1, WorldKept DEF ObjectsInv, ObjectsTypeOK

-----------------------------------------------------------------------------
(* The calls the actions leave behind.                                     *)
AtSteps == {"create", "undo", "check", "find", "read", "write", "delete", "over"}

(* A call that only moved.                                                 *)
LEMMA MovedFacts ==
  ASSUME NEW call \in Calls, NEW step \in AtSteps, NEW c, c = [call EXCEPT !.at = step]
  PROVE  /\ c \in Calls /\ c.at = step /\ c.op = call.op /\ c.batch = call.batch
         /\ c.created = call.created /\ c.name = call.name /\ c.version = call.version
         /\ c.listed = call.listed /\ c.made = call.made
         /\ c.refused = call.refused /\ c.lost = call.lost
<1>1. [call EXCEPT !.at = step] \in Calls
  BY Zenon DEF Calls, AtSteps
<1> QED
  BY <1>1 DEF Calls

(* A handler that returns leaves nothing to be true of it, but for a       *)
(* refused batch.                                                          *)
LEMMA OverGood ==
  ASSUME NEW call \in Calls, ~ call.refused, NEW r
  PROVE  /\ Over(call) \in Calls /\ CallGood(r, Over(call))
         /\ \A c \in Calls : c = Over(call) => CallGood(r, c)'
<1>1. /\ Over(call) \in Calls /\ Over(call).at = "over" /\ Over(call).op = call.op
      /\ Over(call).refused = call.refused /\ Over(call).created = <<>>
  BY OverFacts
<1>2. "over" \in Steps(call.op)
  BY DEF Calls, Steps
<1>3. CallFits(Over(call))
  BY <1>1, <1>2 DEF CallFits
<1>4. ASSUME NEW c \in Calls, c = Over(call)
      PROVE  CallFits(c)' /\ ListComplete(c)' /\ OwnNoted(r, c)'
  BY <1>1, <1>2, <1>4 DEF CallFits, ListComplete, OwnNoted
<1> QED
  BY <1>1, <1>3, <1>4 DEF CallGood, ListComplete, OwnNoted

(* The invariant of one request.                                           *)
LEMMA RequestFacts ==
  ASSUME ObjectsInv, NEW r \in Requests, request[r] # Nil
  PROVE  /\ ObjectsTypeOK /\ request[r] \in Calls /\ CallFits(request[r])
         /\ ListComplete(request[r]) /\ OwnNoted(r, request[r])
BY DEF ObjectsInv, ObjectsTypeOK, RequestGood, CallGood

(* A request that has just arrived.                                        *)
LEMMA CallFacts ==
  ASSUME NEW op \in {"create", "update", "delete", "scale", "unscale", "annotate", "rollback"},
         NEW at \in AtSteps, NEW batch \in Seq(Names), NEW name \in Names \cup {Nil},
         NEW version \in Revisions \cup {Nil}, NEW c, c = Call(op, at, batch, name, version)
  PROVE  /\ c \in Calls /\ c.op = op /\ c.at = at /\ c.batch = batch /\ c.created = <<>>
         /\ c.name = name /\ c.version = version /\ ~ c.refused /\ c.made = {}
<1>1. <<>> \in Seq(Names) /\ {} \in SUBSET Names /\ Nil \in Revisions \cup {Nil}
  OBVIOUS
<1>2. Call(op, at, batch, name, version) \in Calls
  BY <1>1 DEF Call, Calls, AtSteps
<1> QED
  BY <1>2 DEF Call

(* A call that only moves.                                                 *)
LEMMA ReturnStep ==
  ASSUME ObjectsInv, NEW r \in Requests, request[r] # Nil, ~ request[r].refused,
         Return(r), Nothing
  PROVE  ObjectsInv'
BY RequestFacts, OverGood, QuietStep DEF Return

(* A call that writes and is over.                                         *)
LEMMA ReturnAfterWrite ==
  ASSUME ObjectsInv, NEW r \in Requests, request[r] # Nil, ~ request[r].refused, Return(r),
         NEW n \in Names, Wrote(n), StoresWell(n), \A q \in Requests \ {r} : CreatorKept(n, q)
  PROVE  ObjectsInv'
<1>1. request[r] \in Calls /\ CallFits(request[r])
  BY RequestFacts
<1>2. Over(request[r]) \in Calls
  BY <1>1, OverFacts
<1>3. \A c \in Calls : c = Over(request[r]) => CallGood(r, c)'
  <2>1. \A d \in Calls : CallFits(d) /\ ~ d.refused
          => \A c \in Calls : c = Over(d) => CallGood(r, c)'
    BY OverGood
  <2> QED
    BY <1>1, <2>1
<1>4. Become(r, Over(request[r]))
  BY DEF Return
<1>5. \A call \in Calls : Become(r, call) /\ (\A c \in Calls : c = call => CallGood(r, c)')
                         => ObjectsInv'
  BY WriteStep
<1> QED
  BY <1>2, <1>3, <1>4, <1>5

-----------------------------------------------------------------------------
(* The actions.                                                            *)
LEMMA ArriveKeeps ==
  ASSUME ObjectsInv, NEW r \in Requests, Arrive(r)
  PROVE  ObjectsInv'
<1>1. OwnsNothing(r) /\ Nothing
  BY DEF Arrive, ObjectsInv, RequestGood
<1>2. ASSUME NEW call \in Calls, call.created = <<>>, ~ call.refused, CallFits(call),
             ~ (call.op = "scale" /\ call.at = "write"),
             ~ (call.op = "unscale" /\ call.at = "delete"), Become(r, call)
      PROVE  ObjectsInv'
  BY <1>1, <1>2, QuietStep DEF CallGood, ListComplete, OwnNoted, OwnsNothing
<1>3. ASSUME NEW batch \in Batches, Become(r, Call("create", "create", batch, Nil, Nil))
      PROVE  ObjectsInv'
  <2>1. batch \in Seq(Names) /\ batch # <<>>
    <3>1. ASSUME NEW n \in Names
          PROVE  <<n>> \in Seq(Names) /\ <<n>> # <<>>
      OBVIOUS
    <3>2. ASSUME NEW n \in Names, NEW m \in Names
          PROVE  <<n, m>> \in Seq(Names) /\ <<n, m>> # <<>>
      OBVIOUS
    <3>3. \/ \E n \in Names : batch = <<n>>
          \/ \E n \in Names, m \in Names : batch = <<n, m>>
      <4>1. CASE batch \in {<<n>> : n \in Names}
        BY <4>1, Zenon
      <4>2. CASE batch \in Names \X Names
        <5>1. batch = <<batch[1], batch[2]>> /\ batch[1] \in Names /\ batch[2] \in Names
          BY <4>2
        <5> QED
          BY <5>1, Zenon
      <4> QED
        BY <4>1, <4>2, Zenon DEF Batches
    <3> QED
      BY <3>1, <3>2, <3>3, Zenon
  <2> DEFINE c == Call("create", "create", batch, Nil, Nil)
  <2>2. /\ c \in Calls /\ c.op = "create" /\ c.at = "create" /\ c.batch = batch
        /\ c.created = <<>> /\ ~ c.refused
    BY <2>1, CallFacts DEF AtSteps
  <2> HIDE DEF c
  <2>3. CallFits(c)
    BY <2>1, <2>2 DEF CallFits, Steps
  <2> QED
    BY <1>2, <1>3, <2>2, <2>3 DEF c
<1>4. ASSUME NEW op \in {"update", "delete", "scale", "unscale", "annotate", "rollback"},
             NEW at \in AtSteps, NEW name \in Names \cup {Nil},
             NEW version \in Revisions \cup {Nil}, Become(r, Call(op, at, <<>>, name, version)),
             at \in Steps(op), at # "over", op \in {"scale", "unscale"} => at = "check",
             op = "scale" => name \in Scalers, op \in {"update", "delete"} => name \in Names,
             op \in {"annotate", "rollback"} => name = Workload
      PROVE  ObjectsInv'
  <2> DEFINE c == Call(op, at, <<>>, name, version)
  <2>1. /\ c \in Calls /\ c.op = op /\ c.at = at /\ c.created = <<>> /\ c.name = name
        /\ ~ c.refused
    <3>1. <<>> \in Seq(Names)
      OBVIOUS
    <3>2. op \in {"create", "update", "delete", "scale", "unscale", "annotate", "rollback"}
      OBVIOUS
    <3>3. \A b \in Seq(Names) : \A d : d = Call(op, at, b, name, version)
            => /\ d \in Calls /\ d.op = op /\ d.at = at /\ d.created = <<>> /\ d.name = name
               /\ ~ d.refused
      <4> SUFFICES ASSUME NEW b \in Seq(Names), NEW d, d = Call(op, at, b, name, version)
                   PROVE  /\ d \in Calls /\ d.op = op /\ d.at = at /\ d.created = <<>>
                          /\ d.name = name /\ ~ d.refused
        OBVIOUS
      <4>1. name \in Names \cup {Nil} /\ version \in Revisions \cup {Nil} /\ at \in AtSteps
        OBVIOUS
      <4> QED
        BY <3>2, <4>1, CallFacts
    <3> QED
      BY <3>1, <3>3
  <2>2. at # "create" /\ Workload \in Names
    BY <1>4 DEF Steps, Names
  <2> HIDE DEF c
  <2>3. CallFits(c)
    BY <1>4, <2>1, <2>2 DEF CallFits, Steps
  <2> QED
    BY <1>2, <1>4, <2>1, <2>3 DEF c
<1>5. /\ AtSteps = {"create", "undo", "check", "find", "read", "write", "delete", "over"}
      /\ Scalers \subseteq Names /\ Workload \in Names
      /\ "read" \in Steps("update") /\ "write" \in Steps("update") /\ "delete" \in Steps("delete")
      /\ "check" \in Steps("scale") /\ "check" \in Steps("unscale")
      /\ "check" \in Steps("annotate") /\ "read" \in Steps("rollback")
  BY DEF AtSteps, Names, Steps
<1>6. \A n \in Names : Exists(n) => objects[n].version \in Revisions
  BY DEF ObjectsInv, ObjectsTypeOK, Exists, Objects
<1>7. CASE \E n \in Names : \/ Become(r, Call("update", "read", <<>>, n, Nil))
                           \/ /\ Exists(n)
                              /\ Become(r, Call("update", "write", <<>>, n, objects[n].version))
                           \/ Become(r, Call("delete", "delete", <<>>, n, Nil))
  <2> PICK n \in Names : \/ Become(r, Call("update", "read", <<>>, n, Nil))
                        \/ /\ Exists(n)
                           /\ Become(r, Call("update", "write", <<>>, n, objects[n].version))
                        \/ Become(r, Call("delete", "delete", <<>>, n, Nil))
    BY <1>7
  <2>1. CASE Become(r, Call("update", "read", <<>>, n, Nil))
    BY <1>4, <1>5, <2>1
  <2>2. CASE Exists(n) /\ Become(r, Call("update", "write", <<>>, n, objects[n].version))
    BY <1>4, <1>5, <1>6, <2>2
  <2>3. CASE Become(r, Call("delete", "delete", <<>>, n, Nil))
    BY <1>4, <1>5, <2>3
  <2> QED
    BY <2>1, <2>2, <2>3
<1>8. ASSUME NEW s \in Scalers, Become(r, Call("scale", "check", <<>>, s, Nil))
      PROVE  ObjectsInv'
  BY <1>4, <1>5, <1>8
<1>9. CASE Become(r, Call("unscale", "check", <<>>, Nil, Nil))
  BY <1>4, <1>5, <1>9
<1>10. CASE Become(r, Call("annotate", "check", <<>>, Workload, Nil))
  BY <1>4, <1>5, <1>10
<1>11. CASE Become(r, Call("rollback", "read", <<>>, Workload, Nil))
  BY <1>4, <1>5, <1>11
<1> QED
  BY <1>3, <1>7, <1>8, <1>9, <1>10, <1>11 DEF Arrive

(* The next document of a batch, and the others.                           *)
LEMMA BatchTyped ==
  ASSUME NEW call \in Calls, call.batch # <<>>
  PROVE  /\ Head(call.batch) \in Names /\ Tail(call.batch) \in Seq(Names)
         /\ Len(call.batch) > 1 => Tail(call.batch) # <<>>
         /\ Append(call.created, Head(call.batch)) \in Seq(Names)
         /\ call.made \cup {Head(call.batch)} \in SUBSET Names
<1>1. call.batch \in Seq(Names) /\ call.created \in Seq(Names) /\ call.made \in SUBSET Names
  BY DEF Calls
<1>2. Head(call.batch) \in Names /\ Tail(call.batch) \in Seq(Names)
  BY <1>1, TailTyped
<1>3. Len(call.batch) > 1 => Tail(call.batch) # <<>>
  BY <1>1, TailShifts
<1> QED
  BY <1>1, <1>2, <1>3

(* A document is created and noted.                                        *)
Noted(call, n) == [[call EXCEPT !.made = @ \cup {n}] EXCEPT !.created = Append(@, n),
                                                           !.batch = Tail(@)]

LEMMA NotedFacts ==
  ASSUME NEW call \in Calls, call.batch # <<>>, NEW n, n = Head(call.batch)
  PROVE  /\ Noted(call, n) \in Calls
         /\ Noted(call, n).op = call.op /\ Noted(call, n).at = call.at
         /\ Noted(call, n).batch = Tail(call.batch)
         /\ Noted(call, n).created = Append(call.created, n)
         /\ Noted(call, n).made = call.made \cup {n}
         /\ Noted(call, n).refused = call.refused /\ Noted(call, n).lost = call.lost
<1>1. /\ Tail(call.batch) \in Seq(Names) /\ Append(call.created, n) \in Seq(Names)
      /\ call.made \cup {n} \in SUBSET Names
  BY BatchTyped
<1> SUFFICES ASSUME NEW c, c = [call EXCEPT !.made = call.made \cup {n},
                                  !.created = Append(call.created, n), !.batch = Tail(call.batch)]
             PROVE  /\ c \in Calls /\ c.op = call.op /\ c.at = call.at
                    /\ c.batch = Tail(call.batch) /\ c.created = Append(call.created, n)
                    /\ c.made = call.made \cup {n} /\ c.refused = call.refused
                    /\ c.lost = call.lost
  <2>1. Noted(call, n) = [call EXCEPT !.made = call.made \cup {n},
                            !.created = Append(call.created, n), !.batch = Tail(call.batch)]
    BY DEF Calls, Noted
  <2> QED
    BY <2>1
<1>2. c \in Calls
  BY <1>1, Zenon DEF Calls
<1> QED
  BY <1>2 DEF Calls

(* The batch is refused, with its answer or without.                       *)
LEMMA RefusedFacts ==
  ASSUME NEW call \in Calls, NEW c, c = Refused(call)
  PROVE  /\ c \in Calls /\ c.op = call.op /\ c.at = "undo" /\ c.created = call.created
         /\ c.made = call.made /\ c.refused /\ c.lost = call.lost
<1>1. c \in Calls
  BY Zenon DEF Calls, Refused
<1> QED
  BY <1>1 DEF Calls, Refused

LEMMA LostFacts ==
  ASSUME NEW call \in Calls, call.batch # <<>>, NEW n, n = Head(call.batch), NEW c,
         c = [call EXCEPT !.made = call.made \cup {n}, !.at = "undo", !.refused = TRUE,
                          !.lost = TRUE]
  PROVE  /\ c \in Calls /\ c.op = call.op /\ c.at = "undo" /\ c.created = call.created
         /\ c.made = call.made \cup {n} /\ c.refused /\ c.lost
<1>1. call.made \cup {n} \in SUBSET Names
  BY BatchTyped
<1>2. c = [call EXCEPT !.made = call.made \cup {n}, !.at = "undo", !.refused = TRUE, !.lost =
         TRUE]
  BY DEF Calls, Refused
<1>3. c \in Calls
  BY <1>1, <1>2, Zenon DEF Calls
<1> QED
  BY <1>2, <1>3 DEF Calls

(* A batch goes on, or stops without its answer.                           *)
LEMMA NotedGood ==
  ASSUME NEW r \in Requests, NEW call \in Calls, CallFits(call), OwnNoted(r, call),
         call.op = "create", call.at = "create", NEW n \in Names, Wrote(n),
         NEW d \in Calls, d.op = "create", d.at = "create", d.batch # <<>>, ~ d.refused,
         d.created = Append(call.created, n), d.made = call.made \cup {n}, d.lost = call.lost
  PROVE  CallGood(r, d)'
<1>1. call.created \in Seq(Names) /\ Len(call.created) \in Nat
  BY DEF Calls
<1>2. /\ \A i \in DOMAIN call.created : i \in DOMAIN d.created /\ d.created[i] = call.created[i]
      /\ Len(call.created) + 1 \in DOMAIN d.created /\ d.created[Len(call.created) + 1] = n
      /\ \A i \in DOMAIN d.created :
           \/ i \in DOMAIN call.created /\ d.created[i] = call.created[i]
           \/ d.created[i] = n
  BY <1>1
<1>3. \A i \in DOMAIN d.created : d.created[i] \in d.made
  BY <1>2 DEF CallFits
<1>4. CallFits(d)' /\ ListComplete(d)'
  BY <1>3 DEF CallFits, ListComplete, Steps
<1>5. ASSUME NEW m \in Names, Exists(m)', objects'[m].creator = r, ~ d.lost
      PROVE  \E i \in DOMAIN d.created : d.created[i] = m
  <2>1. CASE m = n
    BY <1>2, <2>1
  <2>2. CASE m # n
    <3>1. Exists(m) /\ objects[m].creator = r
      BY <1>5, <2>2 DEF Wrote, Exists
    <3> QED
      BY <1>2, <1>5, <3>1 DEF OwnNoted
  <2> QED
    BY <2>1, <2>2
<1>6. OwnNoted(r, d)'
  BY <1>5 DEF OwnNoted, Exists
<1> QED
  BY <1>4, <1>6 DEF CallGood

(* A batch whose answer was lost promises nothing.                         *)
LEMMA LostGood ==
  ASSUME NEW r \in Requests, NEW call \in Calls, CallFits(call), NEW n,
         NEW d \in Calls, d.op = "create", d.at = "undo", d.created = call.created,
         d.made = call.made \cup {n}, d.refused, d.lost
  PROVE  CallGood(r, d)'
<1>1. \A i \in DOMAIN d.created : d.created[i] \in d.made
  BY DEF CallFits
<1>2. CallFits(d)' /\ ListComplete(d)' /\ OwnNoted(r, d)'
  BY <1>1 DEF CallFits, ListComplete, OwnNoted, Steps
<1> QED
  BY <1>2 DEF CallGood

(* A batch that is refused has noted what it created.                      *)
LEMMA RefusedGood ==
  ASSUME NEW r \in Requests, NEW call \in Calls, CallFits(call), OwnNoted(r, call),
         call.op = "create", call.at \in {"create", "undo"},
         NEW d \in Calls, d.op = "create", d.at = "undo", d.created = call.created,
         d.made = call.made, d.refused, d.lost = call.lost
  PROVE  CallGood(r, d)
BY DEF CallGood, CallFits, ListComplete, OwnNoted, Steps

(* The invariant of a request in one of its steps.                         *)
LEMMA AtFacts ==
  ASSUME ObjectsInv, NEW r \in Requests, NEW at, At(r, at)
  PROVE  /\ ObjectsTypeOK /\ request[r] # Nil /\ request[r] \in Calls /\ request[r].at = at
         /\ CallFits(request[r]) /\ ListComplete(request[r]) /\ OwnNoted(r, request[r])
         /\ at \in Steps(request[r].op)
         /\ request[r].op \in {"create", "update", "delete", "scale", "unscale", "annotate",
                               "rollback"}
<1>1. /\ ObjectsTypeOK /\ request[r] # Nil /\ request[r] \in Calls /\ request[r].at = at
      /\ CallFits(request[r]) /\ ListComplete(request[r]) /\ OwnNoted(r, request[r])
  BY RequestFacts DEF At
<1>2. at \in Steps(request[r].op)
  BY <1>1 DEF CallFits
<1> QED
  BY <1>1, <1>2 DEF Calls

(* createResource, document by document.                                   *)
LEMMA CreateNextKeeps ==
  ASSUME ObjectsInv, NEW r \in Requests, CreateNext(r)
  PROVE  ObjectsInv'
<1>1. At(r, "create")
  BY DEF CreateNext
<1> SUFFICES ASSUME NEW call \in Calls, call = request[r]
             PROVE  ObjectsInv'
  BY <1>1, AtFacts
<1>2. /\ ObjectsTypeOK /\ request[r] # Nil /\ CallFits(call) /\ OwnNoted(r, call)
      /\ call.at = "create"
  BY <1>1, AtFacts
<1>3. call.op = "create" /\ ~ call.refused /\ call.batch # <<>>
  <2>1. /\ call.op \in {"create", "update", "delete", "scale", "unscale", "annotate", "rollback"}
        /\ "create" \in Steps(call.op)
    BY <1>1, AtFacts
  <2> QED
    BY <1>2, <2>1 DEF CallFits, Steps
<1> SUFFICES ASSUME NEW n \in Names, n = Head(call.batch)
             PROVE  ObjectsInv'
  BY <1>3, BatchTyped
<1>4. ASSUME NEW scales \in Scaling(n), Make(n, r, scales, Nil)
      PROVE  /\ Wrote(n) /\ StoresWell(n) /\ \A q \in Requests \ {r} : CreatorKept(n, q)
  <2>1. scales \in BOOLEAN
    BY DEF Scaling
  <2>2. Wrote(n)
    BY <1>2, <1>4, <2>1, WriteFacts
  <2>3. objects'[n].listed = Nil /\ objects'[n].creator = r
    BY <1>2, <1>4, <2>1, MakeFacts
  <2> QED
    BY <2>2, <2>3 DEF StoresWell, CreatorKept
<1>5. CASE /\ \E scales \in Scaling(n) : Make(n, r, scales, Nil)
           /\ Len(call.batch) > 1
           /\ Become(r, Noted(call, n))
  <2> SUFFICES ASSUME NEW c, Become(r, c), c = Noted(call, n)
               PROVE  ObjectsInv'
    BY <1>5
  <2>1. /\ c \in Calls /\ c.op = "create" /\ c.at = "create"
        /\ c.batch = Tail(call.batch) /\ c.created = Append(call.created, n)
        /\ c.made = call.made \cup {n} /\ ~ c.refused /\ c.lost = call.lost
    BY <1>2, <1>3, NotedFacts
  <2>2. c.batch # <<>>
    BY <1>3, <1>5, <2>1, BatchTyped
  <2>3. Wrote(n) /\ StoresWell(n) /\ \A q \in Requests \ {r} : CreatorKept(n, q)
    BY <1>4, <1>5
  <2>4. CallGood(r, c)'
    BY <1>2, <1>3, <2>1, <2>2, <2>3, NotedGood
  <2> QED
    BY <2>1, <2>3, <2>4, WriteStep
<1>6. CASE (\E scales \in Scaling(n) : Make(n, r, scales, Nil)) /\ Return(r)
  <2>1. Wrote(n) /\ StoresWell(n) /\ \A q \in Requests \ {r} : CreatorKept(n, q)
    BY <1>4, <1>6
  <2> QED
    BY <1>2, <1>3, <1>6, <2>1, ReturnAfterWrite
<1>7. CASE /\ \E scales \in Scaling(n) : Make(n, r, scales, Nil)
           /\ Become(r, [Refused([call EXCEPT !.made = @ \cup {n}]) EXCEPT !.lost = TRUE])
  <2> SUFFICES ASSUME NEW c, Become(r, c),
                      c = [Refused([call EXCEPT !.made = @ \cup {n}]) EXCEPT !.lost = TRUE]
               PROVE  ObjectsInv'
    BY <1>7
  <2>1. /\ c \in Calls /\ c.op = "create" /\ c.at = "undo" /\ c.created = call.created
        /\ c.made = call.made \cup {n} /\ c.refused /\ c.lost
    <3>1. call.batch # <<>> /\ n = Head(call.batch)
      BY <1>3
    <3>3. c = [call EXCEPT !.made = call.made \cup {n}, !.at = "undo", !.refused = TRUE,
                           !.lost = TRUE]
      BY DEF Calls, Refused
    <3>4. /\ c \in Calls /\ c.op = call.op /\ c.at = "undo" /\ c.created = call.created
          /\ c.made = call.made \cup {n} /\ c.refused /\ c.lost
      BY <3>1, <3>3, LostFacts
    <3> QED
      BY <1>3, <3>4
  <2>2. Wrote(n) /\ StoresWell(n) /\ \A q \in Requests \ {r} : CreatorKept(n, q)
    BY <1>4, <1>7
  <2>3. CallGood(r, c)'
    BY <1>2, <2>1, LostGood
  <2> QED
    BY <2>1, <2>2, <2>3, WriteStep
<1>8. CASE Become(r, Refused(call)) /\ Nothing
  <2> SUFFICES ASSUME NEW c, Become(r, c), c = Refused(call)
               PROVE  ObjectsInv'
    BY <1>8
  <2>1. /\ c \in Calls /\ c.op = "create" /\ c.at = "undo" /\ c.created = call.created
        /\ c.made = call.made /\ c.refused /\ c.lost = call.lost
    BY <1>3, RefusedFacts
  <2>2. CallGood(r, c)
    BY <1>2, <1>3, <2>1, RefusedGood
  <2> QED
    BY <1>8, <2>1, <2>2, QuietStep
<1> QED
  BY <1>5, <1>6, <1>7, <1>8 DEF CreateNext, Noted

(* A sequence without its last element.                                    *)
LEMMA FrontFacts ==
  ASSUME NEW S, NEW s \in Seq(S), s # <<>>
  PROVE  /\ Len(s) \in Nat \ {0} /\ DOMAIN s = 1..Len(s)
         /\ Last(s) \in S /\ Last(s) = s[Len(s)]
         /\ Front(s) \in Seq(S) /\ DOMAIN Front(s) = 1..(Len(s) - 1)
         /\ \A i \in 1..(Len(s) - 1) : Front(s)[i] = s[i]
BY DEF Last, Front

(* A reference less.                                                       *)
Shorter(call, front, lost) == [call EXCEPT !.created = front, !.lost = lost]

LEMMA ShorterFacts ==
  ASSUME NEW call \in Calls, NEW front \in Seq(Names), NEW lost \in BOOLEAN
  PROVE  LET c == Shorter(call, front, lost)
         IN /\ c \in Calls /\ c.op = call.op /\ c.at = call.at /\ c.created = front
            /\ c.made = call.made /\ c.refused = call.refused /\ c.lost = lost
<1>1. Shorter(call, front, lost) \in Calls
  BY Zenon DEF Calls, Shorter
<1> QED
  BY <1>1 DEF Calls, Shorter

(* The last reference may go when its object has gone.                     *)
LEMMA ShorterGood ==
  ASSUME NEW r \in Requests, NEW call \in Calls, CallFits(call), OwnNoted(r, call),
         call.op = "create", call.at = "undo", call.created # <<>>,
         NEW d \in Calls, d.op = "create", d.at = "undo", d.created = Front(call.created),
         d.made = call.made, d.lost = call.lost
  PROVE  /\ ~ Exists(Last(call.created)) => CallGood(r, d)
         /\ Last(call.created) \in Names /\ Wrote(Last(call.created))
            /\ ~ Exists(Last(call.created))' => CallGood(r, d)'
<1>1. call.created \in Seq(Names)
  BY DEF Calls
<1>2. /\ Len(call.created) \in Nat \ {0} /\ DOMAIN call.created = 1..Len(call.created)
      /\ Last(call.created) = call.created[Len(call.created)]
      /\ DOMAIN d.created = 1..(Len(call.created) - 1)
      /\ \A i \in 1..(Len(call.created) - 1) : d.created[i] = call.created[i]
  BY <1>1, FrontFacts
<1>3. \A i \in DOMAIN d.created : d.created[i] \in d.made
  BY <1>2 DEF CallFits
<1>4. CallFits(d) /\ ListComplete(d) /\ CallFits(d)' /\ ListComplete(d)'
  BY <1>3 DEF CallFits, ListComplete, Steps
<1>5. ASSUME NEW m \in Names, Exists(m), objects[m].creator = r, ~ d.lost,
             m # Last(call.created)
      PROVE  \E i \in DOMAIN d.created : d.created[i] = m
  <2>1. PICK i \in DOMAIN call.created : call.created[i] = m
    BY <1>5 DEF OwnNoted
  <2>2. i \in 1..(Len(call.created) - 1)
    BY <1>2, <1>5, <2>1
  <2> QED
    BY <1>2, <2>1, <2>2
<1>6. ASSUME ~ Exists(Last(call.created))
      PROVE  CallGood(r, d)
  BY <1>4, <1>5, <1>6 DEF CallGood, OwnNoted
<1>7. ASSUME Last(call.created) \in Names, Wrote(Last(call.created)),
             ~ Exists(Last(call.created))'
      PROVE  CallGood(r, d)'
  <2>1. ASSUME NEW m \in Names, Exists(m)', objects'[m].creator = r
        PROVE  Exists(m) /\ objects[m].creator = r /\ m # Last(call.created)
    BY <1>7, <2>1 DEF Wrote, Exists
  <2>2. OwnNoted(r, d)'
    BY <1>5, <2>1 DEF OwnNoted, Exists
  <2> QED
    BY <1>4, <2>2 DEF CallGood
<1> QED
  BY <1>6, <1>7

(* A deletion stores nothing.                                              *)
LEMMA DeletedWell ==
  ASSUME ObjectsTypeOK, NEW n \in Names, Delete(n)
  PROVE  Wrote(n) /\ StoresWell(n) /\ ~ Exists(n)' /\ \A q : CreatorKept(n, q)
BY DeleteFacts, WriteFacts DEF StoresWell, CreatorKept

(* rollbackCreatedResources, reference by reference.                       *)
LEMMA UndoLastKeeps ==
  ASSUME ObjectsInv, NEW r \in Requests, UndoLast(r)
  PROVE  ObjectsInv'
<1>1. At(r, "undo")
  BY DEF UndoLast
<1> SUFFICES ASSUME NEW call \in Calls, call = request[r]
             PROVE  ObjectsInv'
  BY <1>1, AtFacts
<1>2. ObjectsTypeOK /\ CallFits(call) /\ OwnNoted(r, call) /\ call.at = "undo"
  BY <1>1, AtFacts
<1>3. call.op = "create" /\ call.created # <<>>
  <2>1. /\ call.op \in {"create", "update", "delete", "scale", "unscale", "annotate", "rollback"}
        /\ "undo" \in Steps(call.op)
    BY <1>1, AtFacts
  <2> QED
    BY <2>1 DEF Steps, UndoLast, More
<1>4. call.created \in Seq(Names) /\ call.lost \in BOOLEAN
  BY DEF Calls
<1>5. Last(call.created) \in Names /\ Front(call.created) \in Seq(Names)
  BY <1>3, <1>4, FrontFacts
<1> SUFFICES ASSUME NEW n \in Names, n = Last(call.created),
                    NEW front \in Seq(Names), front = Front(call.created)
             PROVE  ObjectsInv'
  BY <1>5
<1>6. CASE Delete(n) /\ Become(r, [call EXCEPT !.created = Front(@)])
  <2> SUFFICES ASSUME NEW c, c = Shorter(call, front, call.lost), Become(r, c)
               PROVE  ObjectsInv'
    <3>1. [call EXCEPT !.created = Front(@)]
          = [call EXCEPT !.created = front, !.lost = call.lost]
      BY DEF Calls
    <3> QED
      BY <1>6, <3>1 DEF Shorter
  <2>1. /\ c \in Calls /\ c.op = "create" /\ c.at = "undo" /\ c.created = front
        /\ c.made = call.made /\ c.lost = call.lost
    BY <1>2, <1>3, <1>4, ShorterFacts
  <2>2. Wrote(n) /\ StoresWell(n) /\ ~ Exists(n)' /\ \A q \in Requests \ {r} : CreatorKept(n, q)
    BY <1>2, <1>6, DeletedWell
  <2>3. CallGood(r, c)'
    BY <1>2, <1>3, <2>1, <2>2, ShorterGood
  <2> QED
    BY <2>1, <2>2, <2>3, WriteStep
<1>7. ASSUME NEW lost \in BOOLEAN, lost = (call.lost \/ Exists(n)), Nothing,
             NEW c, c = Shorter(call, front, lost), Become(r, c)
      PROVE  ObjectsInv'
  <2>1. /\ c \in Calls /\ c.op = "create" /\ c.at = "undo" /\ c.created = front
        /\ c.made = call.made /\ c.lost = lost
    BY <1>2, <1>3, <1>7, ShorterFacts
  <2>2. CallGood(r, c)
    <3>1. CASE ~ lost
      <4>1. ~ Exists(n) /\ call.lost = lost
        BY <1>4, <1>7, <3>1
      <4> QED
        BY <1>2, <1>3, <2>1, <4>1, ShorterGood
    <3>2. CASE lost
      <4>1. OwnNoted(r, c)
        BY <2>1, <3>2 DEF OwnNoted
      <4>2. \A i \in DOMAIN c.created : c.created[i] \in c.made
        BY <1>2, <1>3, <1>4, <2>1, FrontFacts DEF CallFits
      <4> QED
        BY <2>1, <4>1, <4>2 DEF CallGood, CallFits, ListComplete, Steps
    <3> QED
      BY <3>1, <3>2
  <2> QED
    BY <1>7, <2>1, <2>2, QuietStep
<1>8. CASE /\ Become(r, [[call EXCEPT !.created = Front(@)] EXCEPT !.lost = @ \/ Exists(n)])
           /\ Nothing
  <2>1. [[call EXCEPT !.created = Front(@)] EXCEPT !.lost = @ \/ Exists(n)]
        = [call EXCEPT !.created = front, !.lost = (call.lost \/ Exists(n))]
    BY DEF Calls
  <2> QED
    BY <1>7, <1>8, <2>1 DEF Shorter
<1> QED
  BY <1>6, <1>8 DEF UndoLast

(* With no reference left, nothing is left of the batch.                   *)
LEMMA UndoneKeeps ==
  ASSUME ObjectsInv, NEW r \in Requests, Undone(r)
  PROVE  ObjectsInv'
<1>1. At(r, "undo") /\ request[r].created = <<>> /\ Become(r, Over(request[r])) /\ Nothing
  BY DEF Undone, More, Return
<1> SUFFICES ASSUME NEW call \in Calls, call = request[r]
             PROVE  ObjectsInv'
  BY <1>1, AtFacts
<1>2. OwnNoted(r, call) /\ CallFits(call) /\ call.at = "undo"
  BY <1>1, AtFacts
<1>3. call.op = "create"
  <2>1. /\ call.op \in {"create", "update", "delete", "scale", "unscale", "annotate", "rollback"}
        /\ "undo" \in Steps(call.op)
    BY <1>1, AtFacts
  <2> QED
    BY <2>1 DEF Steps
<1>4. ~ call.lost => OwnsNothing(r)
  BY <1>1, <1>2, <1>3 DEF OwnNoted, OwnsNothing
<1>5. /\ Over(call) \in Calls /\ Over(call).at = "over" /\ Over(call).op = "create"
      /\ Over(call).lost = call.lost /\ Over(call).created = <<>>
  BY <1>3, OverFacts
<1>6. CallGood(r, Over(call))
  BY <1>4, <1>5 DEF CallGood, CallFits, ListComplete, OwnNoted, Steps
<1> QED
  BY <1>1, <1>5, <1>6, QuietStep

(* An object was read, scalers were listed, one was found.                 *)
ReadAt(call, v)          == [call EXCEPT !.at = "write", !.version = v]
Listed(call, rev, step)  == [call EXCEPT !.listed = rev, !.at = step]
Named(call, s, v)        == [call EXCEPT !.name = s, !.version = v]

LEMMA ReadAtFacts ==
  ASSUME NEW call \in Calls, NEW v \in Revisions
  PROVE  LET c == ReadAt(call, v)
         IN /\ c \in Calls /\ c.at = "write" /\ c.op = call.op /\ c.created = call.created
            /\ c.name = call.name /\ c.made = call.made /\ c.refused = call.refused
<1>1. v \in Revisions \cup {Nil}
  OBVIOUS
<1>2. ReadAt(call, v) \in Calls
  BY <1>1, Zenon DEF Calls, ReadAt
<1> QED
  BY <1>2 DEF Calls, ReadAt

LEMMA ListedFacts ==
  ASSUME NEW call \in Calls, NEW rev \in Revisions, NEW step \in AtSteps
  PROVE  LET c == Listed(call, rev, step)
         IN /\ c \in Calls /\ c.at = step /\ c.op = call.op /\ c.created = call.created
            /\ c.name = call.name /\ c.version = call.version /\ c.listed = rev
            /\ c.made = call.made /\ c.refused = call.refused
<1>1. rev \in Revisions \cup {Nil}
  OBVIOUS
<1>2. Listed(call, rev, step) \in Calls
  BY <1>1, Zenon DEF Calls, Listed, AtSteps
<1> QED
  BY <1>2 DEF Calls, Listed

LEMMA NamedFacts ==
  ASSUME NEW call \in Calls, NEW s \in Names, NEW v \in Revisions
  PROVE  LET c == Named(call, s, v)
         IN /\ c \in Calls /\ c.at = call.at /\ c.op = call.op /\ c.created = call.created
            /\ c.name = s /\ c.version = v /\ c.listed = call.listed
            /\ c.made = call.made /\ c.refused = call.refused
<1>1. v \in Revisions \cup {Nil} /\ s \in Names \cup {Nil}
  OBVIOUS
<1>2. Named(call, s, v) \in Calls
  BY <1>1, Zenon DEF Calls, Named
<1> QED
  BY <1>2 DEF Calls, Named

(* A call that is in none of createResource's steps.                       *)
LEMMA PlainCall ==
  ASSUME ObjectsInv, NEW r \in Requests,
         NEW at \in {"check", "find", "read", "write", "delete"}, At(r, at)
  PROVE  request[r].op # "create" /\ ~ request[r].refused
<1>1. /\ CallFits(request[r]) /\ at \in Steps(request[r].op)
      /\ request[r].op \in {"create", "update", "delete", "scale", "unscale", "annotate",
                               "rollback"}
  BY AtFacts
<1>2. request[r].op # "create"
  BY <1>1 DEF Steps
<1> QED
  BY <1>1, <1>2 DEF CallFits

(* The checks, reads and writes of the other handlers.                     *)
LEMMA CheckWorkloadKeeps ==
  ASSUME ObjectsInv, NEW r \in Requests, CheckWorkload(r)
  PROVE  ObjectsInv'
<1>1. At(r, "check") /\ Nothing
  BY DEF CheckWorkload
<1> SUFFICES ASSUME NEW call \in Calls, call = request[r]
             PROVE  ObjectsInv'
  BY <1>1, AtFacts
<1>2. /\ CallFits(call) /\ call.at = "check" /\ "check" \in Steps(call.op)
      /\ call.op \in {"create", "update", "delete", "scale", "unscale", "annotate", "rollback"}
  BY <1>1, AtFacts
<1>3. call.op \in {"scale", "unscale", "annotate"} /\ ~ call.refused
  BY <1>1, <1>2, PlainCall DEF Steps
<1> SUFFICES ASSUME NEW step \in AtSteps,
                    step = (IF call.op = "annotate" THEN "read" ELSE "find"),
                    NEW c, c = [call EXCEPT !.at = step], Become(r, c)
             PROVE  ObjectsInv'
  BY DEF CheckWorkload, Continue, AtSteps
<1>4. /\ c \in Calls /\ c.at = step /\ c.op = call.op /\ c.created = call.created
      /\ c.name = call.name /\ c.made = call.made /\ c.refused = call.refused
  BY MovedFacts
<1>5. /\ step \in Steps(call.op) /\ step \in {"read", "find"}
      /\ step = "read" => call.op = "annotate"
  BY <1>3 DEF Steps
<1>6. call.op = "scale" => call.name \in Scalers
  BY <1>2 DEF CallFits
<1>7. call.op = "annotate" => call.name = Workload
  BY <1>2 DEF CallFits
<1>8. CallFits(c)
  BY <1>2, <1>3, <1>4, <1>5, <1>6, <1>7 DEF CallFits, Names
<1>9. CallGood(r, c)
  BY <1>3, <1>4, <1>5, <1>8 DEF CallGood, ListComplete, OwnNoted
<1> QED
  BY <1>1, <1>4, <1>9, QuietStep

LEMMA ReadObjectKeeps ==
  ASSUME ObjectsInv, NEW r \in Requests, ReadObject(r)
  PROVE  ObjectsInv'
<1>1. At(r, "read") /\ Nothing /\ Exists(request[r].name)
  BY DEF ReadObject
<1> SUFFICES ASSUME NEW call \in Calls, call = request[r]
             PROVE  ObjectsInv'
  BY <1>1, AtFacts
<1>2. /\ CallFits(call) /\ call.at = "read" /\ "read" \in Steps(call.op) /\ ObjectsTypeOK
      /\ call.op \in {"create", "update", "delete", "scale", "unscale", "annotate", "rollback"}
  BY <1>1, AtFacts
<1>3. call.op \in {"update", "annotate", "rollback"} /\ ~ call.refused /\ call.name \in Names
  BY <1>1, <1>2, PlainCall DEF Steps, CallFits
<1>4. objects[call.name].version \in Revisions
  BY <1>1, <1>2, <1>3 DEF ObjectsTypeOK, Exists, Objects
<1> SUFFICES ASSUME NEW v \in Revisions, NEW c, c = ReadAt(call, v), Become(r, c)
             PROVE  ObjectsInv'
  BY <1>4 DEF ReadObject, ReadAt
<1>5. /\ c \in Calls /\ c.at = "write" /\ c.op = call.op /\ c.created = call.created
      /\ c.name = call.name /\ c.made = call.made /\ c.refused = call.refused
  BY ReadAtFacts
<1>6. CallFits(c)
  BY <1>2, <1>3, <1>5 DEF CallFits, Steps
<1>7. CallGood(r, c)
  BY <1>3, <1>5, <1>6 DEF CallGood, ListComplete, OwnNoted
<1> QED
  BY <1>1, <1>5, <1>7, QuietStep

LEMMA FindScalerKeeps ==
  ASSUME ObjectsInv, NEW r \in Requests, FindScaler(r)
  PROVE  ObjectsInv'
<1>1. At(r, "find") /\ Nothing
  BY DEF FindScaler
<1> SUFFICES ASSUME NEW call \in Calls, call = request[r]
             PROVE  ObjectsInv'
  BY <1>1, AtFacts
<1>2. /\ CallFits(call) /\ call.at = "find" /\ "find" \in Steps(call.op) /\ ObjectsTypeOK
      /\ call.op \in {"create", "update", "delete", "scale", "unscale", "annotate", "rollback"}
  BY <1>1, AtFacts
<1>3. call.op \in {"scale", "unscale"} /\ ~ call.refused
  BY <1>1, <1>2, PlainCall DEF Steps
<1>4. call.op = "scale" => call.name \in Scalers
  BY <1>2 DEF CallFits
<1>5. revision \in Revisions
  BY <1>2 DEF ObjectsTypeOK
<1> SUFFICES ASSUME NEW listed \in Revisions, listed = revision,
                    NEW step \in AtSteps, step = (IF call.op = "scale" THEN "write" ELSE
                             "delete"),
                    NEW f, f = Listed(call, listed, step),
                    \/ \E s \in WorkloadScalers(f) : Become(r, Named(f, s, objects[s].version))
                    \/ /\ WorkloadScalers(f) = {}
                       /\ Become(r, IF f.op = "scale" THEN f ELSE Over(f))
             PROVE  ObjectsInv'
  BY <1>5 DEF FindScaler, Listed, Named, AtSteps
<1>6. /\ f \in Calls /\ f.op = call.op /\ f.at = step /\ f.listed = listed /\ f.name = call.name
      /\ f.created = call.created /\ f.made = call.made /\ f.refused = call.refused
      /\ f.version = call.version
  BY ListedFacts
<1>7. listed \in Nat /\ listed <= revision /\ step \in Steps(call.op)
  BY <1>3, ObjectsAssumption DEF Revisions, Steps
<1>8. ASSUME NEW s \in WorkloadScalers(f), Become(r, Named(f, s, objects[s].version))
      PROVE  ObjectsInv'
  <2>1. s \in Scalers /\ s \in Names /\ Exists(s) /\ objects[s].scales
    BY DEF WorkloadScalers, Names
  <2>2. objects[s].version \in Revisions
    BY <1>2, <2>1 DEF ObjectsTypeOK, Exists, Objects
  <2> SUFFICES ASSUME NEW v \in Revisions, NEW c, c = Named(f, s, v), Become(r, c)
               PROVE  ObjectsInv'
    BY <1>8, <2>2
  <2>3. /\ c \in Calls /\ c.op = call.op /\ c.at = step /\ c.listed = listed /\ c.name = s
        /\ c.version = v /\ c.created = call.created /\ c.made = call.made
        /\ c.refused = call.refused
    BY <1>6, <2>1, NamedFacts
  <2>4. CallFits(c)
    BY <1>2, <1>3, <1>7, <2>1, <2>3 DEF CallFits
  <2>5. ListComplete(c)
    BY <1>3, <2>1, <2>3, NilIsNoRevision DEF ListComplete
  <2>6. CallGood(r, c)
    BY <1>3, <2>3, <2>4, <2>5 DEF CallGood, OwnNoted
  <2> QED
    BY <1>1, <2>3, <2>6, QuietStep
<1>9. CASE WorkloadScalers(f) = {} /\ call.op = "scale" /\ Become(r, f)
  <2>1. CallFits(f)
    BY <1>2, <1>4, <1>6, <1>7, <1>9 DEF CallFits, Names
  <2>2. ListComplete(f)
    BY <1>6, <1>9 DEF ListComplete, WorkloadScalers
  <2>3. CallGood(r, f)
    BY <1>6, <1>9, <2>1, <2>2 DEF CallGood, OwnNoted
  <2> QED
    BY <1>1, <1>6, <1>9, <2>3, QuietStep
<1>10. CASE Become(r, Over(f))
  BY <1>1, <1>3, <1>6, <1>10, OverGood, QuietStep
<1> QED
  BY <1>3, <1>6, <1>8, <1>9, <1>10

LEMMA WriteObjectKeeps ==
  ASSUME ObjectsInv, NEW r \in Requests, WriteObject(r)
  PROVE  ObjectsInv'
<1>1. At(r, "write") /\ Return(r)
  BY DEF WriteObject
<1> SUFFICES ASSUME NEW call \in Calls, call = request[r]
             PROVE  ObjectsInv'
  BY <1>1, AtFacts
<1>2. /\ CallFits(call) /\ ListComplete(call) /\ call.at = "write" /\ ObjectsTypeOK
      /\ VersionsGrow /\ request[r] # Nil
  BY <1>1, AtFacts DEF ObjectsInv
<1>3. ~ request[r].refused /\ call.name \in Names
  BY <1>1, <1>2, PlainCall DEF CallFits
<1> SUFFICES ASSUME NEW n \in Names, n = call.name
             PROVE  ObjectsInv'
  BY <1>3
<1> SUFFICES Wrote(n) /\ StoresWell(n) /\ \A q \in Requests \ {r} : CreatorKept(n, q)
  BY <1>1, <1>2, <1>3, ReturnAfterWrite
<1>4. Nil \in Revisions \cup {Nil} /\ TRUE \in BOOLEAN /\ FALSE \in BOOLEAN
  OBVIOUS
<1>5. ASSUME NEW scales \in BOOLEAN, Change(n, scales, Nil)
      PROVE  Wrote(n) /\ StoresWell(n) /\ \A q : CreatorKept(n, q)
  <2>1. Wrote(n)
    BY <1>2, <1>4, <1>5, WriteFacts
  <2>2. objects'[n].listed = Nil /\ Exists(n) /\ objects'[n].creator = objects[n].creator
    BY <1>2, <1>4, <1>5, ChangeFacts
  <2> QED
    BY <2>1, <2>2 DEF StoresWell, CreatorKept
<1>6. CASE Exists(n) /\ Change(n, TRUE, objects[n].listed)
  <2>1. objects[n].listed \in Revisions \cup {Nil} /\ objects[n].listed \in Nat \cup {Nil}
    BY <1>2, <1>6, ObjectTyped DEF Objects
  <2>2. Wrote(n)
    BY <1>2, <1>4, <1>6, <2>1, WriteFacts
  <2>3. /\ Exists(n) /\ objects'[n].listed = objects[n].listed /\ objects'[n].scales
        /\ objects'[n].creator = objects[n].creator
    BY <1>2, <1>4, <1>6, <2>1, ChangeFacts
  <2>4. objects[n].listed # Nil => objects[n].listed \in Nat /\ objects[n].listed <= revision
    <3>1. objects[n].version \in Nat /\ revision \in Nat
      BY <1>2, <1>6, ObjectTyped, ObjectsAssumption DEF ObjectsTypeOK, Revisions
    <3>2. objects[n].version <= revision
      BY <1>2, <1>6 DEF VersionsGrow
    <3>3. objects[n].listed # Nil => objects[n].listed < objects[n].version
      BY <1>2, <1>6 DEF VersionsGrow
    <3> QED
      BY <2>1, <3>1, <3>2, <3>3
  <2> QED
    BY <2>2, <2>3, <2>4 DEF StoresWell, CreatorKept
<1>7. CASE call.op = "scale" /\ call.version = Nil /\ Make(n, r, TRUE, call.listed)
  <2>1. call.listed \in Revisions /\ call.listed <= revision
    BY <1>2, <1>7 DEF CallFits
  <2>2. Wrote(n)
    BY <1>2, <1>4, <1>7, <2>1, WriteFacts
  <2>3. objects'[n].listed = call.listed /\ objects'[n].scales /\ objects'[n].creator = r
    <3>1. r \in Requests \cup {Nil} /\ call.listed \in Revisions \cup {Nil}
      BY <2>1
    <3>2. ObjectsTypeOK /\ Make(n, r, TRUE, call.listed)
      BY <1>2, <1>7
    <3> QED
      BY <1>4, <3>1, <3>2, MakeFacts
  <2>4. \A s \in Scalers : Exists(s) /\ objects[s].scales => objects[s].version > call.listed
    BY <1>2, <1>7 DEF ListComplete
  <2> QED
    BY <2>1, <2>2, <2>3, <2>4 DEF StoresWell, CreatorKept, Revisions
<1>8. Scaling(n) \subseteq BOOLEAN
  BY DEF Scaling
<1> QED
  BY <1>4, <1>5, <1>6, <1>7, <1>8 DEF WriteObject, Current

LEMMA DeleteObjectKeeps ==
  ASSUME ObjectsInv, NEW r \in Requests, DeleteObject(r)
  PROVE  ObjectsInv'
<1>1. At(r, "delete") /\ Return(r) /\ Delete(request[r].name)
  BY DEF DeleteObject
<1>2. ObjectsTypeOK /\ request[r] # Nil /\ request[r].name \in Names
  BY <1>1, AtFacts DEF CallFits
<1> SUFFICES ASSUME NEW n \in Names, Delete(n)
             PROVE  ObjectsInv'
  BY <1>1, <1>2
<1>3. Wrote(n) /\ StoresWell(n) /\ \A q \in Requests \ {r} : CreatorKept(n, q)
  BY <1>2, DeletedWell
<1>4. ~ request[r].refused
  BY <1>1, PlainCall
<1> QED
  BY <1>1, <1>2, <1>3, <1>4, ReturnAfterWrite

LEMMA CallFailsKeeps ==
  ASSUME ObjectsInv, NEW r \in Requests, CallFails(r)
  PROVE  ObjectsInv'
<1>1. PICK at \in {"check", "find", "read", "write", "delete"} : At(r, at)
  BY DEF CallFails
<1>2. request[r] # Nil /\ ~ request[r].refused /\ Return(r) /\ Nothing
  BY <1>1, PlainCall DEF CallFails, At
<1> QED
  BY <1>2, ReturnStep

(* Other clients of the API server.                                        *)
LEMMA OthersActKeeps ==
  ASSUME ObjectsInv, NEW n \in Names, OthersAct(n)
  PROVE  ObjectsInv'
<1>1. ObjectsTypeOK /\ Scaling(n) \subseteq BOOLEAN /\ Nil \in Revisions \cup {Nil}
  BY DEF ObjectsInv, Scaling
<1>2. Nil \in Requests \cup {Nil} /\ Nil \notin Requests
  BY ObjectsAssumption
<1> SUFFICES Wrote(n) /\ StoresWell(n) /\ \A q \in Requests : CreatorKept(n, q)
  BY OthersStep DEF OthersAct
<1>3. ASSUME NEW scales \in BOOLEAN, Make(n, Nil, scales, Nil)
      PROVE  Wrote(n) /\ StoresWell(n) /\ \A q \in Requests : CreatorKept(n, q)
  <2>1. Wrote(n)
    BY <1>1, <1>2, <1>3, WriteFacts
  <2>2. objects'[n].listed = Nil /\ objects'[n].creator = Nil
    BY <1>1, <1>2, <1>3, MakeFacts
  <2> QED
    BY <1>2, <2>1, <2>2 DEF StoresWell, CreatorKept
<1>4. ASSUME NEW scales \in BOOLEAN, Change(n, scales, Nil)
      PROVE  Wrote(n) /\ StoresWell(n) /\ \A q \in Requests : CreatorKept(n, q)
  <2>1. Wrote(n)
    BY <1>1, <1>4, WriteFacts
  <2>2. objects'[n].listed = Nil /\ Exists(n) /\ objects'[n].creator = objects[n].creator
    BY <1>1, <1>4, ChangeFacts
  <2> QED
    BY <2>1, <2>2 DEF StoresWell, CreatorKept
<1>5. CASE Delete(n)
  BY <1>1, <1>5, DeletedWell
<1> QED
  BY <1>1, <1>3, <1>4, <1>5 DEF OthersAct

-----------------------------------------------------------------------------
(* Both parts from their start on.                                         *)
LEMMA ObjectsStart == ObjectsInit => ObjectsInv
<1> SUFFICES ASSUME ObjectsInit PROVE ObjectsInv
  OBVIOUS
<1>1. 1 \in Revisions
  BY ObjectsAssumption DEF Revisions
<1>2. \A n \in Names : Exists(n) => /\ n = Workload /\ objects[n] \in Objects
                                    /\ objects[n].version = 1 /\ objects[n].listed = Nil
                                    /\ objects[n].creator = Nil
  BY <1>1 DEF ObjectsInit, Exists, Objects
<1>3. ObjectsTypeOK
  BY <1>1, <1>2 DEF ObjectsInit, ObjectsTypeOK, Exists
<1>4. VersionsGrow
  BY <1>2 DEF VersionsGrow, ObjectsInit
<1>5. OneScalerEach
  BY <1>2, ObjectsAssumption DEF OneScalerEach, Names
<1>6. \A r \in Requests : RequestGood(r)
  BY <1>2, ObjectsAssumption DEF RequestGood, OwnsNothing, ObjectsInit
<1> QED
  BY <1>3, <1>4, <1>5, <1>6 DEF ObjectsInv

LEMMA ObjectsKept ==
  ASSUME ObjectsInv, [ObjectsNext]_objectVars
  PROVE  ObjectsInv'
<1>1. CASE UNCHANGED objectVars
  BY <1>1 DEF objectVars, ObjectsInv, ObjectsTypeOK, VersionsGrow, OneScalerEach, RequestGood,
              OwnsNothing, CallGood, CallFits, ListComplete, OwnNoted, Exists
<1>2. ASSUME NEW r \in Requests,
             \/ Arrive(r) \/ CreateNext(r) \/ UndoLast(r) \/ Undone(r)
             \/ CheckWorkload(r) \/ FindScaler(r) \/ ReadObject(r) \/ WriteObject(r)
             \/ DeleteObject(r) \/ CallFails(r)
      PROVE  ObjectsInv'
  BY <1>2, ArriveKeeps, CreateNextKeeps, UndoLastKeeps, UndoneKeeps, CheckWorkloadKeeps,
     FindScalerKeeps, ReadObjectKeeps, WriteObjectKeeps, DeleteObjectKeeps, CallFailsKeeps
<1> QED
  BY <1>1, <1>2, OthersActKeeps DEF ObjectsNext

LEMMA TerminalStart == TerminalInit => TerminalInv
<1> SUFFICES ASSUME TerminalInit PROVE TerminalInv
  OBVIOUS
<1>1. TerminalTypeOK
  <2>1. <<>> \in Seq(0..MaxSizes) /\ <<>> \in Seq(Sizes) /\ Len(<<>>) = 0
    OBVIOUS
  <2> QED
    BY <2>1, TerminalBounds DEF TerminalInit, TerminalTypeOK
<1>2. PhasesFit
  BY DEF TerminalInit, PhasesFit
<1>3. SentOrRead
  BY DEF TerminalInit, SentOrRead, NoSizeFrom
<1>4. ReadOrSent
  BY DEF TerminalInit, ReadOrSent, Pushing
<1> QED
  BY <1>1, <1>2, <1>3, <1>4 DEF TerminalInv

LEMMA TerminalKept ==
  ASSUME TerminalInv, [TerminalNext]_terminalVars
  PROVE  TerminalInv'
BY TerminalTypeKept, PhasesKept, ReadOrSentKept, SentOrReadKept DEF TerminalInv

(* A step is a step of each part, or leaves it alone.                      *)
LEMMA NextParts ==
  [Next]_vars => [ObjectsNext]_objectVars /\ [TerminalNext]_terminalVars /\ work' = work
BY DEF Next, vars

(* Both invariants are inductive.                                          *)
LEMMA ObjectsInvHolds == Spec => []ObjectsInv
<1>1. Init => ObjectsInv
  BY ObjectsStart DEF Init
<1>2. ObjectsInv /\ [Next]_vars => ObjectsInv'
  BY ObjectsKept, NextParts
<1> QED
  BY <1>1, <1>2, PTL DEF Spec

LEMMA TerminalInvHolds == Spec => []TerminalInv
<1>1. Init => TerminalInv
  BY TerminalStart DEF Init
<1>2. TerminalInv /\ [Next]_vars => TerminalInv'
  BY TerminalKept, NextParts
<1> QED
  BY <1>1, <1>2, PTL DEF Spec

(* Every variable of both parts has its type (ClusterObjects, PodTerminal). *)
THEOREM TypesHold == Spec => []TypeOK
<1>1. Init => work \in Work
  BY DEF Init
<1>2. work \in Work /\ [Next]_vars => (work \in Work)'
  BY NextParts
<1>3. work \in Work /\ ObjectsInv /\ TerminalInv => TypeOK
  BY DEF TypeOK, ObjectsInv, TerminalInv
<1> QED
  BY <1>1, <1>2, <1>3, ObjectsInvHolds, TerminalInvHolds, PTL DEF Spec

(* However many sizes the browser sends and however short the queue, the   *)
(* process ends up with the window of the browser (terminalSizeQueue).     *)
THEOREM LastSizeHolds == Spec => []LastSizeArrives
<1>1. TerminalInv => LastSizeArrives
  <2> SUFFICES ASSUME TerminalInv, process.state = "running", reader.at = "read",
                      wire = <<>>, queue = <<>>, resizer.size = 0
               PROVE  process.size = sent
    BY DEF LastSizeArrives
  <2>1. conn # "closed"
    BY DEF TerminalInv, PhasesFit
  <2>2. reader.size = sent
    BY <2>1 DEF TerminalInv, SentOrRead
  <2> QED
    BY <2>2 DEF TerminalInv, ReadOrSent, Pushing
<1> QED
  BY <1>1, TerminalInvHolds, PTL

(* Only a race gives a workload a second scaler, however many requests and *)
(* clients there are (UpsertWorkloadHPA, UpsertWorkloadScaledObject).      *)
THEOREM OneScalerHolds == Spec => []OneScalerEach
<1>1. ObjectsInv => OneScalerEach
  BY DEF ObjectsInv
<1> QED
  BY <1>1, ObjectsInvHolds, PTL

(* A batch that was refused leaves nothing behind, whatever the length of  *)
(* the batch, unless an answer was lost (rollbackCreatedResources).        *)
THEOREM BatchUndoneHolds == Spec => []BatchIsUndone
<1>1. ObjectsInv => BatchIsUndone
  <2> SUFFICES ASSUME ObjectsInv, NEW r \in Requests, At(r, "over"), request[r].refused,
                      ~ request[r].lost
               PROVE  \A n \in Names : Exists(n) => objects[n].creator # r
    BY DEF BatchIsUndone
  <2> QED
    BY AtFacts DEF OwnNoted, OwnsNothing
<1> QED
  BY <1>1, ObjectsInvHolds, PTL

-----------------------------------------------------------------------------
(* Which step changes which request, and which object.                     *)
Acts(r) ==
  \/ Arrive(r) \/ CreateNext(r) \/ UndoLast(r) \/ Undone(r)
  \/ CheckWorkload(r) \/ FindScaler(r) \/ ReadObject(r) \/ WriteObject(r)
  \/ DeleteObject(r) \/ CallFails(r)

(* A request whose call has moved has acted.                               *)
LEMMA OwnStep ==
  ASSUME ObjectsInv, ObjectsNext, NEW r \in Requests, request'[r] # request[r]
  PROVE  Acts(r)
<1>1. request \in [Requests -> Calls \cup {Nil}]
  BY DEF ObjectsInv, ObjectsTypeOK
<1>2. ASSUME NEW q \in Requests, NEW c, Become(q, c)
      PROVE  q = r
  BY <1>1, <1>2 DEF Become
<1>3. ASSUME NEW q \in Requests, Acts(q)
      PROVE  \E c : Become(q, c)
  <2>1. ASSUME Return(q) PROVE \E c : Become(q, c)
    BY <2>1 DEF Return
  <2>2. CASE Arrive(q)
    BY <2>2 DEF Arrive
  <2>3. CASE CreateNext(q)
    BY <2>1, <2>3 DEF CreateNext
  <2>4. CASE UndoLast(q)
    BY <2>4 DEF UndoLast
  <2>5. CASE Undone(q) \/ WriteObject(q) \/ DeleteObject(q) \/ CallFails(q)
    BY <2>1, <2>5 DEF Undone, WriteObject, DeleteObject, CallFails
  <2>6. CASE CheckWorkload(q) \/ ReadObject(q)
    BY <2>6 DEF CheckWorkload, Continue, ReadObject
  <2>7. CASE FindScaler(q)
    BY <2>7 DEF FindScaler
  <2> QED
    BY <1>3, <2>2, <2>3, <2>4, <2>5, <2>6, <2>7 DEF Acts
<1>4. CASE \E q \in Requests : Acts(q)
  BY <1>2, <1>3, <1>4
<1>5. CASE \E n \in Names : OthersAct(n)
  BY <1>5 DEF OthersAct
<1> QED
  BY <1>4, <1>5 DEF ObjectsNext, Acts

(* The object a write is about, and how far it goes.                       *)
LEMMA MadeOnly ==
  ASSUME ObjectsTypeOK, NEW m, NEW q, NEW scales, NEW listed, Make(m, q, scales, listed),
         NEW n \in Names, Exists(n)
  PROVE  objects'[n] = objects[n]
BY DEF Make, Store, ObjectsTypeOK

LEMMA StoredElsewhere ==
  ASSUME ObjectsTypeOK, NEW m, NEW o, Store(m, o), NEW n \in Names, n # m
  PROVE  objects'[n] = objects[n]
BY DEF Store, ObjectsTypeOK

LEMMA ChangedOnly ==
  ASSUME ObjectsTypeOK, NEW m \in Names, NEW scales \in BOOLEAN,
         NEW listed \in Revisions \cup {Nil}, Change(m, scales, listed),
         NEW n \in Names, Exists(n)
  PROVE  Exists(n)' /\ (n # m => objects'[n] = objects[n])
<1>1. Exists(m)'
  BY ChangeFacts
<1>2. n # m => objects'[n] = objects[n]
  BY StoredElsewhere DEF Change
<1> QED
  BY <1>1, <1>2 DEF Exists

(* Only writeObject changes what exists, and what it changes it has seen.  *)
LEMMA WriteSeen ==
  ASSUME ObjectsInv, NEW r \in Requests, WriteObject(r), NEW n \in Names, Exists(n)
  PROVE  /\ Exists(n)'
         /\ objects'[n] # objects[n] /\ request[r].op # "rollback"
            => objects[n].version = request[r].version
<1>1. At(r, "write")
  BY DEF WriteObject
<1> SUFFICES ASSUME NEW call \in Calls, call = request[r]
             PROVE  /\ Exists(n)'
                    /\ objects'[n] # objects[n] /\ call.op # "rollback"
                       => objects[n].version = call.version
  BY <1>1, AtFacts
<1>2. ObjectsTypeOK /\ CallFits(call) /\ call.name \in Names
  BY <1>1, AtFacts DEF CallFits
<1> SUFFICES ASSUME NEW m \in Names, m = call.name
             PROVE  /\ Exists(n)'
                    /\ objects'[n] # objects[n] /\ call.op # "rollback"
                       => objects[n].version = call.version
  BY <1>2
<1>3. ASSUME NEW scales \in BOOLEAN, NEW listed \in Revisions \cup {Nil},
             Change(m, scales, listed), Current(call) \/ call.op = "rollback"
      PROVE  /\ Exists(n)'
             /\ objects'[n] # objects[n] /\ call.op # "rollback"
                => objects[n].version = call.version
  BY <1>2, <1>3, ChangedOnly DEF Current
<1>4. CASE \E listed : Make(m, r, TRUE, listed)
  BY <1>2, <1>4, MadeOnly DEF Exists
<1>5. /\ Nil \in Revisions \cup {Nil} /\ FALSE \in BOOLEAN /\ TRUE \in BOOLEAN
      /\ Scaling(m) \subseteq BOOLEAN
  BY DEF Scaling
<1>6. CASE Current(call) /\ Change(m, TRUE, objects[m].listed)
  <2>1. Exists(m)
    BY <1>6 DEF Change
  <2>2. objects[m].listed \in Revisions \cup {Nil}
    BY <1>2, <2>1, ObjectTyped DEF Objects
  <2> QED
    BY <1>3, <1>5, <1>6, <2>2
<1> QED
  BY <1>3, <1>4, <1>5, <1>6 DEF WriteObject

(* What the others do to an object that exists: nothing, or its deletion.  *)
LEMMA OtherStepsKeep ==
  ASSUME ObjectsInv, NEW r \in Requests, Acts(r), ~ WriteObject(r), NEW n \in Names, Exists(n)
  PROVE  \/ objects'[n] = objects[n]
         \/ ~ Exists(n)' /\ \/ UndoLast(r) /\ Delete(Last(request[r].created))
                            \/ DeleteObject(r)
<1>1. ObjectsTypeOK
  BY DEF ObjectsInv
<1>2. CASE Nothing
  BY <1>2 DEF Nothing
<1>3. ASSUME NEW m, Delete(m), objects'[n] # objects[n]
      PROVE  n = m /\ ~ Exists(n)'
  <2>1. n = m
    BY <1>1, <1>3, StoredElsewhere DEF Delete
  <2> QED
    BY <1>1, <1>3, <2>1, DeleteFacts
<1>4. CASE CreateNext(r)
  BY <1>1, <1>2, <1>4, MadeOnly DEF CreateNext
<1>5. CASE UndoLast(r)
  BY <1>2, <1>3, <1>5 DEF UndoLast
<1>6. CASE DeleteObject(r)
  BY <1>3, <1>6 DEF DeleteObject
<1>7. CASE Arrive(r) \/ Undone(r) \/ CheckWorkload(r) \/ FindScaler(r) \/ ReadObject(r)
           \/ CallFails(r)
  BY <1>2, <1>7 DEF Arrive, Undone, CheckWorkload, FindScaler, ReadObject, CallFails
<1> QED
  BY <1>4, <1>5, <1>6, <1>7 DEF Acts

(* Nobody's change is lost, whoever else writes: all requests but a        *)
(* rollback send the version they saw (updateResource, UpsertWorkloadHPA). *)
THEOREM ChangesSeenHolds == Spec => ChangesAreSeen
<1>1. ASSUME ObjectsInv, [Next]_vars, NEW r \in Requests, NEW n \in Names,
             request'[r] # request[r], request[r] # Nil, request[r].op # "rollback",
             Exists(n), Exists(n)', objects'[n] # objects[n]
      PROVE  objects[n].version = request[r].version
  <2>1. ObjectsNext
    BY <1>1, NextParts DEF objectVars
  <2>2. Acts(r)
    BY <1>1, <2>1, OwnStep
  <2>3. WriteObject(r)
    BY <1>1, <2>2, OtherStepsKeep
  <2> QED
    BY <1>1, <2>3, WriteSeen
<1>2. ObjectsInv /\ [Next]_vars
      => [\A r \in Requests, n \in Names :
            /\ request'[r] # request[r] /\ request[r] # Nil /\ request[r].op # "rollback"
            /\ Exists(n) /\ Exists(n)' /\ objects'[n] # objects[n]
            => objects[n].version = request[r].version]_objectVars
  BY <1>1
<1> QED
  BY <1>2, ObjectsInvHolds, PTL DEF Spec, ChangesAreSeen

(* No undoing and no end of scaling deletes what is not its own, however   *)
(* others create, change and delete in between (rollbackCreatedResources,  *)
(* DeleteWorkloadHPA).                                                     *)
THEOREM DeletesOwnHolds == Spec => DeletesAreOwn
<1>1. ASSUME ObjectsInv, [Next]_vars, NEW r \in Requests, NEW n \in Names,
             request'[r] # request[r], Exists(n), ~ Exists(n)'
      PROVE  \/ request[r].op = "delete"
             \/ At(r, "undo") /\ n \in request[r].made
             \/ /\ request[r].op = "unscale"
                /\ objects[n].scales \/ objects[n].version > request[r].listed
  <2>1. ObjectsNext /\ ObjectsTypeOK
    BY <1>1, NextParts DEF objectVars, ObjectsInv
  <2>2. Acts(r)
    BY <1>1, <2>1, OwnStep
  <2>3. objects'[n] # objects[n]
    BY <1>1 DEF Exists
  <2>4. ~ WriteObject(r)
    BY <1>1, WriteSeen
  <2>5. CASE UndoLast(r) /\ Delete(Last(request[r].created))
    <3>1. At(r, "undo") /\ request[r].created # <<>>
      BY <2>5 DEF UndoLast, More
    <3>2. CallFits(request[r]) /\ request[r].created \in Seq(Names)
      BY <1>1, <3>1, AtFacts DEF Calls
    <3>3. Last(request[r].created) \in request[r].made
      BY <3>1, <3>2, FrontFacts DEF CallFits
    <3>4. n = Last(request[r].created)
      BY <2>1, <2>3, <2>5, StoredElsewhere DEF Delete
    <3> QED
      BY <3>1, <3>3, <3>4
  <2>6. CASE DeleteObject(r)
    <3>1. At(r, "delete") /\ Delete(request[r].name)
      BY <2>6 DEF DeleteObject
    <3>2. n = request[r].name
      BY <2>1, <2>3, <3>1, StoredElsewhere DEF Delete
    <3>3. /\ ListComplete(request[r]) /\ request[r].at = "delete"
          /\ "delete" \in Steps(request[r].op)
          /\ request[r].op \in {"create", "update", "delete", "scale", "unscale", "annotate",
                                "rollback"}
      BY <1>1, <3>1, AtFacts
    <3>4. request[r].op \in {"delete", "unscale"}
      BY <3>3 DEF Steps
    <3> QED
      BY <1>1, <3>2, <3>3, <3>4 DEF ListComplete
  <2> QED
    BY <1>1, <2>2, <2>3, <2>4, <2>5, <2>6, OtherStepsKeep
<1>2. ObjectsInv /\ [Next]_vars
      => [\A r \in Requests, n \in Names :
            request'[r] # request[r] /\ Exists(n) /\ ~ Exists(n)'
            => \/ request[r].op = "delete"
               \/ At(r, "undo") /\ n \in request[r].made
               \/ /\ request[r].op = "unscale"
                  /\ objects[n].scales \/ objects[n].version > request[r].listed]_objectVars
  BY <1>1
<1> QED
  BY <1>2, ObjectsInvHolds, PTL DEF Spec, DeletesAreOwn

=============================================================================

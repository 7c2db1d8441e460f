----------------------------- MODULE Request -----------------------------
(***************************************************************************)
(* One connection's commands, from the client's socket to _process_cmd:    *)
(* the parser of server/src/request.c and the part of read_handler         *)
(* (siloserver.c) that feeds it.  TCP keeps the bytes in order and cuts    *)
(* them anywhere: each read takes any number of those that are there.      *)
(*                                                                         *)
(* Abstractions.  The sign and the digits of a length line are one byte    *)
(* here, a member of Digits; the bytes of arguments are letters, which no  *)
(* length line has.  The first argument stands for the command it names.   *)
(***************************************************************************)
EXTENDS Integers, Sequences, SequencesExt

CONSTANTS
  Letters,      \* the bytes of arguments
  Commands,     \* the commands clients send: sequences of arguments
  BufSize,      \* REQ_MAX_BUFFSIZE, and BUF_SIZE
  MaxCommands   \* bound: commands a client sends

CR == "\r"
LF == "\n"
CRLF   == <<CR, LF>>
Digits == <<"0", "1", "2", "3", "4">>
Number(n) == Digits[n + 1]
ToInt(d)  == (CHOOSE i \in DOMAIN Digits : Digits[i] = d) - 1

ASSUME RequestAssumption ==
  /\ Letters \cap (Range(Digits) \cup {CR, LF}) = {}
  /\ Commands \subseteq Seq(Seq(Letters)) \ {<<>>}
  /\ \A c \in Commands :
       Len(c) < Len(Digits) /\ \A i \in DOMAIN c : Len(c[i]) < Len(Digits)
  /\ BufSize \in Nat /\ MaxCommands \in Nat

VARIABLES
  wire,      \* bytes sent and not read
  req,       \* struct request; buf is querybuf up to len
  pc,        \* where the parser is
  sent,      \* history: the commands sent
  done,      \* history: the commands processed
  hazards    \* history: named events that void the promises

vars == <<wire, req, pc, sent, done, hazards>>

NewRequest == [buf |-> <<>>, pos |-> 0, argv |-> <<>>, multilen |-> 0,
               lastlen |-> 0, idx |-> 0]

Init ==
  /\ wire = <<>>
  /\ req  = NewRequest
  /\ pc   = "poll"
  /\ sent = <<>>
  /\ done = <<>>
  /\ hazards = {}

-----------------------------------------------------------------------------
(* The client *)

Line(n)   == <<Number(n)>> \o CRLF
Encode(c) ==
  Line(Len(c)) \o FlattenSeq([i \in DOMAIN c |-> Line(Len(c[i])) \o c[i] \o CRLF])

(* A client that does not wait for its answers pipelines. *)
Send(c) ==
  /\ pc \notin {"closed", "fault"}
  /\ Len(sent) < MaxCommands
  /\ wire' = wire \o Encode(c)
  /\ sent' = Append(sent, c)
  /\ hazards' = IF Len(sent) = Len(done) /\ wire = <<>> THEN hazards
                ELSE hazards \cup {"pipelined"}
  /\ UNCHANGED <<req, pc, done>>

-----------------------------------------------------------------------------
(* read_handler and request_append *)

(* A read that ends before or within an argument goes well; one that ends  *)
(* in a length line, before one, or in an argument's line end does not.    *)
EndsWell(n) ==
  \/ n = Len(wire)
  \/ wire[n + 1] \in Letters
  \/ wire[n] \in Letters /\ wire[n + 1] = CR

FitsAlone(r, n) == Len(r.buf) <= BufSize                          \* mutant
HasRoom(r, n) == Len(r.buf) + n <= BufSize

(* What there is no room for is lost, and the parser runs all the same. *)
Read(n) ==
  /\ pc = "poll" /\ n <= BufSize
  /\ wire' = SubSeq(wire, n + 1, Len(wire))
  /\ req'  = IF HasRoom(req, n) THEN [req EXCEPT !.buf = @ \o SubSeq(wire, 1, n)]
             ELSE req
  /\ hazards' = hazards \cup (IF HasRoom(req, n) THEN {} ELSE {"overflow"})
                        \cup (IF EndsWell(n) THEN {} ELSE {"cut"})
  /\ pc' = IF req.multilen = 0 THEN "argc" ELSE "argv"
  /\ UNCHANGED <<sent, done>>

(* An error, or the client is gone: request_free. *)
Close ==
  /\ pc'   = "closed"
  /\ req'  = NewRequest
  /\ wire' = <<>>
  /\ UNCHANGED <<sent, done>>

EndOfFile ==
  /\ pc = "poll" /\ wire = <<>>
  /\ Close
  /\ hazards' = IF Len(done) = MaxCommands THEN hazards ELSE hazards \cup {"gone"}

-----------------------------------------------------------------------------
(* request_parse *)

(* req_state_len: the line at pos is a number or nothing, and a line end.  *)
Unread(r)    == SubSeq(r.buf, r.pos + 1, Len(r.buf))
IsNumber(r)  == \E n \in 0 .. Len(Digits) - 1 : IsPrefix(Line(n), Unread(r))
IsNothing(r) == IsPrefix(CRLF, Unread(r))
IsLine(r)    == IsNumber(r) \/ IsNothing(r)

ValueOf(r) == IF IsNumber(r) THEN ToInt(r.buf[r.pos + 1]) ELSE 0
After(r)   == IF IsNumber(r) THEN r.pos + 3 ELSE r.pos + 2

ParseArgc ==
  /\ pc = "argc"
  /\ \/ ~ IsLine(req) /\ Close /\ UNCHANGED hazards
     \/ /\ IsLine(req)
        /\ req' = [req EXCEPT !.multilen = ValueOf(req), !.pos = After(req),
                              !.argv = [i \in 1 .. ValueOf(req) |-> <<>>]]
        /\ pc' = IF ValueOf(req) = 0 THEN "end" ELSE "argv"
        /\ UNCHANGED <<wire, sent, done, hazards>>

(* The argument's length is on the line at pos, or known from before. *)
Sized(r) == IF r.lastlen = 0 THEN [r EXCEPT !.lastlen = ValueOf(r), !.pos = After(r)]
            ELSE r

WithLineEnd(r) == r.pos + r.lastlen + 2 < Len(r.buf)              \* mutant
IsWhole(r)     == r.pos + r.lastlen < Len(r.buf)

Unended(r) ==                                                     \* mutant
  [r EXCEPT !.argv[r.idx + 1] = SubSeq(r.buf, r.pos + 1, r.pos + r.lastlen),
            !.idx = @ + 1, !.pos = @ + r.lastlen, !.lastlen = 0, !.multilen = @ - 1]
Taken(r) ==
  [r EXCEPT !.argv[r.idx + 1] = SubSeq(r.buf, r.pos + 1, r.pos + r.lastlen),
            !.idx = @ + 1, !.pos = @ + r.lastlen + 2, !.lastlen = 0,
            !.multilen = @ - 1]

ParseArgv ==
  /\ pc = "argv"
  /\ LET r == Sized(req) IN
     \/ req.lastlen = 0 /\ ~ IsLine(req) /\ Close /\ UNCHANGED hazards
     \/ /\ req.lastlen # 0 \/ IsLine(req)
        /\ ~ IsWhole(r)
        /\ req' = r
        /\ pc'  = "poll"
        /\ hazards' = IF r.lastlen = 0 THEN hazards \cup {"empty"} ELSE hazards
        /\ UNCHANGED <<wire, sent, done>>
     \/ /\ req.lastlen # 0 \/ IsLine(req)
        /\ IsWhole(r)
        /\ IF r.idx \in 0 .. Len(r.argv) - 1
           THEN req' = Taken(r) /\ pc' = IF r.multilen = 1 THEN "end" ELSE "argv"
           ELSE req' = r /\ pc' = "fault"
        /\ UNCHANGED <<wire, sent, done, hazards>>

(* What is left of the buffer comes to its front, and idx stays; nothing   *)
(* is left, and the request is reset.  Then _process_cmd has its command.  *)
KeepIdx(r) == [NewRequest EXCEPT !.idx = r.idx]                   \* mutant
Reset(r)   == NewRequest

Finish ==
  /\ pc = "end"
  /\ req' = IF req.pos < Len(req.buf)
            THEN [req EXCEPT !.buf = SubSeq(req.buf, req.pos + 1, Len(req.buf)),
                             !.pos = 0, !.argv = <<>>]
            ELSE Reset(req)
  /\ done' = Append(done, req.argv)
  /\ pc'   = "poll"
  /\ UNCHANGED <<wire, sent, hazards>>

Stopped == pc \in {"closed", "fault"} /\ UNCHANGED vars

Next ==
  \/ \E c \in Commands : Send(c)
  \/ \E n \in 1 .. Len(wire) : Read(n)
  \/ EndOfFile \/ ParseArgc \/ ParseArgv \/ Finish \/ Stopped

Spec == Init /\ [][Next]_vars

(* The server's loop polls, reads and parses as long as there is input.    *)
Serve == (\E n \in 1 .. Len(wire) : Read(n)) \/ ParseArgc \/ ParseArgv \/ Finish
FairSpec == Spec /\ WF_vars(Serve)

-----------------------------------------------------------------------------
(* Properties *)

Bytes == Letters \cup Range(Digits) \cup {CR, LF}

(* Every variable holds a value of its type; querybuf is never written     *)
(* beyond its end (request.c:140).                                         *)
TypeOK ==
  /\ wire \in Seq(Bytes)
  /\ req.buf \in Seq(Bytes) /\ Len(req.buf) <= BufSize
  /\ req.argv \in Seq(Seq(Bytes))
  /\ req.pos \in Nat /\ req.multilen \in 0 .. Len(Digits)
  /\ req.lastlen \in 0 .. Len(Digits) /\ req.idx \in Nat
  /\ pc \in {"poll", "argc", "argv", "end", "closed", "fault"}
  /\ sent \in Seq(Commands) /\ done \in Seq(Seq(Seq(Bytes)))
  /\ hazards \subseteq {"pipelined", "overflow", "cut", "empty", "gone"}

(* However the stream is cut, _process_cmd gets the commands that were     *)
(* sent, byte for byte and in their order, and nothing else; unless bytes  *)
(* were lost because the buffer was full (siloserver.c:279), or an empty   *)
(* argument was cut off and its line end taken for its length              *)
(* (request.c:177).                                                        *)
ProcessedAsSent == hazards \cap {"overflow", "empty"} = {} => IsPrefix(done, sent)

(* A client that waits for its answers, has no empty argument cut off, and *)
(* whose reads end before or within arguments, keeps its connection until  *)
(* it has sent what it has to send and hangs up, and never makes the       *)
(* parser write beyond its argument vector.                                *)
PatientClientsKeepConnections ==
  hazards = {} => pc # "fault" /\ (pc = "closed" => Len(done) = MaxCommands)

(* Such a client's every command is processed. *)
PatientClientsAreServed ==
  \A i \in 1 .. MaxCommands :
    Len(sent) >= i ~> Len(done) >= i \/ hazards # {}
=============================================================================

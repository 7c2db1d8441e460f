------------------------------ MODULE Server ------------------------------
(***************************************************************************)
(* The server's one thread: the event loop (server/src/ae.c on             *)
(* ae_epoll.c), the two handlers of siloserver.c, what _process_cmd makes  *)
(* of each command, and the kernel's table of descriptors and epoll's list *)
(* of interest beneath them.  Clients connect, send and go away between    *)
(* any two steps of it.                                                    *)
(*                                                                         *)
(* Abstractions.  The store is what module Db promises of it.  A client    *)
(* sends one message at a time, which one read takes: a command, bytes     *)
(* that are none ("bad"), or the beginning of a command ("part"); module   *)
(* Request says what else becomes of a stream.  An allocated request is    *)
(* the number of the connection it was made for.  The timer only logs.     *)
(***************************************************************************)
EXTENDS Response, FiniteSets

CONSTANTS
  Clients, Keys, Values,
  Watched,      \* one of the clients, of which liveness is stated
  Stores,       \* what the database may hold when the server starts
  Messages,     \* what clients send: [cmd, args], args without the name
  SetSize,      \* setsize of the event loop
  FdLimit,      \* descriptors the process may have
  MaxConnects,  \* bound: connections in all
  MaxSends      \* bound: messages in all

ASSUME ServerAssumption ==
  /\ Watched \in Clients
  /\ None \notin Clients                 \* no client, no request
  /\ None \notin Values /\ \A v \in Values : v \in Seq(Nat)
  /\ Stores \subseteq [Keys -> Values \cup {None}]
  /\ SetSize \in Nat \ {0} /\ FdLimit \in Nat /\ SetSize <= FdLimit
  /\ MaxConnects \in Nat /\ MaxSends \in Nat
  /\ \A m \in Messages : m.cmd \in STRING /\ m.args \in Seq(Keys \cup Values)
  /\ \A m \in Messages : \A i \in DOMAIN m.args :   \* keys and values in turn, or keys
       m.args[i] \in IF m.cmd \in {"set", "mset"} /\ i % 2 = 0 THEN Values ELSE Keys

Listener == 0
Fds      == 0 .. FdLimit - 1
Slots    == 0 .. SetSize - 1
Peers    == Fds \ {Listener}

VARIABLES
  at,        \* kernel: the client at a descriptor's other end
  ep,        \* kernel: descriptors epoll looks at
  client,    \* what clients are doing
  inbox,     \* the message sent to the server and not read
  events,    \* eventLoop->events: is it AE_READABLE, and its clientData
  maxfd,     \* eventLoop->maxfd
  fired,     \* eventLoop->fired, from the event at work on
  pc,        \* where the server is
  live,      \* requests allocated and not freed
  clicount,  \* _clicount
  store,     \* the database
  answer,    \* the last answer written or being written: to whom, its bytes,
             \* and (history) the reply it stands for
  hazards,   \* history: named events that void promises
  connects, sends

kernel == <<at, ep>>
loop   == <<events, maxfd, fired, pc>>
data   == <<store, answer, hazards>>
bounds == <<connects, sends>>
vars   == <<kernel, client, inbox, loop, live, clicount, data, bounds>>

Info   == <<1>>
Silent == [cmd |-> "nothing", args |-> <<>>]
NoAnswer == [to |-> None, bytes |-> <<>>, reply |-> None]
NoEvent  == [mask |-> FALSE, request |-> None]

(* main *)
Init ==
  /\ at     = [fd \in Fds |-> None]
  /\ ep     = {Listener}
  /\ client = [c \in Clients |-> "away"]
  /\ inbox  = [c \in Clients |-> Silent]
  /\ events = [fd \in Slots |-> [NoEvent EXCEPT !.mask = fd = Listener]]
  /\ maxfd  = Listener
  /\ fired  = <<>>
  /\ pc     = "poll"
  /\ live   = {}
  /\ clicount = 0
  /\ store  \in Stores
  /\ answer = NoAnswer
  /\ hazards  = {}
  /\ connects = 0 /\ sends = 0

Running == pc \in {"poll", "dispatch", "write"}

-----------------------------------------------------------------------------
(* Clients and the kernel *)

(* Which of those that are away comes next is of no account. *)
Connect(c) ==
  /\ Running /\ connects < MaxConnects
  /\ client[c] = "away" /\ c = CHOOSE d \in Clients : client[d] = "away"
  /\ client'   = [client EXCEPT ![c] = "waiting"]
  /\ connects' = connects + 1
  /\ UNCHANGED <<kernel, inbox, loop, live, clicount, data, sends>>

Send(c, m) ==
  /\ Running /\ client[c] \in {"waiting", "open"}
  /\ inbox[c] = Silent /\ sends < MaxSends
  /\ inbox' = [inbox EXCEPT ![c] = m]
  /\ sends' = sends + 1
  /\ UNCHANGED <<kernel, client, loop, live, clicount, data, connects>>

(* With a reset, an answer to what was sent before has nowhere to go. *)
HangUp(c, how) ==
  /\ Running /\ client[c] = "open" /\ how \in {"hungup", "reset"}
  /\ client' = [client EXCEPT ![c] = how]
  /\ UNCHANGED <<kernel, inbox, loop, live, clicount, data, bounds>>

Readable(fd) ==
  IF fd = Listener THEN \E c \in Clients : client[c] = "waiting"
  ELSE at[fd] # None /\ (inbox[at[fd]] # Silent \/ client[at[fd]] \in {"hungup", "reset"})

-----------------------------------------------------------------------------
(* ae.c *)

AddEvent(fd) == IF events[fd].mask THEN fd \in ep ELSE fd \notin ep

MaxOf(S) == CHOOSE n \in S : \A m \in S : n >= m

(* aeCreateFileEvent: whether it can, and what it does. *)
CanRegister(fd) == fd < SetSize /\ AddEvent(fd)
OldRequest(fd, r) ==                                              \* mutant
  /\ ep'     = ep \cup {fd}
  /\ events' = [events EXCEPT ![fd].mask = TRUE]
  /\ maxfd'  = IF fd > maxfd THEN fd ELSE maxfd
Register(fd, r) ==
  /\ ep'     = ep \cup {fd}
  /\ events' = [events EXCEPT ![fd] = [mask |-> TRUE, request |-> r]]
  /\ maxfd'  = IF fd > maxfd THEN fd ELSE maxfd

(* aeDeleteFileEvent of both masks, and close. *)
MaskKept(fd) ==                                                   \* mutant
  /\ ep' = ep \ {fd} /\ UNCHANGED <<events, maxfd>>
Unregister(fd) ==
  /\ ep'     = ep \ {fd}
  /\ events' = [events EXCEPT ![fd].mask = FALSE]
  /\ maxfd'  = IF fd = maxfd
               THEN MaxOf({f \in Slots : f < maxfd /\ events[f].mask} \cup {-1})
               ELSE maxfd

(* aeApiPoll: all that is readable, in any order; or nothing, when the     *)
(* timer is due before anything is.                                        *)
BelowMax == {fd \in ep : fd < maxfd /\ Readable(fd)}              \* mutant
Ready    == {fd \in ep : Readable(fd)}

Poll ==
  /\ pc = "poll"
  /\ fired' \in SetToSeqs(Ready)
  /\ pc' = "dispatch"
  /\ UNCHANGED <<kernel, client, inbox, events, maxfd, live, clicount, data, bounds>>

(* processTimeEvents: if the one timer is due, server_cron logs and has it *)
(* run again.                                                              *)
EndOfRound ==
  /\ pc = "dispatch" /\ fired = <<>>
  /\ pc' = "poll"
  /\ answer' = NoAnswer
  /\ UNCHANGED <<kernel, client, inbox, events, maxfd, fired, live, clicount, store,
                 hazards, bounds>>

(* An event whose mask is gone would be passed over; HandlersHaveTheirOwn  *)
(* says that there is none.                                                *)
Dispatch(fd) ==
  /\ pc = "dispatch" /\ fired # <<>> /\ fd = Head(fired)
  /\ events[fd].mask
  /\ fired' = Tail(fired)

-----------------------------------------------------------------------------
(* siloserver.c: accept_handler *)

FreeFds == {fd \in Peers : at[fd] = None}

(* The new connection gets the lowest free descriptor.  Whether it could   *)
(* be registered is not looked at.                                         *)
Accept ==
  /\ Dispatch(Listener)
  /\ \E c \in Clients :
       /\ client[c] = "waiting" /\ FreeFds # {}
       /\ LET fd == CHOOSE fd \in FreeFds : \A f \in FreeFds : fd <= f IN
          /\ at'     = [at EXCEPT ![fd] = c]
          /\ client' = [client EXCEPT ![c] = "open"]
          /\ live'   = live \cup {c}
          /\ clicount' = clicount + 1
          /\ \/ CanRegister(fd) /\ Register(fd, c) /\ UNCHANGED hazards
             \/ /\ ~ CanRegister(fd)
                /\ hazards' = hazards \cup {"unserved"}
                /\ UNCHANGED <<ep, events, maxfd>>
  /\ UNCHANGED <<inbox, pc, store, answer, bounds>>

(* No descriptor is free: the client stays where it is, and the request    *)
(* made for it is leaked.                                                  *)
AcceptFails ==
  /\ Dispatch(Listener)
  /\ FreeFds = {} \/ \A c \in Clients : client[c] # "waiting"
  /\ hazards' = IF FreeFds = {} THEN hazards \cup {"nofd"} ELSE hazards
  /\ UNCHANGED <<kernel, client, inbox, events, maxfd, pc, live, clicount,
                 store, answer, bounds>>

-----------------------------------------------------------------------------
(* siloserver.c: _process_cmd; response.c *)

Odd(n) == n % 2 = 1

IsSet(m) == m.cmd = "set" /\ Len(m.args) = 2

(* MSET and SET: each key's last value. *)
PutAll(args) ==
  [k \in Keys |->
     LET is == {i \in DOMAIN args : Odd(i) /\ args[i] = k}
     IN IF is = {} THEN store[k] ELSE args[MaxOf(is) + 1]]

After(m) ==
  CASE m.cmd = "mset" \/ IsSet(m) -> PutAll(m.args)
    [] m.cmd = "del"  -> [k \in Keys |-> IF k \in Range(m.args) THEN None ELSE store[k]]
    [] OTHER -> store

Stored(keys) == [i \in DOMAIN keys |-> store[keys[i]]]

Written(m) ==
  CASE m.cmd = "ping" -> ResponseDetch("OK_PONG", <<>>)
    [] m.cmd \in {"mset", "del"} \/ IsSet(m) -> ResponseDetch("OK", <<>>)
    [] m.cmd = "get" /\ Len(m.args) = 1 ->
         IF store[m.args[1]] = None THEN ResponseDetch("OK_404", <<>>)
         ELSE ResponseDetch("OK_200", Stored(m.args))
    [] m.cmd = "mget"   -> ResponseDetch("OK_200", Stored(m.args))
    [] m.cmd = "exists" -> <<Line(IF store[m.args[1]] = None THEN ":-1" ELSE ":1", 0)>>
    [] m.cmd = "info"   -> ResponseDetch("OK_200", <<Info>>)
    [] OTHER -> ResponseDetch("ERR", <<>>)

(* What the commands mean: a reader's reply.  For one key, MGET's is the   *)
(* value alone.                                                            *)
Meant(m) ==
  CASE m.cmd = "ping" -> <<"line", "+PONG">>
    [] m.cmd \in {"mset", "del"} \/ IsSet(m) -> <<"line", "+OK">>
    [] m.cmd \in {"get", "mget"} /\ Len(m.args) = 1 -> <<"bulk", store[m.args[1]]>>
    [] m.cmd = "mget" /\ Len(m.args) # 1 -> <<"list", Stored(m.args)>>
    [] m.cmd = "exists" -> <<"line", IF store[m.args[1]] = None THEN ":-1" ELSE ":1">>
    [] m.cmd = "info"   -> <<"bulk", Info>>
    [] OTHER -> <<"line", "-ERROR">>

(* Arguments the handler reads and nobody sent end the process. *)
Overreads(m) == \/ m.cmd = "mset" /\ Odd(Len(m.args))
                \/ m.cmd = "exists" /\ m.args = <<>>

(* A write to a connection that was reset goes nowhere, which is not       *)
(* looked at, or ends the process by a signal nobody handles.  One that    *)
(* finds no room, because its client has not read earlier answers, waits.  *)
Process(c, m) ==
  CASE Overreads(m) -> pc' = "fault" /\ UNCHANGED <<store, answer>>
    [] m.cmd = "shutdown" -> pc' = "exit" /\ UNCHANGED <<store, answer>>
    [] OTHER ->
         /\ store'  = After(m)
         /\ answer' = [to |-> c, bytes |-> Written(m), reply |-> Meant(m)]
         /\ pc' \in {pc, IF client[c] = "reset" THEN "fault" ELSE "write"}

GoesOn ==
  UNCHANGED <<kernel, client, inbox, events, maxfd, fired, live, clicount, data, bounds>>

TakeAnswer ==
  /\ pc = "write" /\ client[answer.to] = "open"
  /\ pc' = "dispatch"
  /\ GoesOn

WriteFails ==
  /\ pc = "write" /\ client[answer.to] \in {"hungup", "reset"}
  /\ pc' \in {"dispatch", "fault"}
  /\ GoesOn

(* siloserver.c: read_handler *)

Free(r) == live' = live \ {r}

CloseFd(fd) ==
  /\ at' = [at EXCEPT ![fd] = None]
  /\ Unregister(fd)
  /\ client' = [client EXCEPT ![at[fd]] = "away"]
  /\ inbox'  = [inbox EXCEPT ![at[fd]] = Silent]

Miscounted(fd) == CloseFd(fd) /\ UNCHANGED clicount               \* mutant
CountedTwice(fd) == CloseFd(fd) /\ clicount' = clicount - 2       \* mutant
Close(fd)      == CloseFd(fd) /\ clicount' = clicount - 1

IsBad(m) == m.cmd = "bad"

(* A read of nothing, of an error, or of a message that is none. *)
ReadEnd(fd) ==
  /\ fd # Listener /\ Dispatch(fd)
  /\ \/ client[at[fd]] = "reset"
     \/ client[at[fd]] = "hungup" /\ inbox[at[fd]] = Silent
     \/ IsBad(inbox[at[fd]])
  /\ Free(events[fd].request)
  /\ Close(fd)
  /\ UNCHANGED <<pc, data, bounds>>

ReadMessage(fd) ==
  /\ fd # Listener /\ Dispatch(fd)
  /\ inbox[at[fd]] # Silent /\ ~ IsBad(inbox[at[fd]])
  /\ inbox' = [inbox EXCEPT ![at[fd]] = Silent]
  /\ IF inbox[at[fd]].cmd = "part" THEN UNCHANGED <<pc, store, answer>>
     ELSE Process(at[fd], inbox[at[fd]])
  /\ UNCHANGED <<kernel, client, events, maxfd, live, clicount, hazards, bounds>>

Stopped == pc \in {"fault", "exit"} /\ UNCHANGED vars

Serve ==
  \/ Poll \/ EndOfRound \/ Accept \/ AcceptFails \/ WriteFails
  \/ \E fd \in Slots : ReadEnd(fd) \/ ReadMessage(fd)

Next ==
  \/ \E c \in Clients :
       \/ Connect(c)
       \/ \E m \in Messages : Send(c, m)
       \/ \E how \in {"hungup", "reset"} : HangUp(c, how)
  \/ TakeAnswer \/ Serve \/ Stopped

Spec == Init /\ [][Next]_vars

(* The loop never rests, and clients read what they are sent, or go. *)
FairSpec == Spec /\ WF_vars(Serve) /\ WF_vars(TakeAnswer)

-----------------------------------------------------------------------------
(* Properties *)

Open == {fd \in Peers : at[fd] # None}

(* Every variable holds a value of its type. *)
TypeOK ==
  /\ at \in [Fds -> Clients \cup {None}] /\ ep \subseteq Fds
  /\ client \in [Clients -> {"away", "waiting", "open", "hungup", "reset"}]
  /\ inbox \in [Clients -> Messages \cup {Silent}]
  /\ events \in [Slots -> [mask : BOOLEAN, request : Clients \cup {None}]]
  /\ maxfd \in -1 .. SetSize - 1
  /\ fired \in Seq(Slots)
  /\ pc \in {"poll", "dispatch", "write", "fault", "exit"}
  /\ live \subseteq Clients
  /\ clicount \in Nat
  /\ store \in [Keys -> Values \cup {None}]
  /\ answer.to \in Clients \cup {None}
  /\ hazards \subseteq {"unserved", "nofd"}
  /\ connects \in 0 .. MaxConnects /\ sends \in 0 .. MaxSends

(* The loop's table, epoll's list and maxfd agree after any order of       *)
(* connections that come, go and take each other's descriptors: a slot     *)
(* that kept its mask would have the next connection's EPOLL_CTL_MOD fail  *)
(* (ae_epoll.c:63), and a maxfd too small would be no maximum (ae.c:115).  *)
TablesAgree ==
  /\ \A fd \in Slots : events[fd].mask <=> fd \in ep
  /\ ep \subseteq Slots
  /\ maxfd = MaxOf({fd \in Slots : events[fd].mask} \cup {-1})

(* A handler runs with the request of the connection its descriptor names  *)
(* now, which is not freed; and what was polled is still registered and    *)
(* can be read when its turn comes, whatever the handlers before it in the *)
(* round have closed and accepted, so that no read blocks the loop.        *)
HandlersHaveTheirOwn ==
  /\ \A fd \in Range(fired) : events[fd].mask
  /\ \A fd \in Slots \ {Listener} : events[fd].mask =>
       /\ events[fd].request = at[fd] /\ at[fd] \in live
       /\ fd \in Range(fired) => Readable(fd)

(* _clicount is the number of open connections, those the loop has no slot *)
(* for (siloserver.c:312) among them.                                      *)
ClientsAreCounted == clicount = Cardinality(Open) /\ Cardinality(live) = clicount

(* What a C string, which ends with a zero byte, cannot hold. *)
IsCut(values) == \E v \in Range(values) : v # None /\ ToNul(v) # v

(* A reader of the protocol finds one reply in an answer and nothing       *)
(* behind it, with what the store had for the keys that were asked for,    *)
(* in their order (response_detch): it knows where the next answer begins. *)
(* Not so the answer to MGET without keys, which is no bytes at all, and   *)
(* values with a zero byte, of which the rest is cut off.                  *)
AnswersCanBeRead ==
  answer.to # None =>
    \/ answer.reply = <<"list", <<>>>>
    \/ answer.reply[1] = "list" /\ IsCut(answer.reply[2])
    \/ answer.reply[1] = "bulk" /\ IsCut(<<answer.reply[2]>>)
    \/ ReplyAt(answer.bytes, 0) = [reply |-> answer.reply, next |-> Len(answer.bytes)]

(* Whatever the others do, a client's message is read, as long as the      *)
(* server runs, those it writes to read or go (siloserver.c:155), and no   *)
(* connection has been accepted that the loop has no slot for, or left for *)
(* want of a descriptor.                                                   *)
EveryoneIsServed ==
  inbox[Watched] # Silent ~> inbox[Watched] = Silent \/ ~ Running \/ hazards # {}
=============================================================================

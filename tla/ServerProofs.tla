--------------------------- MODULE ServerProofs ---------------------------
(* Theorems about Server, for every set of clients, keys and messages, any *)
(* size of the event table and any limit of descriptors.                   *)
EXTENDS Server, FiniteSetTheorems, SequenceTheorems, TLAPS

(* A set of natural numbers has a least element: induction over numbers   *)
(* in a form that quantifies over sets.                                    *)
LEMMA LeastElement ==
  ASSUME NEW T, T \subseteq Nat, T # {}
  PROVE  \E n \in T : \A m \in T : n <= m
  <1>1. PICK n \in T : \A m \in T : ~ (<<m, n>> \in OpToRel(<, Nat))
    BY NatLessThanWellFounded, WFMin
  <1>2. \A m \in T : ~ m < n
    BY <1>1 DEF OpToRel
  <1> QED
    BY <1>2

(* A finite set of integers has a greatest element. *)
LEMMA GreatestElement ==
  ASSUME NEW S, S \subseteq Int, IsFiniteSet(S), S # {}
  PROVE  \E n \in S : \A m \in S : n >= m
  <1>1. PICK above : above = [n \in S |-> {m \in S : m > n}]
    OBVIOUS
  <1>2. PICK T : T = {above[n] : n \in S}
    OBVIOUS
  <1>3. T \subseteq FiniteSubsetsOf(S) /\ T # {}
    <2>1. \A t \in T : t \in SUBSET S
      BY <1>1, <1>2
    <2>2. \A t \in T : IsFiniteSet(t)
      BY <2>1, FS_Subset
    <2> QED
      BY <1>2, <2>1, <2>2 DEF FiniteSubsetsOf
  <1>4. PICK t \in T : \A u \in T : ~ (<<u, t>> \in StrictSubsetOrdering(S))
    BY <1>3, FS_StrictSubsetOrderingWellFounded, WFMin
  <1>5. PICK n \in S : t = above[n]
    BY <1>2, <1>4
  <1>6. ASSUME NEW m \in S, m > n PROVE FALSE
    <2>1. above[m] \subseteq above[n] /\ m \in above[n] /\ m \notin above[m]
      <3>1. above[m] = {k \in S : k > m} /\ above[n] = {k \in S : k > n}
        BY <1>1
      <3>2. ~ (m > m) /\ \A k \in S : k > m => k > n
        BY <1>6
      <3> QED
        BY <1>6, <3>1, <3>2
    <2>2. above[m] \in T /\ above[m] \subseteq S /\ above[n] \subseteq S
      BY <1>1, <1>2
    <2> QED
      BY <1>4, <1>5, <2>1, <2>2 DEF StrictSubsetOrdering
  <1> QED
    BY <1>6

-----------------------------------------------------------------------------
(* The inductive invariant *)

Connected == {"open", "hungup", "reset"}
Masked    == {fd \in Slots : events[fd].mask}

(* A connection has one descriptor. *)
Sockets ==
  /\ at[Listener] = None
  /\ \A f, g \in Peers : at[f] # None /\ at[f] = at[g] => f = g
  /\ \A f \in Peers : at[f] # None => client[at[f]] \in Connected

(* Each connection has its request, until it is closed. *)
Requests ==
  /\ live = {at[fd] : fd \in Open}
  /\ clicount = Cardinality(Open)

(* The listener stays, and a slot in use is a connection's. *)
Tables ==
  /\ ep = Masked /\ Listener \in ep
  /\ maxfd \in ep /\ \A fd \in ep : fd <= maxfd
  /\ \A fd \in ep \ {Listener} : at[fd] # None /\ events[fd].request = at[fd]

(* What is left of a round: each descriptor once, none without an event.   *)
Round ==
  /\ pc = "poll" => fired = <<>>
  /\ \A i, j \in DOMAIN fired : fired[i] = fired[j] => i = j
  /\ \A i \in DOMAIN fired : fired[i] \in ep
  /\ \A i \in DOMAIN fired : fired[i] # Listener => Readable(fired[i])

IInv == TypeOK /\ Sockets /\ Requests /\ Tables /\ Round

-----------------------------------------------------------------------------
(* The operators *)

LEMMA MaxOfIs ==
  ASSUME NEW S, S \subseteq Int, NEW n \in S, \A m \in S : n >= m
  PROVE  MaxOf(S) = n
  <1>1. MaxOf(S) \in S /\ \A m \in S : MaxOf(S) >= m
    BY DEF MaxOf
  <1>2. MaxOf(S) >= n /\ n >= MaxOf(S) /\ MaxOf(S) \in Int /\ n \in Int
    BY <1>1
  <1> QED
    BY <1>2

LEMMA MaxOfIsIn ==
  ASSUME NEW S, S \subseteq Int, S # {}, IsFiniteSet(S)
  PROVE  MaxOf(S) \in S
  BY GreatestElement DEF MaxOf

LEMMA SlotsAreDescriptors == Slots \subseteq Fds /\ Listener \in Slots /\ Slots \subseteq Int
  BY ServerAssumption DEF Slots, Fds, Listener

LEMMA SlotsAreFinite == IsFiniteSet(Slots)
  BY ServerAssumption, FS_Interval DEF Slots

LEMMA OpenIsFinite == IsFiniteSet(Open)
  <1>1. IsFiniteSet(Fds)
    BY ServerAssumption, FS_Interval DEF Fds
  <1> QED
    BY <1>1, FS_Subset DEF Open, Peers

(* Connections and requests are one to one. *)
LEMMA OneRequestEach ==
  ASSUME Sockets, Requests
  PROVE  Cardinality(live) = Cardinality(Open)
  <1> DEFINE f == [fd \in Open |-> at[fd]]
  <1>1. \A x, y \in Open : f[x] = f[y] => x = y
    BY DEF Sockets, Open
  <1>2. \A c \in live : \E fd \in Open : f[fd] = c
    BY DEF Requests
  <1>3. f \in [Open -> live]
    BY DEF Requests
  <1>4. f \in Bijection(Open, live)
    BY <1>1, <1>2, <1>3 DEF Bijection, Injection, Surjection, IsInjective
  <1> QED
    BY <1>4, OpenIsFinite, FS_Bijection DEF ExistsBijection

LEMMA BehindAnOdd ==
  ASSUME NEW i \in Nat, NEW n \in Nat, i <= n, Odd(i), ~ Odd(n)
  PROVE  i + 1 <= n /\ (i + 1) % 2 = 0
  BY DEF Odd

(* Commands leave values in the store. *)
LEMMA PutAllType ==
  ASSUME NEW m \in Messages, ~ Overreads(m), m.cmd = "mset" \/ IsSet(m),
         store \in [Keys -> Values \cup {None}]
  PROVE  PutAll(m.args) \in [Keys -> Values \cup {None}]
  <1>1. m.args \in Seq(Keys \cup Values) /\ m.cmd \in {"set", "mset"}
    BY ServerAssumption DEF IsSet
  <1>2. Len(m.args) \in Nat /\ DOMAIN m.args = 1 .. Len(m.args)
    BY <1>1
  <1>3. ~ Odd(Len(m.args))
    <2>1. ~ Odd(2)
      BY DEF Odd
    <2> QED
      BY <2>1 DEF Overreads, IsSet
  <1>4. ASSUME NEW k \in Keys,
               NEW is, is = {i \in DOMAIN m.args : Odd(i) /\ m.args[i] = k}, is # {}
        PROVE  m.args[MaxOf(is) + 1] \in Values
    <2>1. IsFiniteSet(1 .. Len(m.args))
      BY <1>2, FS_Interval
    <2>2. is \in SUBSET (1 .. Len(m.args)) /\ is \subseteq Int
      <3>1. is \subseteq 1 .. Len(m.args)
        BY <1>2, <1>4
      <3>2. 1 .. Len(m.args) \subseteq Int
        BY <1>2
      <3> QED
        BY <3>1, <3>2
    <2>3. IsFiniteSet(is)
      BY <2>1, <2>2, FS_Subset
    <2>4. MaxOf(is) \in is
      BY <1>4, <2>2, <2>3, MaxOfIsIn
    <2>5. MaxOf(is) \in 1 .. Len(m.args) /\ Odd(MaxOf(is))
      BY <1>2, <1>4, <2>4
    <2> DEFINE n == MaxOf(is) + 1
    <2>6. n \in 1 .. Len(m.args) /\ n % 2 = 0
      BY <1>2, <1>3, <2>5, BehindAnOdd
    <2> QED
      BY <1>1, <1>2, <2>6, ServerAssumption
  <1> QED
    BY <1>4 DEF PutAll

LEMMA AfterType ==
  ASSUME NEW m \in Messages, ~ Overreads(m), store \in [Keys -> Values \cup {None}]
  PROVE  After(m) \in [Keys -> Values \cup {None}]
  BY PutAllType DEF After

(* The orders in which a round can be worked off. *)
LEMMA RoundsOfType ==
  ASSUME NEW S, IsFiniteSet(S), NEW s \in SetToSeqs(S)
  PROVE  /\ s \in Seq(S)
         /\ \A i, j \in DOMAIN s : s[i] = s[j] => i = j
  <1>1. Cardinality(S) \in Nat
    BY FS_CardinalityType
  <1>2. /\ s \in [1 .. Cardinality(S) -> S]
        /\ \A i, j \in 1 .. Cardinality(S) : i # j => s[i] # s[j]
    BY DEF SetToSeqs
  <1> QED
    BY <1>1, <1>2

-----------------------------------------------------------------------------
(* Initial states *)

LEMMA InitInv == Init => IInv
  <1> SUFFICES ASSUME Init PROVE IInv
    OBVIOUS
  <1> USE SlotsAreDescriptors, ServerAssumption
  <1>1. TypeOK
    <2>1. events \in [Slots -> [mask : BOOLEAN, request : Clients \cup {None}]]
      BY DEF Init, NoEvent
    <2>2. at \in [Fds -> Clients \cup {None}] /\ ep \subseteq Fds /\ maxfd \in -1 .. SetSize - 1
      BY DEF Init, Listener
    <2>3. store \in [Keys -> Values \cup {None}]
      BY DEF Init
    <2>4. answer.to \in Clients \cup {None}
      BY DEF Init, NoAnswer
    <2> QED
      BY <2>1, <2>2, <2>3, <2>4 DEF Init, TypeOK
  <1>2. Sockets
    BY DEF Init, Sockets, Listener, Fds, Peers
  <1>3. Open = {}
    BY DEF Init, Open, Peers
  <1>4. Requests
    BY <1>3, FS_EmptySet DEF Init, Requests
  <1>5. Masked = {Listener}
    BY DEF Init, Masked, NoEvent
  <1>6. Tables
    BY <1>5 DEF Init, Tables, Listener
  <1>7. Round
    BY DEF Init, Round
  <1> QED
    BY <1>1, <1>2, <1>4, <1>6, <1>7 DEF IInv
-----------------------------------------------------------------------------
(* Steps that leave the server's tables alone *)

LEMMA ConnectInv ==
  ASSUME IInv, NEW c \in Clients, Connect(c)
  PROVE  IInv'
  <1> USE DEF IInv
  <1>1. TypeOK'
    BY ServerAssumption DEF TypeOK, Connect, kernel, loop, data
  <1>2. \A f \in Peers : at[f] # None => at[f] # c
    BY DEF Connect, Sockets, Connected
  <1>3. Sockets'
    BY <1>2 DEF Sockets, Connect, kernel, TypeOK, Connected, Peers
  <1>4. Requests' /\ Tables'
    BY DEF Requests, Tables, Open, Masked, Connect, kernel, loop
  <1>5. Round'
    BY <1>2 DEF Round, Tables, TypeOK, Connect, kernel, loop, Readable, Peers
  <1> QED
    BY <1>1, <1>3, <1>4, <1>5

LEMMA SendInv ==
  ASSUME IInv, NEW c \in Clients, NEW m \in Messages, Send(c, m)
  PROVE  IInv'
  <1> USE DEF IInv
  <1>1. TypeOK'
    BY ServerAssumption DEF TypeOK, Send, kernel, loop, data
  <1>2. Sockets' /\ Requests' /\ Tables'
    BY DEF Sockets, Requests, Tables, Open, Masked, Send, kernel, loop
  <1>3. client[c] \notin {"hungup", "reset"} /\ inbox[c] = Silent
    BY DEF Send
  <1>4. Round'
    BY <1>3 DEF Round, TypeOK, Send, kernel, loop, Readable
  <1> QED
    BY <1>1, <1>2, <1>4

LEMMA HangUpInv ==
  ASSUME IInv, NEW c \in Clients, NEW how \in {"hungup", "reset"}, HangUp(c, how)
  PROVE  IInv'
  <1> USE DEF IInv
  <1>1. TypeOK'
    BY DEF TypeOK, HangUp, kernel, loop, data, bounds
  <1>2. Sockets'
    BY DEF Sockets, HangUp, kernel, TypeOK, Connected, Peers
  <1>3. Requests' /\ Tables'
    BY DEF Requests, Tables, Open, Masked, HangUp, kernel, loop
  <1>4. Round'
    BY DEF Round, TypeOK, HangUp, kernel, loop, Readable
  <1> QED
    BY <1>1, <1>2, <1>3, <1>4

LEMMA PollInv ==
  ASSUME IInv, Poll
  PROVE  IInv'
  <1> USE DEF IInv
  <1>1. Ready \subseteq ep /\ ep \subseteq Slots
    BY DEF Ready, Tables, Masked
  <1>2. IsFiniteSet(Ready)
    <2>1. Ready \in SUBSET Slots
      BY <1>1
    <2> QED
      BY <2>1, SlotsAreFinite, FS_Subset
  <1>3. fired' \in Seq(Ready) /\ \A i, j \in DOMAIN fired' : fired'[i] = fired'[j] => i = j
    BY <1>2, RoundsOfType DEF Poll
  <1>4. \A i \in DOMAIN fired' : fired'[i] \in ep /\ Readable(fired'[i])
    BY <1>1, <1>3 DEF Ready
  <1>5. TypeOK'
    BY <1>1, <1>3 DEF TypeOK, Poll, kernel, data, bounds
  <1>6. Sockets' /\ Requests' /\ Tables'
    BY DEF Sockets, Requests, Tables, Open, Masked, Poll, kernel
  <1>7. Round'
    BY <1>3, <1>4 DEF Round, Poll, kernel, Readable
  <1> QED
    BY <1>5, <1>6, <1>7

LEMMA EndOfRoundInv ==
  ASSUME IInv, EndOfRound
  PROVE  IInv'
  BY DEF IInv, TypeOK, Sockets, Requests, Tables, Round, Open, Masked, EndOfRound, kernel,
         bounds, NoAnswer, Readable

(* The rest of a round, when one event of it is dispatched.                *)
LEMMA RestOfRound ==
  ASSUME IInv, NEW fd \in Slots, Dispatch(fd)
  PROVE  /\ fired' \in Seq(Slots)
         /\ \A i \in DOMAIN fired' : i + 1 \in DOMAIN fired /\ fired'[i] = fired[i + 1]
         /\ \A i, j \in DOMAIN fired' : fired'[i] = fired'[j] => i = j
         /\ \A i \in DOMAIN fired' : fired'[i] # fd /\ fired'[i] \in ep
         /\ \A i \in DOMAIN fired' : fired'[i] # Listener => Readable(fired'[i])
         /\ pc = "dispatch" /\ fd \in ep /\ fd \in Range(fired)
  <1>1. fired \in Seq(Slots) /\ fired # <<>> /\ fd = fired[1] /\ fired' = Tail(fired)
    BY DEF IInv, TypeOK, Dispatch
  <1>2. /\ fired' \in Seq(Slots) /\ 1 \in DOMAIN fired
        /\ \A i \in DOMAIN fired' : i + 1 # 1 /\ i + 1 \in DOMAIN fired /\ fired'[i] = fired[i + 1]
        /\ \A i, j \in DOMAIN fired' : i + 1 = j + 1 => i = j
    BY <1>1
  <1> QED
    BY <1>1, <1>2 DEF IInv, Round, Dispatch, Range

LEMMA AcceptFailsInv ==
  ASSUME IInv, AcceptFails
  PROVE  IInv'
  <1> USE DEF IInv
  <1>1. Dispatch(Listener) /\ Listener \in Slots
    BY SlotsAreDescriptors DEF AcceptFails
  <1>2. TypeOK'
    BY <1>1, RestOfRound DEF TypeOK, AcceptFails, kernel, bounds
  <1>3. Sockets' /\ Requests' /\ Tables'
    BY DEF Sockets, Requests, Tables, Open, Masked, AcceptFails, kernel
  <1>4. Round'
    BY <1>1, RestOfRound DEF Round, AcceptFails, kernel, Readable
  <1> QED
    BY <1>2, <1>3, <1>4

LEMMA AnswerTakenInv ==
  ASSUME IInv, TakeAnswer \/ WriteFails
  PROVE  IInv'
  <1> USE DEF IInv
  <1>1. pc' \in {"dispatch", "fault"} /\ GoesOn
    BY DEF TakeAnswer, WriteFails
  <1> QED
    BY <1>1 DEF TypeOK, Sockets, Requests, Tables, Round, Open, Masked, GoesOn, kernel, data,
                bounds, Readable
-----------------------------------------------------------------------------
(* Connections that come and go *)

(* A free descriptor is in no table and has no request. *)
LEMMA FreeIsUnknown ==
  ASSUME IInv, NEW fd \in FreeFds
  PROVE  /\ fd \in Fds /\ fd \in Int /\ fd # Listener /\ fd \notin Open /\ fd \notin ep
         /\ \A i \in DOMAIN fired : fired[i] # fd
         /\ fd \in Slots => AddEvent(fd)
  BY ServerAssumption DEF IInv, FreeFds, Open, Peers, Fds, Tables, Round, Masked, AddEvent

LEMMA LowestIsFree ==
  ASSUME FreeFds # {}
  PROVE  (CHOOSE fd \in FreeFds : \A f \in FreeFds : fd <= f) \in FreeFds
  <1>1. FreeFds \subseteq Nat
    BY ServerAssumption DEF FreeFds, Peers, Fds
  <1> QED
    BY <1>1, LeastElement

(* A connection more, at a descriptor that was free. *)
LEMMA OneMore ==
  ASSUME IInv, NEW c \in Clients, client[c] = "waiting", NEW fd \in FreeFds,
         at' = [at EXCEPT ![fd] = c], client' = [client EXCEPT ![c] = "open"],
         live' = live \cup {c}, clicount' = clicount + 1
  PROVE  Sockets' /\ Requests'
  <1> USE DEF IInv
  <1>1. fd \in Peers /\ at[fd] = None /\ c # None /\ fd # Listener
    BY ServerAssumption DEF FreeFds, Peers
  <1>2. /\ at \in [Fds -> Clients \cup {None}]
        /\ client \in [Clients -> {"away", "waiting", "open", "hungup", "reset"}]
    BY DEF TypeOK
  <1>3. \A f \in Peers : f \in Fds /\ at[f] # c
    BY <1>2, ServerAssumption DEF Sockets, Peers, Connected
  <1>4. \A f \in Peers : at'[f] = IF f = fd THEN c ELSE at[f]
    BY <1>1, <1>2, <1>3
  <1>5. Listener \in Fds
    BY SlotsAreDescriptors
  <1>6. Sockets'
    <2>1. at'[Listener] = None
      BY <1>1, <1>2, <1>5 DEF Sockets
    <2>2. \A f, g \in Peers : at'[f] # None /\ at'[f] = at'[g] => f = g
      BY <1>3, <1>4 DEF Sockets
    <2>3. \A f \in Peers : at'[f] # None => client'[at'[f]] \in Connected
      BY <1>2, <1>3, <1>4 DEF Sockets, Connected
    <2> QED
      BY <2>1, <2>2, <2>3 DEF Sockets
  <1>7. Open' = Open \cup {fd} /\ fd \notin Open
    BY <1>1, <1>4 DEF Open
  <1>8. live' = {at'[f] : f \in Open'}
    <2>1. \A f \in Open : at'[f] = at[f]
      BY <1>1, <1>4 DEF Open
    <2>2. at'[fd] = c
      BY <1>1, <1>4
    <2> QED
      BY <1>7, <2>1, <2>2 DEF Requests
  <1>9. Cardinality(Open') = Cardinality(Open) + 1
    BY <1>7, OpenIsFinite, FS_AddElement
  <1> QED
    BY <1>6, <1>8, <1>9 DEF Requests

LEMMA RegisterTables ==
  ASSUME IInv, NEW c \in Clients, NEW fd \in FreeFds, at' = [at EXCEPT ![fd] = c],
         \/ CanRegister(fd) /\ Register(fd, c)
         \/ ~ CanRegister(fd) /\ UNCHANGED <<ep, events, maxfd>>
  PROVE  /\ Tables' /\ ep \subseteq ep'
         /\ ep' \subseteq Fds /\ maxfd' \in -1 .. SetSize - 1
         /\ events' \in [Slots -> [mask : BOOLEAN, request : Clients \cup {None}]]
  <1> USE DEF IInv
  <1>1. /\ at \in [Fds -> Clients \cup {None}]
        /\ events \in [Slots -> [mask : BOOLEAN, request : Clients \cup {None}]]
        /\ ep \subseteq Fds /\ maxfd \in -1 .. SetSize - 1
    BY DEF TypeOK
  <1>2. /\ fd \in Fds /\ fd \in Int /\ fd # Listener /\ fd \notin ep /\ ep \subseteq Slots
        /\ Slots \subseteq Int /\ c # None
    BY FreeIsUnknown, SlotsAreDescriptors, ServerAssumption DEF Tables, Masked
  <1>3. \A f \in ep : at'[f] = at[f]
    BY <1>1, <1>2
  <1>4. CASE UNCHANGED <<ep, events, maxfd>>
    BY <1>1, <1>3, <1>4 DEF Tables, Masked
  <1>5. CASE CanRegister(fd) /\ Register(fd, c)
    <2>1. fd \in Slots
      BY <1>2, <1>5, ServerAssumption DEF CanRegister, Fds, Slots
    <2>2. /\ ep' = ep \cup {fd} /\ maxfd' = IF fd > maxfd THEN fd ELSE maxfd
          /\ events' = [events EXCEPT ![fd] = [mask |-> TRUE, request |-> c]]
      BY <1>5 DEF Register
    <2>3. /\ events' \in [Slots -> [mask : BOOLEAN, request : Clients \cup {None}]]
          /\ events'[fd] = [mask |-> TRUE, request |-> c]
          /\ \A f \in Slots \ {fd} : events'[f] = events[f]
      BY <1>1, <2>1, <2>2
    <2>4. Masked' = Masked \cup {fd}
      BY <2>1, <2>3 DEF Masked
    <2>5. at'[fd] = c /\ events'[fd].request = c
      BY <1>1, <1>2, <2>3
    <2>6. \A f \in ep \ {Listener} : at'[f] # None /\ events'[f].request = at'[f]
      BY <1>2, <1>3, <2>3 DEF Tables
    <2>7. maxfd' \in ep' /\ \A f \in ep' : f <= maxfd'
      BY <1>1, <1>2, <2>2 DEF Tables
    <2>8. maxfd' \in -1 .. SetSize - 1
      BY <1>1, <2>1, <2>2 DEF Slots
    <2>9. Tables'
      BY <1>2, <2>2, <2>4, <2>5, <2>6, <2>7 DEF Tables
    <2> QED
      BY <1>1, <1>2, <2>2, <2>3, <2>8, <2>9
  <1> QED
    BY <1>4, <1>5

LEMMA AcceptInv ==
  ASSUME IInv, Accept
  PROVE  IInv'
  <1> USE DEF IInv
  <1>1. Dispatch(Listener) /\ Listener \in Slots
    BY SlotsAreDescriptors DEF Accept
  <1>2. PICK c \in Clients, fd \in FreeFds :
          /\ client[c] = "waiting"
          /\ at' = [at EXCEPT ![fd] = c] /\ client' = [client EXCEPT ![c] = "open"]
          /\ live' = live \cup {c} /\ clicount' = clicount + 1
          /\ \/ CanRegister(fd) /\ Register(fd, c) /\ UNCHANGED hazards
             \/ /\ ~ CanRegister(fd)
                /\ hazards' = hazards \cup {"unserved"}
                /\ UNCHANGED <<ep, events, maxfd>>
    BY LowestIsFree DEF Accept
  <1>3. Sockets' /\ Requests'
    BY <1>2, OneMore
  <1>4. /\ Tables' /\ ep \subseteq ep'
        /\ ep' \subseteq Fds /\ maxfd' \in -1 .. SetSize - 1
        /\ events' \in [Slots -> [mask : BOOLEAN, request : Clients \cup {None}]]
    BY <1>2, RegisterTables
  <1>5. TypeOK'
    <2>1. /\ at' \in [Fds -> Clients \cup {None}]
          /\ client' \in [Clients -> {"away", "waiting", "open", "hungup", "reset"}]
      BY <1>2 DEF TypeOK, FreeFds, Peers
    <2>2. live' \subseteq Clients /\ clicount' \in Nat
      BY <1>2 DEF TypeOK
    <2>3. hazards' \subseteq {"unserved", "nofd"}
      BY <1>2 DEF TypeOK
    <2>4. fired' \in Seq(Slots)
      BY <1>1, RestOfRound
    <2> QED
      BY <1>4, <2>1, <2>2, <2>3, <2>4 DEF TypeOK, Accept, bounds
  <1>6. Round'
    <2>1. /\ \A i, j \in DOMAIN fired' : fired'[i] = fired'[j] => i = j
          /\ \A i \in DOMAIN fired' : fired'[i] \in ep
          /\ \A i \in DOMAIN fired' : fired'[i] # Listener => Readable(fired'[i])
      BY <1>1, RestOfRound
    <2>2. \A f \in ep \ {Listener} : at'[f] = at[f] /\ at[f] \in Clients /\ at[f] # c
      <3>1. fd \notin ep
        BY FreeIsUnknown
      <3>2. \A f \in ep \ {Listener} : f \in Peers /\ f \in Fds
        BY DEF TypeOK, Peers
      <3> QED
        BY <1>2, <3>1, <3>2 DEF TypeOK, Tables, Sockets, Connected
    <2>3. \A f \in ep \ {Listener} : Readable(f) => Readable(f)'
      BY <1>2, <2>2 DEF Readable, Accept, TypeOK
    <2>4. pc' = "dispatch"
      BY <1>1 DEF Accept, Dispatch
    <2> QED
      BY <1>4, <2>1, <2>3, <2>4 DEF Round
  <1> QED
    BY <1>3, <1>4, <1>5, <1>6
(* A connection less. *)
LEMMA OneLess ==
  ASSUME IInv, NEW fd \in Open, Close(fd), live' = live \ {at[fd]}
  PROVE  /\ Sockets' /\ Requests'
         /\ at' \in [Fds -> Clients \cup {None}]
         /\ client' \in [Clients -> {"away", "waiting", "open", "hungup", "reset"}]
         /\ inbox' \in [Clients -> Messages \cup {Silent}]
         /\ live' \subseteq Clients /\ clicount' \in Nat
         /\ \A f \in Open \ {fd} : Readable(f) => Readable(f)'
  <1> USE DEF IInv
  <1>1. fd \in Peers /\ fd \in Fds /\ at[fd] \in Clients /\ at[fd] # None /\ fd # Listener
    BY DEF Open, Peers, TypeOK
  <1>2. /\ at \in [Fds -> Clients \cup {None}] /\ inbox \in [Clients -> Messages \cup {Silent}]
        /\ client \in [Clients -> {"away", "waiting", "open", "hungup", "reset"}]
        /\ live \subseteq Clients /\ clicount \in Nat
    BY DEF TypeOK
  <1>3. /\ at' = [at EXCEPT ![fd] = None] /\ client' = [client EXCEPT ![at[fd]] = "away"]
        /\ inbox' = [inbox EXCEPT ![at[fd]] = Silent] /\ clicount' = clicount - 1
    BY DEF Close, CloseFd
  <1>4. \A f \in Fds : at'[f] = IF f = fd THEN None ELSE at[f]
    BY <1>1, <1>2, <1>3
  <1>5. /\ Listener \in Fds /\ \A f \in Peers : f \in Fds /\ f # Listener
        /\ \A f \in Open : f \in Peers /\ at[f] \in Clients
    BY <1>2, SlotsAreDescriptors DEF Peers, Open
  <1>6. \A f \in Peers \ {fd} : at[f] # at[fd]
    BY <1>1 DEF Sockets
  <1>7. Sockets'
    <2>1. at'[Listener] = None
      BY <1>1, <1>4, <1>5 DEF Sockets
    <2>2. \A f, g \in Peers : at'[f] # None /\ at'[f] = at'[g] => f = g
      BY <1>4, <1>5 DEF Sockets
    <2>3. \A f \in Peers : at'[f] # None => client'[at'[f]] \in Connected
      BY <1>1, <1>2, <1>3, <1>4, <1>5, <1>6 DEF Sockets
    <2> QED
      BY <2>1, <2>2, <2>3 DEF Sockets
  <1>8. Open' = Open \ {fd}
    BY <1>4, <1>5 DEF Open
  <1>9. live' = {at'[f] : f \in Open'}
    <2>1. \A f \in Open \ {fd} : at'[f] = at[f] /\ at[f] # at[fd]
      BY <1>4, <1>5, <1>6
    <2> QED
      BY <1>8, <2>1 DEF Requests
  <1>10. Cardinality(Open') = Cardinality(Open) - 1
    BY <1>8, OpenIsFinite, FS_RemoveElement
  <1>11. clicount' \in Nat
    <2>1. Open # {} /\ Cardinality(Open) \in Nat
      BY OpenIsFinite, FS_CardinalityType
    <2>2. Cardinality(Open) # 0
      BY <2>1, OpenIsFinite, FS_EmptySet
    <2> QED
      BY <1>3, <2>1, <2>2 DEF Requests
  <1>12. \A f \in Open \ {fd} : Readable(f) => Readable(f)'
    <2> TAKE f \in Open \ {fd}
    <2>1. at'[f] = at[f] /\ at[f] \in Clients /\ at[f] # at[fd] /\ f # Listener
      BY <1>4, <1>5, <1>6
    <2>2. client'[at[f]] = client[at[f]] /\ inbox'[at[f]] = inbox[at[f]]
      BY <1>2, <1>3, <2>1
    <2> QED
      BY <2>1, <2>2 DEF Readable
  <1>13. Requests'
    BY <1>3, <1>9, <1>10 DEF Requests
  <1>14. /\ at' \in [Fds -> Clients \cup {None}] /\ inbox' \in [Clients -> Messages \cup {Silent}]
         /\ client' \in [Clients -> {"away", "waiting", "open", "hungup", "reset"}]
         /\ live' \subseteq Clients
    BY <1>2, <1>3
  <1> QED
    BY <1>7, <1>11, <1>12, <1>13, <1>14

LEMMA UnregisterTables ==
  ASSUME IInv, NEW fd \in ep \ {Listener}, at' = [at EXCEPT ![fd] = None], Unregister(fd)
  PROVE  /\ Tables' /\ ep' = ep \ {fd}
         /\ ep' \subseteq Fds /\ maxfd' \in -1 .. SetSize - 1
         /\ events' \in [Slots -> [mask : BOOLEAN, request : Clients \cup {None}]]
  <1> USE DEF IInv
  <1>1. /\ at \in [Fds -> Clients \cup {None}]
        /\ events \in [Slots -> [mask : BOOLEAN, request : Clients \cup {None}]]
        /\ ep \subseteq Fds /\ maxfd \in -1 .. SetSize - 1
    BY DEF TypeOK
  <1>2. /\ ep = Masked /\ Slots \subseteq Int /\ Listener \in Slots /\ Listener # fd
        /\ Masked \subseteq Slots /\ ep \subseteq Int /\ maxfd \in ep
    BY SlotsAreDescriptors DEF Tables, Masked
  <1>3. ep' = ep \ {fd} /\ events' = [events EXCEPT ![fd].mask = FALSE]
    BY DEF Unregister
  <1>4. /\ events' \in [Slots -> [mask : BOOLEAN, request : Clients \cup {None}]]
        /\ events'[fd].mask = FALSE
        /\ \A f \in Slots \ {fd} : events'[f] = events[f]
    BY <1>1, <1>2, <1>3
  <1>5. Masked' = Masked \ {fd}
    BY <1>2, <1>4 DEF Masked
  <1>6. \A f \in ep' \ {Listener} : at'[f] # None /\ events'[f].request = at'[f]
    BY <1>1, <1>2, <1>3, <1>4 DEF Tables
  <1>7. maxfd' \in ep' /\ \A f \in ep' : f <= maxfd'
    <2>1. CASE fd # maxfd
      BY <1>2, <1>3, <2>1 DEF Unregister, Tables
    <2>2. CASE fd = maxfd
      <3> DEFINE Lower == {f \in Slots : f < maxfd /\ events[f].mask}
      <3>1. Lower = ep'
        BY <1>2, <1>3, <2>2 DEF Tables, Masked
      <3>2. maxfd' = MaxOf(ep' \cup {-1})
        BY <2>2, <3>1 DEF Unregister
      <3>3. ep' \in SUBSET Slots /\ ep' \subseteq Int
        BY <1>2, <1>3
      <3>4. IsFiniteSet(ep')
        BY <3>3, SlotsAreFinite, FS_Subset
      <3>5. PICK n \in ep' : \A m \in ep' : n >= m
        <4>1. ep' # {}
          BY <1>2, <1>3 DEF Tables
        <4> QED
          BY <3>3, <3>4, <4>1, GreatestElement
      <3>6. n \in Slots /\ n >= -1
        BY <3>3, <3>5 DEF Slots
      <3>7. \A m \in ep' \cup {-1} : n >= m
        BY <3>5, <3>6
      <3>8. n \in ep' \cup {-1} /\ ep' \cup {-1} \subseteq Int
        BY <3>3, <3>5
      <3>9. MaxOf(ep' \cup {-1}) = n
        BY <3>7, <3>8, MaxOfIs
      <3> QED
        BY <3>2, <3>3, <3>5, <3>9
    <2> QED
      BY <2>1, <2>2
  <1>8. maxfd' \in -1 .. SetSize - 1
    BY <1>2, <1>3, <1>7 DEF Slots
  <1>9. Tables'
    BY <1>2, <1>3, <1>5, <1>6, <1>7 DEF Tables
  <1> QED
    BY <1>1, <1>3, <1>4, <1>8, <1>9

LEMMA ReadEndInv ==
  ASSUME IInv, NEW fd \in Slots, ReadEnd(fd)
  PROVE  IInv'
  <1> USE DEF IInv
  <1>1. Dispatch(fd) /\ fd # Listener /\ Close(fd) /\ live' = live \ {events[fd].request}
    BY DEF ReadEnd, Free
  <1>2. /\ fired' \in Seq(Slots)
        /\ \A i, j \in DOMAIN fired' : fired'[i] = fired'[j] => i = j
        /\ \A i \in DOMAIN fired' : fired'[i] # fd /\ fired'[i] \in ep
        /\ \A i \in DOMAIN fired' : fired'[i] # Listener => Readable(fired'[i])
        /\ pc = "dispatch" /\ fd \in ep
    BY <1>1, RestOfRound
  <1>3. /\ \A f \in ep \ {Listener} : f \in Open
        /\ events[fd].request = at[fd] /\ fd \in Open
    BY <1>1, <1>2 DEF Tables, TypeOK, Open, Peers
  <1>4. /\ Sockets' /\ Requests'
        /\ at' \in [Fds -> Clients \cup {None}]
        /\ client' \in [Clients -> {"away", "waiting", "open", "hungup", "reset"}]
        /\ inbox' \in [Clients -> Messages \cup {Silent}]
        /\ live' \subseteq Clients /\ clicount' \in Nat
        /\ \A f \in Open \ {fd} : Readable(f) => Readable(f)'
    BY <1>1, <1>3, OneLess
  <1>5. /\ Tables' /\ ep' = ep \ {fd}
        /\ ep' \subseteq Fds /\ maxfd' \in -1 .. SetSize - 1
        /\ events' \in [Slots -> [mask : BOOLEAN, request : Clients \cup {None}]]
    BY <1>1, <1>2, UnregisterTables DEF Close, CloseFd
  <1>6. TypeOK'
    BY <1>2, <1>4, <1>5 DEF TypeOK, ReadEnd, data, bounds
  <1>7. Round'
    BY <1>2, <1>3, <1>4, <1>5 DEF Round, ReadEnd
  <1> QED
    BY <1>4, <1>5, <1>6, <1>7

LEMMA ReadMessageInv ==
  ASSUME IInv, NEW fd \in Slots, ReadMessage(fd)
  PROVE  IInv'
  <1> USE DEF IInv
  <1> DEFINE c == at[fd]
  <1>1. Dispatch(fd) /\ fd # Listener /\ UNCHANGED <<kernel, client, events, maxfd, live, clicount, hazards, bounds>>
    BY DEF ReadMessage
  <1>2. /\ fired' \in Seq(Slots)
        /\ \A i, j \in DOMAIN fired' : fired'[i] = fired'[j] => i = j
        /\ \A i \in DOMAIN fired' : fired'[i] # fd /\ fired'[i] \in ep
        /\ \A i \in DOMAIN fired' : fired'[i] # Listener => Readable(fired'[i])
        /\ pc = "dispatch" /\ fd \in ep
    BY <1>1, RestOfRound
  <1>3. \A f \in ep \ {Listener} : f \in Peers /\ at[f] \in Clients /\ at[f] # None
    BY DEF Tables, TypeOK, Peers
  <1>4. c \in Clients /\ inbox[c] \in Messages
    BY <1>1, <1>2, <1>3 DEF ReadMessage, TypeOK
  <1>5. inbox' = [inbox EXCEPT ![c] = Silent]
    BY DEF ReadMessage
  <1>6. /\ pc' \in {"dispatch", "write", "fault", "exit"}
        /\ store' \in [Keys -> Values \cup {None}]
        /\ answer'.to \in Clients \cup {None}
    <2>1. CASE UNCHANGED <<pc, store, answer>>
      BY <1>2, <2>1 DEF TypeOK
    <2>2. CASE Process(c, inbox[c])
      <3> DEFINE m == inbox[c]
      <3>1. CASE Overreads(m)
        BY <2>2, <3>1 DEF Process, TypeOK
      <3>2. CASE ~ Overreads(m) /\ m.cmd = "shutdown"
        BY <2>2, <3>2 DEF Process, TypeOK
      <3>3. CASE ~ Overreads(m) /\ m.cmd # "shutdown"
        <4>1. /\ store' = After(m)
              /\ answer' = [to |-> c, bytes |-> Written(m), reply |-> Meant(m)]
              /\ pc' \in {pc, IF client[c] = "reset" THEN "fault" ELSE "write"}
          BY <2>2, <3>3 DEF Process
        <4>2. store' \in [Keys -> Values \cup {None}]
          BY <1>4, <3>3, <4>1, AfterType DEF TypeOK
        <4> QED
          BY <1>2, <1>4, <4>1, <4>2
      <3> QED
        BY <3>1, <3>2, <3>3
    <2> QED
      BY <2>1, <2>2 DEF ReadMessage
  <1>7. TypeOK'
    BY <1>1, <1>2, <1>4, <1>5, <1>6 DEF TypeOK, kernel, bounds
  <1>8. Sockets' /\ Requests' /\ Tables'
    BY <1>1 DEF Sockets, Requests, Tables, Open, Masked, kernel
  <1>9. Round'
    <2>1. \A f \in ep \ {fd, Listener} : at[f] # c
      BY <1>1, <1>2, <1>3 DEF Sockets
    <2>2. \A f \in ep \ {fd, Listener} : Readable(f) => Readable(f)'
      BY <1>1, <1>3, <1>5, <2>1 DEF Readable, kernel, TypeOK
    <2> QED
      BY <1>1, <1>2, <1>6, <2>2 DEF Round, kernel
  <1> QED
    BY <1>7, <1>8, <1>9

-----------------------------------------------------------------------------
(* The theorems *)

LEMMA NextInv == IInv /\ [Next]_vars => IInv'
  <1> SUFFICES ASSUME IInv, [Next]_vars PROVE IInv'
    OBVIOUS
  <1>1. ASSUME NEW c \in Clients, Connect(c) PROVE IInv'
    BY <1>1, ConnectInv
  <1>2. ASSUME NEW c \in Clients, NEW m \in Messages, Send(c, m) PROVE IInv'
    BY <1>2, SendInv
  <1>3. ASSUME NEW c \in Clients, NEW how \in {"hungup", "reset"}, HangUp(c, how) PROVE IInv'
    BY <1>3, HangUpInv
  <1>4. CASE Poll
    BY <1>4, PollInv
  <1>5. CASE EndOfRound
    BY <1>5, EndOfRoundInv
  <1>6. CASE Accept
    BY <1>6, AcceptInv
  <1>7. CASE AcceptFails
    BY <1>7, AcceptFailsInv
  <1>8. CASE TakeAnswer \/ WriteFails
    BY <1>8, AnswerTakenInv
  <1>9. ASSUME NEW fd \in Slots, ReadEnd(fd) PROVE IInv'
    BY <1>9, ReadEndInv
  <1>10. ASSUME NEW fd \in Slots, ReadMessage(fd) PROVE IInv'
    BY <1>10, ReadMessageInv
  <1>11. CASE UNCHANGED vars
    BY <1>11 DEF IInv, TypeOK, Sockets, Requests, Tables, Round, Open, Masked, Readable, vars,
                 kernel, loop, data, bounds
  <1> QED
    BY <1>1, <1>2, <1>3, <1>4, <1>5, <1>6, <1>7, <1>8, <1>9, <1>10, <1>11
    DEF Next, Serve, Stopped

LEMMA Invariance == Spec => []IInv
  BY InitInv, NextInv, PTL DEF Spec

(* Whatever clients do, and in whatever order the loop works off what it   *)
(* polled, the server's tables, its counters and the store hold what their *)
(* types allow: no descriptor at or beyond setsize gets into the table     *)
(* (ae.c:91), and _clicount never falls below zero.                        *)
THEOREM TypeCorrect == Spec => []TypeOK
  BY Invariance, PTL DEF IInv

(* aeCreateFileEvent and aeDeleteFileEvent keep the table, epoll's list    *)
(* and maxfd in agreement (ae.c:88-119), however connections come and go:  *)
(* maxfd is the greatest descriptor with an event, after the search        *)
(* downwards for the next one, too.                                        *)
THEOREM TablesAlwaysAgree == Spec => []TablesAgree
  <1>1. IInv => TablesAgree
    <2> SUFFICES ASSUME IInv PROVE TablesAgree
      OBVIOUS
    <2>1. /\ ep = Masked /\ ep \subseteq Slots /\ Slots \subseteq Int
          /\ maxfd \in ep /\ \A fd \in ep : fd <= maxfd
      BY SlotsAreDescriptors DEF IInv, Tables, Masked
    <2>2. \A n \in Masked \cup {-1} : maxfd >= n
      BY <2>1 DEF Slots
    <2>3. maxfd \in Masked \cup {-1} /\ Masked \cup {-1} \subseteq Int
      BY <2>1
    <2>4. maxfd = MaxOf(Masked \cup {-1})
      BY <2>2, <2>3, MaxOfIs
    <2> QED
      BY <2>1, <2>4 DEF TablesAgree, Masked
  <1> QED
    BY <1>1, Invariance, PTL

(* read_handler runs with the request of the connection its descriptor     *)
(* names now, never with one that an earlier handler of the round freed,   *)
(* and finds something to read (ae.c:290, siloserver.c:268): a descriptor  *)
(* taken again within a round was not in what was polled.                  *)
THEOREM HandlersAlwaysHaveTheirOwn == Spec => []HandlersHaveTheirOwn
  <1>1. IInv => HandlersHaveTheirOwn
    <2> SUFFICES ASSUME IInv PROVE HandlersHaveTheirOwn
      OBVIOUS
    <2> USE DEF IInv
    <2>1. \A fd \in Range(fired) : fd \in ep /\ (fd # Listener => Readable(fd))
      BY DEF Round, Range
    <2>2. \A fd \in Slots : events[fd].mask <=> fd \in ep
      BY DEF Tables, Masked
    <2>3. \A fd \in ep \ {Listener} : events[fd].request = at[fd] /\ fd \in Open
      BY DEF Tables, TypeOK, Open, Peers
    <2>4. \A fd \in Open : at[fd] \in live
      BY DEF Requests
    <2>5. ep \subseteq Slots
      BY DEF Tables, Masked
    <2> QED
      BY <2>1, <2>2, <2>3, <2>4, <2>5 DEF HandlersHaveTheirOwn
  <1> QED
    BY <1>1, Invariance, PTL

(* _clicount counts the open connections, and each has one request that is *)
(* allocated: no close leaks a request or frees it twice (siloserver.c:272 *)
(* and 282), those among them that the table had no room for included.     *)
THEOREM ClientsAreAlwaysCounted == Spec => []ClientsAreCounted
  <1>1. IInv => ClientsAreCounted
    BY OneRequestEach DEF IInv, Requests, ClientsAreCounted
  <1> QED
    BY <1>1, Invariance, PTL



-----------------------------------------------------------------------------
(* Answers and their reader *)

Elements == {"$", "byte", "crlf", "*"} \X Int

(* A value that a C string can hold, or none. *)
IsWhole(v) == v = None \/ (v \in Seq(Nat) /\ ToNul(v) = v)

LEMMA BulkIs ==
  ASSUME NEW v, IsWhole(v), NEW b, b = Bulk(v)
  PROVE  /\ b \in Seq(Elements) /\ Len(b) \in Nat /\ Len(b) >= 1
         /\ v = None => Len(b) = 1 /\ b[1] = <<"$", -1>>
         /\ v # None => /\ v \in Seq(Nat) /\ Len(v) \in Nat /\ Len(b) = Len(v) + 2
                        /\ b[1] = <<"$", Len(v)>>
                        /\ \A i \in 1 .. Len(v) : b[i + 1] = <<"byte", v[i]>>
                        /\ b[Len(v) + 2] = Crlf
  <1>1. CASE v = None
    <2>1. PICK e : e = <<"$", -1>>
      OBVIOUS
    <2>2. e \in Elements
      BY <2>1 DEF Elements
    <2>3. b = <<e>>
      BY <1>1, <2>1 DEF Bulk, Line
    <2>4. b \in Seq(Elements) /\ Len(b) = 1 /\ b[1] = e
      BY <2>2, <2>3
    <2> QED
      BY <1>1, <2>1, <2>4
  <1>2. CASE v # None
    <2>1. v \in Seq(Nat) /\ ToNul(v) = v
      BY <1>2 DEF IsWhole
    <2>2. PICK n, first, mid, last : /\ n = Len(v) /\ first = << <<"$", n>> >> /\ mid = Bytes(v)
                                     /\ last = <<Crlf>>
      OBVIOUS
    <2>3. b = first \o mid \o last
      BY <1>2, <2>1, <2>2 DEF Bulk, Line
    <2>4. n \in Nat /\ <<"$", n>> \in Elements /\ Crlf \in Elements
      BY <2>1, <2>2 DEF Elements, Crlf
    <2>5. /\ first \in Seq(Elements) /\ Len(first) = 1 /\ first[1] = <<"$", n>>
          /\ last \in Seq(Elements) /\ Len(last) = 1 /\ last[1] = Crlf
      BY <2>2, <2>4
    <2>6. mid \in Seq(Elements) /\ Len(mid) = n /\ \A i \in 1 .. n : mid[i] = <<"byte", v[i]>>
      <3>1. DOMAIN v = 1 .. n /\ \A i \in 1 .. n : v[i] \in Nat
        BY <2>1, <2>2
      <3>2. mid = [i \in 1 .. n |-> <<"byte", v[i]>>]
        BY <2>2, <3>1 DEF Bytes
      <3>3. \A i \in 1 .. n : <<"byte", v[i]>> \in Elements
        BY <3>1 DEF Elements
      <3>4. mid \in [1 .. n -> Elements]
        BY <3>2, <3>3
      <3> QED
        BY <2>4, <3>2, <3>4
    <2>7. PICK front : front = first \o mid
      OBVIOUS
    <2>8. /\ front \in Seq(Elements) /\ Len(front) = 1 + n
          /\ \A i \in 1 .. 1 + n : front[i] = IF i <= 1 THEN first[i] ELSE mid[i - 1]
      <3>1. first \in Seq(Elements) /\ mid \in Seq(Elements)
        BY <2>5, <2>6
      <3>2. /\ first \o mid \in Seq(Elements)
            /\ Len(first \o mid) = Len(first) + Len(mid)
            /\ \A i \in 1 .. Len(first) + Len(mid) :
                 (first \o mid)[i] = IF i <= Len(first) THEN first[i] ELSE mid[i - Len(first)]
        BY <3>1, ConcatProperties
      <3> QED
        BY <2>5, <2>6, <2>7, <3>2
    <2>9. /\ b \in Seq(Elements) /\ Len(b) = 1 + n + 1
          /\ \A i \in 1 .. 1 + n + 1 :
               b[i] = IF i <= 1 + n THEN front[i] ELSE last[i - (1 + n)]
      <3>1. b = front \o last
        BY <2>3, <2>7
      <3>2. /\ b \in Seq(Elements) /\ Len(b) = Len(front) + Len(last)
            /\ \A i \in 1 .. Len(front) + Len(last) :
                 b[i] = IF i <= Len(front) THEN front[i] ELSE last[i - Len(front)]
        <4>1. front \in Seq(Elements) /\ last \in Seq(Elements)
          BY <2>5, <2>8
        <4>2. /\ front \o last \in Seq(Elements)
              /\ Len(front \o last) = Len(front) + Len(last)
              /\ \A i \in 1 .. Len(front) + Len(last) :
                   (front \o last)[i] = IF i <= Len(front) THEN front[i] ELSE last[i - Len(front)]
          BY <4>1, ConcatProperties
        <4> QED
          BY <3>1, <4>2
      <3> QED
        BY <2>5, <2>8, <3>2
    <2>10. Len(b) = n + 2 /\ b[1] = <<"$", n>> /\ b[n + 2] = Crlf
      <3>1. 1 \in 1 .. 1 + n /\ 1 \in 1 .. 1 + n + 1 /\ n + 2 \in 1 .. 1 + n + 1
            /\ ~ n + 2 <= 1 + n /\ n + 2 - (1 + n) = 1 /\ 1 <= 1 + n
        BY <2>4
      <3> QED
        BY <2>4, <2>5, <2>8, <2>9, <3>1
    <2>11. ASSUME NEW i \in 1 .. n PROVE b[i + 1] = <<"byte", v[i]>>
      <3>1. /\ i + 1 \in 1 .. 1 + n /\ i + 1 \in 1 .. 1 + n + 1 /\ i + 1 <= 1 + n
            /\ ~ i + 1 <= 1 /\ i + 1 - 1 = i
        BY <2>4
      <3> QED
        BY <2>6, <2>8, <2>9, <3>1
    <2> QED
      BY <1>2, <2>1, <2>2, <2>4, <2>9, <2>10, <2>11
  <1> QED
    BY <1>1, <1>2

(* A bulk is read as the value it was made of, wherever it stands. *)
LEMMA BulkIsRead ==
  ASSUME NEW v, IsWhole(v), NEW b, b = Bulk(v), NEW s \in Seq(Elements), NEW n \in Nat,
         n + Len(b) <= Len(s), \A i \in 1 .. Len(b) : s[n + i] = b[i]
  PROVE  BulkAt(s, n) = [reply |-> <<"bulk", v>>, next |-> n + Len(b)]
  <1>1. /\ Len(b) \in Nat /\ Len(b) >= 1 /\ Len(s) \in Nat
        /\ v = None => Len(b) = 1 /\ b[1] = <<"$", -1>>
        /\ v # None => /\ v \in Seq(Nat) /\ Len(v) \in Nat /\ Len(b) = Len(v) + 2
                       /\ b[1] = <<"$", Len(v)>>
                       /\ \A i \in 1 .. Len(v) : b[i + 1] = <<"byte", v[i]>>
                       /\ b[Len(v) + 2] = Crlf
    BY BulkIs
  <1>2. s[n + 1] = b[1] /\ ~ n >= Len(s)
    BY <1>1
  <1>3. CASE v = None
    <2>1. s[n + 1][1] = "$" /\ s[n + 1][2] = -1 /\ n + Len(b) = n + 1
      <3>1. s[n + 1] = <<"$", -1>> /\ Len(b) = 1
        BY <1>1, <1>2, <1>3
      <3> QED
        BY <3>1
    <2> QED
      BY <1>2, <1>3, <2>1 DEF BulkAt
  <1>4. CASE v # None
    <2>1. PICK size : size = Len(v)
      OBVIOUS
    <2>2. /\ size \in Nat /\ Len(b) = size + 2 /\ s[n + 1] = <<"$", size>>
          /\ ~ n + size + 2 > Len(s) /\ size # -1
      BY <1>1, <1>2, <1>4, <2>1
    <2>3. s[n + size + 2] = Crlf
      <3>1. size + 2 \in 1 .. Len(b) /\ n + (size + 2) = n + size + 2
        BY <2>2
      <3> QED
        BY <1>1, <1>4, <2>1, <3>1
    <2>4. ASSUME NEW i \in 1 .. size PROVE s[n + 1 + i] = <<"byte", v[i]>>
      <3>1. i + 1 \in 1 .. Len(b) /\ n + (i + 1) = n + 1 + i
        BY <2>2
      <3> QED
        BY <1>1, <1>4, <2>1, <3>1
    <2>5. ~ \E i \in n + 2 .. n + size + 1 : s[i][1] # "byte"
      <3> SUFFICES ASSUME NEW i \in n + 2 .. n + size + 1 PROVE s[i][1] = "byte"
        OBVIOUS
      <3>1. i - (n + 1) \in 1 .. size /\ n + 1 + (i - (n + 1)) = i
        BY <2>2
      <3> QED
        BY <2>4, <3>1
    <2>6. [i \in 1 .. size |-> s[n + 1 + i][2]] = v
      <3>1. v = [i \in 1 .. size |-> v[i]]
        BY <1>1, <1>4, <2>1
      <3>2. \A i \in 1 .. size : s[n + 1 + i][2] = v[i]
        BY <2>4
      <3> QED
        BY <3>1, <3>2
    <2>7. BulkAt(s, n) = [reply |-> <<"bulk", [i \in 1 .. size |-> s[n + 1 + i][2]]>>,
                          next |-> n + size + 2]
      <3>1. s[n + 1][2] = size /\ s[n + 1][1] = "$"
        BY <2>2
      <3> QED
        BY <1>2, <2>2, <2>3, <2>5, <3>1 DEF BulkAt
    <2>8. n + Len(b) = n + size + 2
      BY <2>2
    <2> QED
      BY <2>6, <2>7, <2>8
  <1> QED
    BY <1>3, <1>4

(* What FlattenSeq has after each sequence, of the first n of them. *)
FlattenStep(seqs, f, i) == IF i = 1 THEN seqs[i] ELSE f[i - 1] \o seqs[i]
FlattensTo(seqs, f, n)  == \A i \in 1 .. n : f[i] = FlattenStep(seqs, f, i)
Flattened(seqs) ==
  CHOOSE f : f = [i \in 1 .. Len(seqs) |-> FlattenStep(seqs, f, i)]

LEMMA SomethingFlattens ==
  ASSUME NEW seqs
  PROVE  \A n \in Nat : \E f : FlattensTo(seqs, f, n)
  <1> DEFINE Bad == {n \in Nat : ~ \E f : FlattensTo(seqs, f, n)}
  <1>1. CASE Bad = {}
    BY <1>1
  <1>2. CASE Bad # {}
    <2>1. PICK n \in Bad : \A k \in Bad : n <= k
      <3>1. Bad \subseteq Nat
        OBVIOUS
      <3> HIDE DEF Bad
      <3> QED
        BY <1>2, <3>1, LeastElement
    <2>2. n # 0
      <3>1. FlattensTo(seqs, << >>, 0)
        BY DEF FlattensTo
      <3> QED
        BY <2>1, <3>1
    <2>3. n \in Nat /\ n - 1 \in Nat /\ n - 1 \notin Bad
      BY <2>1, <2>2
    <2>4. PICK f : FlattensTo(seqs, f, n - 1)
      BY <2>3
    <2> DEFINE g == [i \in 1 .. n |-> FlattenStep(seqs, f, i)]
    <2>5. \A i \in 1 .. n : g[i] = FlattenStep(seqs, f, i)
      OBVIOUS
    <2> HIDE DEF g
    <2>6. ASSUME NEW i \in 1 .. n PROVE g[i] = FlattenStep(seqs, g, i)
      <3>1. CASE i = 1
        BY <2>5, <3>1 DEF FlattenStep
      <3>2. CASE i # 1
        <4>1. i - 1 \in 1 .. n /\ i - 1 \in 1 .. n - 1
          BY <2>3, <3>2
        <4>2. g[i - 1] = f[i - 1]
          BY <2>4, <2>5, <4>1 DEF FlattensTo
        <4> QED
          BY <2>5, <3>2, <4>2 DEF FlattenStep
      <3> QED
        BY <3>1, <3>2
    <2>7. FlattensTo(seqs, g, n)
      BY <2>6 DEF FlattensTo
    <2> QED
      BY <2>1, <2>3, <2>7
  <1> QED
    BY <1>1, <1>2

LEMMA FlattenIs ==
  ASSUME NEW seqs, NEW n \in Nat, n = Len(seqs), n >= 1
  PROVE  FlattenSeq(seqs) = Flattened(seqs)[n] /\ FlattensTo(seqs, Flattened(seqs), n)
  <1>1. PICK f : FlattensTo(seqs, f, n)
    BY SomethingFlattens
  <1> DEFINE g == [i \in 1 .. n |-> f[i]]
  <1>2. g = [i \in 1 .. n |-> FlattenStep(seqs, g, i)]
    <2>1. ASSUME NEW i \in 1 .. n PROVE f[i] = FlattenStep(seqs, g, i)
      <3>1. i # 1 => i - 1 \in 1 .. n
        OBVIOUS
      <3>2. i # 1 => g[i - 1] = f[i - 1]
        BY <3>1
      <3>3. f[i] = FlattenStep(seqs, f, i)
        BY <1>1 DEF FlattensTo
      <3> HIDE DEF g
      <3> QED
        BY <3>2, <3>3 DEF FlattenStep
    <2>2. PICK h : h = g
      OBVIOUS
    <2>3. \A i \in 1 .. n : f[i] = FlattenStep(seqs, h, i)
      BY <2>1, <2>2
    <2>4. h = [i \in 1 .. n |-> f[i]]
      BY <2>2
    <2>5. h = [i \in 1 .. n |-> FlattenStep(seqs, h, i)]
      BY <2>3, <2>4
    <2> QED
      BY <2>2, <2>5
  <1> HIDE DEF g
  <1>3. PICK h : h = Flattened(seqs)
    OBVIOUS
  <1>4. h = [i \in 1 .. n |-> FlattenStep(seqs, h, i)]
    BY <1>2, <1>3, Zenon DEF Flattened
  <1>5. \A i \in 1 .. n : h[i] = FlattenStep(seqs, h, i)
    BY <1>4
  <1>6. FlattenSeq(seqs) = Flattened(seqs)[n]
    <2>1. Len(seqs) # 0
      OBVIOUS
    <2> QED
      BY <2>1, Zenon DEF FlattenSeq, Flattened, FlattenStep
  <1> QED
    BY <1>3, <1>5, <1>6 DEF FlattensTo

(* Where the first i sequences end in the flat one. *)
Upto(seqs, i) == IF i = 0 THEN 0 ELSE Len(Flattened(seqs)[i])

(* After each of the first n, what there was and the sequence behind it. *)
PartsAre(seqs, n) ==
  \A i \in 1 .. n :
     /\ Flattened(seqs)[i] \in Seq(Elements)
     /\ Upto(seqs, i - 1) \in Nat /\ Upto(seqs, i) \in Nat
     /\ Upto(seqs, i) = Upto(seqs, i - 1) + Len(seqs[i])
     /\ \A t \in 1 .. Upto(seqs, i) :
          Flattened(seqs)[i][t] =
            IF t <= Upto(seqs, i - 1) THEN Flattened(seqs)[i - 1][t]
            ELSE seqs[i][t - Upto(seqs, i - 1)]

LEMMA FlattenedParts ==
  ASSUME NEW n \in Nat, n >= 1, NEW seqs, n = Len(seqs), \A i \in 1 .. n : seqs[i] \in Seq(Elements)
  PROVE  PartsAre(seqs, n)
  <1>1. PICK f : f = Flattened(seqs)
    OBVIOUS
  <1>2. \A i \in 1 .. n : f[i] = IF i = 1 THEN seqs[i] ELSE f[i - 1] \o seqs[i]
    BY <1>1, FlattenIs DEF FlattensTo, FlattenStep
  <1>3. \A i \in 1 .. n : f[i] \in Seq(Elements)
    <2> DEFINE Bad == {i \in 1 .. n : f[i] \notin Seq(Elements)}
    <2>1. CASE Bad = {}
      BY <2>1
    <2>2. CASE Bad # {}
      <3>1. PICK i \in Bad : \A j \in Bad : i <= j
        <4>1. Bad \subseteq Nat
          OBVIOUS
        <4> HIDE DEF Bad
        <4> QED
          BY <2>2, <4>1, LeastElement
      <3>2. i \in 1 .. n /\ f[i] \notin Seq(Elements)
        BY <3>1
      <3>3. i # 1
        BY <1>2, <3>2
      <3>4. i - 1 \in 1 .. n /\ ~ i <= i - 1
        BY <3>2, <3>3
      <3>5. f[i - 1] \in Seq(Elements)
        BY <3>1, <3>4
      <3>6. f[i] = f[i - 1] \o seqs[i]
        BY <1>2, <3>2, <3>3
      <3> QED
        BY <3>2, <3>5, <3>6, ConcatProperties
    <2> QED
      BY <2>1, <2>2
  <1> SUFFICES ASSUME NEW i \in 1 .. n
               PROVE  /\ Flattened(seqs)[i] \in Seq(Elements)
                       /\ Upto(seqs, i - 1) \in Nat /\ Upto(seqs, i) \in Nat
                       /\ Upto(seqs, i) = Upto(seqs, i - 1) + Len(seqs[i])
                       /\ \A t \in 1 .. Upto(seqs, i) :
                            Flattened(seqs)[i][t] =
                              IF t <= Upto(seqs, i - 1) THEN Flattened(seqs)[i - 1][t]
                              ELSE seqs[i][t - Upto(seqs, i - 1)]
    BY DEF PartsAre
  <1>4. i \in Nat /\ i # 0 /\ f[i] \in Seq(Elements) /\ seqs[i] \in Seq(Elements)
    BY <1>3
  <1>5. PICK b, c, d : b = seqs[i] /\ c = f[i] /\ d = f[i - 1]
    OBVIOUS
  <1>6. Upto(seqs, i) = Len(c)
    BY <1>1, <1>4, <1>5 DEF Upto
  <1>7. b \in Seq(Elements) /\ c \in Seq(Elements) /\ Len(b) \in Nat /\ Len(c) \in Nat
    BY <1>4, <1>5
  <1>8. CASE i = 1
    <2>1. c = b
      BY <1>2, <1>5, <1>8
    <2>2. Upto(seqs, i - 1) = 0
      BY <1>8 DEF Upto
    <2>3. \A t \in 1 .. Len(c) : ~ t <= 0 /\ t - 0 = t
      BY <1>7
    <2> QED
      BY <1>1, <1>5, <1>6, <1>7, <2>1, <2>2, <2>3
  <1>9. CASE i # 1
    <2>1. i - 1 \in 1 .. n /\ i - 1 # 0
      BY <1>9
    <2>2. d \in Seq(Elements) /\ Len(d) \in Nat
      BY <1>3, <1>5, <2>1
    <2>3. Upto(seqs, i - 1) = Len(d)
      BY <1>1, <1>5, <2>1 DEF Upto
    <2>4. c = d \o b
      BY <1>2, <1>5, <1>9
    <2>5. /\ Len(d \o b) = Len(d) + Len(b)
          /\ \A t \in 1 .. Len(d) + Len(b) :
               (d \o b)[t] = IF t <= Len(d) THEN d[t] ELSE b[t - Len(d)]
      <3>1. d \in Seq(Elements) /\ b \in Seq(Elements)
        BY <1>7, <2>2
      <3> QED
        BY <3>1, ConcatProperties
    <2>6. /\ Len(c) = Len(d) + Len(b)
          /\ \A t \in 1 .. Len(c) : c[t] = IF t <= Len(d) THEN d[t] ELSE b[t - Len(d)]
      BY <2>4, <2>5
    <2>7. Upto(seqs, i) = Upto(seqs, i - 1) + Len(b)
      BY <1>6, <2>3, <2>6
    <2>8. \A t \in 1 .. Upto(seqs, i) :
            c[t] = IF t <= Upto(seqs, i - 1) THEN d[t] ELSE b[t - Upto(seqs, i - 1)]
      BY <1>6, <2>3, <2>6
    <2>9. Upto(seqs, i - 1) \in Nat /\ Upto(seqs, i) \in Nat
      BY <1>6, <1>7, <2>2, <2>3
    <2> QED
      BY <1>1, <1>5, <1>7, <2>7, <2>8, <2>9
  <1> QED
    BY <1>8, <1>9

(* A part stays where it is as others are added. *)
LEMMA PartsStay ==
  ASSUME NEW n \in Nat, n >= 1, NEW seqs, n = Len(seqs), \A i \in 1 .. n : seqs[i] \in Seq(Elements),
         NEW i \in 1 .. n
  PROVE  \A j \in i .. n :
           /\ Upto(seqs, i) <= Upto(seqs, j)
           /\ \A t \in 1 .. Upto(seqs, i) : Flattened(seqs)[j][t] = Flattened(seqs)[i][t]
  <1> DEFINE Stays(j) == /\ Upto(seqs, i) <= Upto(seqs, j)
                         /\ \A t \in 1 .. Upto(seqs, i) :
                              Flattened(seqs)[j][t] = Flattened(seqs)[i][t]
             Bad == {j \in i .. n : ~ Stays(j)}
  <1>1. CASE Bad = {}
    BY <1>1
  <1>2. CASE Bad # {}
    <2>1. PICK j \in Bad : \A k \in Bad : j <= k
      <3>1. Bad \subseteq Nat
        OBVIOUS
      <3> HIDE DEF Bad
      <3> QED
        BY <1>2, <3>1, LeastElement
    <2>2. /\ Upto(seqs, i) \in Nat
          /\ \A k \in 1 .. n :
               /\ Upto(seqs, k - 1) \in Nat /\ Upto(seqs, k) \in Nat
               /\ Upto(seqs, k) = Upto(seqs, k - 1) + Len(seqs[k])
               /\ Len(seqs[k]) \in Nat
               /\ \A t \in 1 .. Upto(seqs, k) :
                    t <= Upto(seqs, k - 1) => Flattened(seqs)[k][t] = Flattened(seqs)[k - 1][t]
      <3>1. \A k \in 1 .. n :
              /\ Flattened(seqs)[k] \in Seq(Elements)
              /\ Upto(seqs, k - 1) \in Nat /\ Upto(seqs, k) \in Nat
              /\ Upto(seqs, k) = Upto(seqs, k - 1) + Len(seqs[k])
              /\ \A t \in 1 .. Upto(seqs, k) :
                   Flattened(seqs)[k][t] =
                     IF t <= Upto(seqs, k - 1) THEN Flattened(seqs)[k - 1][t]
                     ELSE seqs[k][t - Upto(seqs, k - 1)]
        <4>1. PartsAre(seqs, n)
          BY FlattenedParts
        <4> QED
          BY <4>1 DEF PartsAre
      <3>2. \A k \in 1 .. n : Len(seqs[k]) \in Nat
        BY LenProperties
      <3> QED
        BY <3>1, <3>2
    <2>3. j \in i .. n /\ j \in 1 .. n /\ ~ Stays(j)
      BY <2>1
    <2>4. j # i
      <3>1. Stays(i)
        BY <2>2
      <3> QED
        BY <2>3, <3>1
    <2>5. j - 1 \in i .. n /\ ~ j <= j - 1
      BY <2>3, <2>4
    <2>6. Stays(j - 1)
      BY <2>1, <2>5
    <2>7. PICK a, b, c : a = Upto(seqs, i) /\ b = Upto(seqs, j - 1) /\ c = Upto(seqs, j)
      OBVIOUS
    <2>8. a \in Nat /\ b \in Nat /\ c \in Nat /\ a <= b /\ b <= c
      BY <2>2, <2>3, <2>6, <2>7
    <2>9. ASSUME NEW t \in 1 .. a PROVE Flattened(seqs)[j][t] = Flattened(seqs)[i][t]
      <3>1. t \in 1 .. c /\ t <= b
        BY <2>8
      <3>2. Flattened(seqs)[j][t] = Flattened(seqs)[j - 1][t]
        BY <2>2, <2>3, <2>7, <3>1
      <3> QED
        BY <2>6, <2>7, <3>2
    <2>10. Stays(j)
      BY <2>7, <2>8, <2>9
    <2> QED
      BY <2>3, <2>10
  <1> QED
    BY <1>1, <1>2

(* s is the first n sequences, one behind the other. *)
HasAll(seqs, s, n) ==
  /\ s \in Seq(Elements) /\ Len(s) = Upto(seqs, n) /\ Upto(seqs, 0) = 0
  /\ \A i \in 1 .. n :
       /\ Upto(seqs, i - 1) \in Nat /\ Upto(seqs, i) \in Nat
       /\ Upto(seqs, i) = Upto(seqs, i - 1) + Len(seqs[i])
       /\ Upto(seqs, i) <= Len(s)
       /\ \A t \in 1 .. Len(seqs[i]) : s[Upto(seqs, i - 1) + t] = seqs[i][t]

(* The flat sequence has the i-th behind the end of the one before it. *)
LEMMA FlatHas ==
  ASSUME NEW n \in Nat, n >= 1, NEW seqs, n = Len(seqs), \A i \in 1 .. n : seqs[i] \in Seq(Elements),
         NEW s, s = FlattenSeq(seqs)
  PROVE  HasAll(seqs, s, n)
  <1>1. s = Flattened(seqs)[n] /\ n \in 1 .. n /\ n # 0
    BY FlattenIs
  <1>2. s \in Seq(Elements) /\ Len(s) = Upto(seqs, n) /\ Upto(seqs, 0) = 0
    <2>1. Flattened(seqs)[n] \in Seq(Elements)
      <3>1. PartsAre(seqs, n)
        BY FlattenedParts
      <3> QED
        BY <1>1, <3>1 DEF PartsAre
    <2> QED
      BY <1>1, <2>1 DEF Upto
  <1> SUFFICES ASSUME NEW i \in 1 .. n
               PROVE  /\ Upto(seqs, i - 1) \in Nat /\ Upto(seqs, i) \in Nat
                      /\ Upto(seqs, i) = Upto(seqs, i - 1) + Len(seqs[i])
                      /\ Upto(seqs, i) <= Len(s)
                      /\ \A t \in 1 .. Len(seqs[i]) : s[Upto(seqs, i - 1) + t] = seqs[i][t]
    BY <1>2 DEF HasAll
  <1>3. PICK a, b : a = Upto(seqs, i - 1) /\ b = Upto(seqs, i)
    OBVIOUS
  <1>4. /\ a \in Nat /\ b \in Nat /\ b = a + Len(seqs[i]) /\ Len(seqs[i]) \in Nat
        /\ \A t \in 1 .. b :
             Flattened(seqs)[i][t] = IF t <= a THEN Flattened(seqs)[i - 1][t] ELSE seqs[i][t - a]
    <2>1. Len(seqs[i]) \in Nat
      BY LenProperties
    <2>2. \A k \in 1 .. n :
            /\ Flattened(seqs)[k] \in Seq(Elements)
            /\ Upto(seqs, k - 1) \in Nat /\ Upto(seqs, k) \in Nat
            /\ Upto(seqs, k) = Upto(seqs, k - 1) + Len(seqs[k])
            /\ \A t \in 1 .. Upto(seqs, k) :
                 Flattened(seqs)[k][t] =
                   IF t <= Upto(seqs, k - 1) THEN Flattened(seqs)[k - 1][t]
                   ELSE seqs[k][t - Upto(seqs, k - 1)]
      <3>1. PartsAre(seqs, n)
        BY FlattenedParts
      <3> QED
        BY <3>1 DEF PartsAre
    <2> QED
      BY <1>3, <2>1, <2>2
  <1>5. b <= Len(s) /\ \A t \in 1 .. b : s[t] = Flattened(seqs)[i][t]
    <2>1. n \in i .. n
      OBVIOUS
    <2> QED
      BY <1>1, <1>2, <1>3, <2>1, PartsStay
  <1>6. ASSUME NEW t \in 1 .. Len(seqs[i]) PROVE s[a + t] = seqs[i][t]
    <2>1. a + t \in 1 .. b /\ ~ a + t <= a /\ a + t - a = t
      BY <1>4
    <2> QED
      BY <1>4, <1>5, <2>1
  <1> QED
    BY <1>3, <1>4, <1>5, <1>6

(* Lists *)

Bulks(vs) == [i \in DOMAIN vs |-> Bulk(vs[i])]

(* One turn of ListAt. *)
ListStep(s, f, n) ==
  IF n = 0 THEN [reply |-> <<"list", <<>>>>, next |-> 0 + 1]
  ELSE LET item == BulkAt(s, f[n - 1].next)
       IN IF f[n - 1].next = 0 \/ item.next = 0 THEN Broken
          ELSE [reply |-> <<"list", Append(f[n - 1].reply[2], item.reply[2])>>,
                next  |-> item.next]
Items(s, count) == CHOOSE f : f = [n \in 0 .. count |-> ListStep(s, f, n)]

LEMMA ListAtIsItems ==
  ASSUME NEW s, NEW count
  PROVE  ListAt(s, 0, count) = Items(s, count)[count]
  BY Zenon DEF ListAt, Items, ListStep

(* Whatever takes the turns of ListAt comes to what it comes to. *)
LEMMA ItemsAre ==
  ASSUME NEW s, NEW n \in Nat, NEW g, \A k \in 0 .. n : g[k] = ListStep(s, g, k)
  PROVE  ListAt(s, 0, n) = g[n]
  <1> DEFINE e == [k \in 0 .. n |-> g[k]]
  <1>1. e = [k \in 0 .. n |-> ListStep(s, e, k)]
    <2>1. PICK d : d = e
      OBVIOUS
    <2>2. \A k \in 0 .. n : d[k] = g[k]
      BY <2>1
    <2>3. ASSUME NEW k \in 0 .. n PROVE g[k] = ListStep(s, d, k)
      <3>1. k # 0 => k - 1 \in 0 .. n
        OBVIOUS
      <3>2. k # 0 => d[k - 1] = g[k - 1]
        BY <2>2, <3>1
      <3> QED
        BY <3>2 DEF ListStep
    <2>4. d = [k \in 0 .. n |-> g[k]]
      BY <2>1
    <2>5. d = [k \in 0 .. n |-> ListStep(s, d, k)]
      BY <2>3, <2>4
    <2> QED
      BY <2>1, <2>5
  <1> HIDE DEF e
  <1>2. PICK h : h = Items(s, n)
    OBVIOUS
  <1>3. h = [k \in 0 .. n |-> ListStep(s, h, k)]
    BY <1>1, <1>2, Zenon DEF Items
  <1>4. \A k \in 0 .. n : h[k] = ListStep(s, h, k)
    BY <1>3
  <1> DEFINE Bad == {k \in 0 .. n : h[k] # g[k]}
  <1>5. CASE Bad = {}
    <2>1. n \in 0 .. n
      OBVIOUS
    <2>2. h[n] = g[n]
      BY <1>5, <2>1
    <2> QED
      BY <1>2, <2>2, ListAtIsItems
  <1>6. CASE Bad # {}
    <2>1. PICK k \in Bad : \A j \in Bad : k <= j
      <3>1. Bad \subseteq Nat
        OBVIOUS
      <3> HIDE DEF Bad
      <3> QED
        BY <1>6, <3>1, LeastElement
    <2>2. k \in 0 .. n /\ h[k] # g[k]
      BY <2>1
    <2>3. k # 0 => k - 1 \in 0 .. n /\ ~ k <= k - 1
      BY <2>2
    <2>4. k # 0 => h[k - 1] = g[k - 1]
      BY <2>1, <2>3
    <2>5. ListStep(s, h, k) = ListStep(s, g, k)
      BY <2>4 DEF ListStep
    <2> QED
      BY <1>4, <2>2, <2>5
  <1> QED
    BY <1>5, <1>6

(* A list is read as the values it was made of. *)
LEMMA ListIsRead ==
  ASSUME NEW S, NEW vs \in Seq(S), NEW n \in Nat, n = Len(vs), n >= 1,
         \A i \in 1 .. n : IsWhole(vs[i]),
         NEW s, s = <<Line("*", n)>> \o FlattenSeq(Bulks(vs))
  PROVE  /\ Len(s) \in Nat /\ Len(s) >= 1 /\ s[1] = <<"*", n>>
         /\ ListAt(s, 0, n) = [reply |-> <<"list", vs>>, next |-> Len(s)]
  <1>1. PICK seqs, flat, upto : /\ seqs = Bulks(vs) /\ flat = FlattenSeq(seqs)
                                /\ upto = [i \in 0 .. n |-> Upto(seqs, i)]
    OBVIOUS
  <1>2. /\ n = Len(seqs)
        /\ \A i \in 1 .. n : seqs[i] = Bulk(vs[i]) /\ seqs[i] \in Seq(Elements)
    <2>1. seqs = [i \in 1 .. n |-> Bulk(vs[i])]
      BY <1>1 DEF Bulks
    <2>2. \A i \in 1 .. n : Bulk(vs[i]) \in Seq(Elements)
      BY BulkIs
    <2> QED
      BY <2>1, <2>2
  <1>3. /\ flat \in Seq(Elements) /\ Len(flat) = Upto(seqs, n) /\ Upto(seqs, 0) = 0
        /\ \A i \in 1 .. n :
             /\ Upto(seqs, i - 1) \in Nat /\ Upto(seqs, i) \in Nat
             /\ Upto(seqs, i) = Upto(seqs, i - 1) + Len(seqs[i])
             /\ Upto(seqs, i) <= Len(flat)
             /\ \A t \in 1 .. Len(seqs[i]) : flat[Upto(seqs, i - 1) + t] = seqs[i][t]
    <2>1. n = Len(seqs) /\ \A i \in 1 .. n : seqs[i] \in Seq(Elements)
      BY <1>2
    <2>2. flat = FlattenSeq(seqs)
      BY <1>1
    <2>3. HasAll(seqs, flat, n)
      BY <2>1, <2>2, FlatHas
    <2> QED
      BY <2>3 DEF HasAll
  <1>4. /\ s \in Seq(Elements) /\ Len(s) = 1 + Len(flat) /\ Len(flat) \in Nat
        /\ s[1] = <<"*", n>> /\ \A t \in 1 .. Len(flat) : s[1 + t] = flat[t]
    <2>1. PICK line, head : line = <<"*", n>> /\ head = <<line>>
      OBVIOUS
    <2>2. line \in Elements
      BY <2>1 DEF Elements
    <2>3. head \in Seq(Elements) /\ Len(head) = 1 /\ head[1] = line
      BY <2>1, <2>2
    <2>4. s = head \o flat
      BY <1>1, <2>1 DEF Line
    <2>5. /\ head \o flat \in Seq(Elements)
          /\ Len(head \o flat) = Len(head) + Len(flat)
          /\ \A t \in 1 .. Len(head) + Len(flat) :
               (head \o flat)[t] = IF t <= Len(head) THEN head[t] ELSE flat[t - Len(head)]
      <3>1. head \in Seq(Elements) /\ flat \in Seq(Elements)
        BY <1>3, <2>3
      <3> QED
        BY <3>1, ConcatProperties
    <2>6. Len(flat) \in Nat
      BY <1>3
    <2>7. /\ s \in Seq(Elements) /\ Len(s) = 1 + Len(flat)
          /\ \A t \in 1 .. 1 + Len(flat) : s[t] = IF t <= 1 THEN head[t] ELSE flat[t - 1]
      BY <2>3, <2>4, <2>5
    <2>8. \A t \in 1 .. Len(flat) : s[1 + t] = flat[t]
      <3> TAKE t \in 1 .. Len(flat)
      <3>1. 1 + t \in 1 .. 1 + Len(flat) /\ ~ 1 + t <= 1 /\ 1 + t - 1 = t
        BY <2>6
      <3> QED
        BY <2>7, <3>1
    <2>9. s[1] = line
      BY <2>3, <2>6, <2>7
    <2> QED
      BY <2>1, <2>6, <2>7, <2>8, <2>9
  <1>5. \A i \in 0 .. n : upto[i] = Upto(seqs, i) /\ upto[i] \in Nat
    <2> TAKE i \in 0 .. n
    <2>1. CASE i = 0
      BY <1>1, <1>3, <2>1
    <2>2. CASE i # 0
      BY <1>1, <1>3, <2>2
    <2> QED
      BY <2>1, <2>2
  <1>6. \A i \in 1 .. n : i - 1 \in 0 .. n /\ i \in 0 .. n
    OBVIOUS
  <1>7. ASSUME NEW i \in 1 .. n
        PROVE  BulkAt(s, 1 + upto[i - 1]) = [reply |-> <<"bulk", vs[i]>>, next |-> 1 + upto[i]]
    <2>1. PICK b, a : b = seqs[i] /\ a = upto[i - 1]
      OBVIOUS
    <2>2. b = Bulk(vs[i]) /\ IsWhole(vs[i]) /\ Len(b) \in Nat /\ a \in Nat
      BY <1>2, <1>5, <1>6, <2>1
    <2>3. /\ upto[i] = a + Len(b) /\ upto[i] <= Len(flat)
          /\ \A t \in 1 .. Len(b) : flat[a + t] = b[t]
      BY <1>3, <1>5, <1>6, <2>1
    <2>4. ASSUME NEW t \in 1 .. Len(b) PROVE s[1 + a + t] = b[t]
      <3>1. a + t \in 1 .. Len(flat) /\ 1 + (a + t) = 1 + a + t
        BY <1>4, <2>2, <2>3
      <3> QED
        BY <1>4, <2>3, <3>1
    <2>5. PICK c : c = 1 + a
      OBVIOUS
    <2>6. c \in Nat /\ c + Len(b) <= Len(s) /\ c + Len(b) = 1 + upto[i]
      BY <1>4, <2>2, <2>3, <2>5
    <2>7. \A t \in 1 .. Len(b) : s[c + t] = b[t]
      BY <2>4, <2>5
    <2>8. BulkAt(s, c) = [reply |-> <<"bulk", vs[i]>>, next |-> c + Len(b)]
      <3>1. PICK v : v = vs[i]
        OBVIOUS
      <3>2. IsWhole(v) /\ b = Bulk(v) /\ s \in Seq(Elements)
        BY <1>4, <2>2, <3>1
      <3>3. BulkAt(s, c) = [reply |-> <<"bulk", v>>, next |-> c + Len(b)]
        BY <2>6, <2>7, <3>2, BulkIsRead
      <3> QED
        BY <3>1, <3>3
    <2> QED
      BY <2>1, <2>5, <2>6, <2>8
  <1> DEFINE g == [k \in 0 .. n |-> [reply |-> <<"list", SubSeq(vs, 1, k)>>, next |-> 1 + upto[k]]]
  <1>8. \A k \in 0 .. n : g[k] = [reply |-> <<"list", SubSeq(vs, 1, k)>>, next |-> 1 + upto[k]]
    OBVIOUS
  <1> HIDE DEF g
  <1>9. ASSUME NEW k \in 0 .. n PROVE g[k] = ListStep(s, g, k)
    <2>1. CASE k = 0
      <3>1. SubSeq(vs, 1, 0) = << >>
        BY SubSeqEmpty
      <3>2. upto[0] = 0
        BY <1>1, <1>3
      <3>3. g[0] = [reply |-> <<"list", SubSeq(vs, 1, 0)>>, next |-> 1 + upto[0]]
        BY <1>8, <2>1
      <3>4. g[0] = [reply |-> <<"list", << >> >>, next |-> 0 + 1]
        BY <3>1, <3>2, <3>3
      <3>5. ListStep(s, g, 0) = [reply |-> <<"list", << >> >>, next |-> 0 + 1]
        BY DEF ListStep
      <3> QED
        BY <2>1, <3>4, <3>5
    <2>2. CASE k # 0
      <3>1. k \in 1 .. n /\ k - 1 \in 0 .. n
        BY <2>2
      <3>2. PICK item, before : item = BulkAt(s, g[k - 1].next) /\ before = g[k - 1]
        OBVIOUS
      <3>3. before.next = 1 + upto[k - 1] /\ before.reply = <<"list", SubSeq(vs, 1, k - 1)>>
        <4>1. PICK j : j = k - 1
          OBVIOUS
        <4>2. j \in 0 .. n /\ before = g[j]
          BY <3>1, <3>2, <4>1
        <4>3. before = [reply |-> <<"list", SubSeq(vs, 1, j)>>, next |-> 1 + upto[j]]
          BY <1>8, <4>2
        <4>4. before.next = 1 + upto[j] /\ before.reply = <<"list", SubSeq(vs, 1, j)>>
          BY <4>3
        <4> QED
          BY <4>1, <4>4
      <3>4. item.reply = <<"bulk", vs[k]>> /\ item.next = 1 + upto[k]
        <4>1. item = BulkAt(s, 1 + upto[k - 1])
          BY <3>2, <3>3
        <4>2. item = [reply |-> <<"bulk", vs[k]>>, next |-> 1 + upto[k]]
          BY <1>7, <3>1, <4>1
        <4> QED
          BY <4>2
      <3>5. before.next # 0 /\ item.next # 0
        BY <1>5, <3>1, <3>3, <3>4
      <3>6. Append(SubSeq(vs, 1, k - 1), vs[k]) = SubSeq(vs, 1, k)
        <4>1. vs \in Seq(S) /\ 1 \in 1 .. Len(vs) /\ k \in 1 .. Len(vs)
          BY <3>1
        <4>2. SubSeq(vs, 1, k) = SubSeq(vs, 1, k - 1) \o << vs[k] >>
          BY <4>1, SubSeqRecursiveSecond
        <4>3. SubSeq(vs, 1, k - 1) \in Seq(S) /\ vs[k] \in S
          <5>1. \A i \in 1 .. k - 1 : vs[i] \in S
            BY <3>1
          <5> QED
            BY <3>1, <5>1, SubSeqProperties
        <4> QED
          BY <4>2, <4>3, AppendIsConcat
      <3>7. ListStep(s, g, k) = [reply |-> <<"list", Append(before.reply[2], item.reply[2])>>,
                                 next |-> item.next]
        BY <2>2, <3>2, <3>5 DEF ListStep
      <3>8. before.reply[2] = SubSeq(vs, 1, k - 1) /\ item.reply[2] = vs[k]
        BY <3>3, <3>4
      <3>9. g[k] = [reply |-> <<"list", SubSeq(vs, 1, k)>>, next |-> 1 + upto[k]]
        BY <1>8
      <3> QED
        BY <3>4, <3>6, <3>7, <3>8, <3>9
    <2> QED
      BY <2>1, <2>2
  <1>10. ListAt(s, 0, n) = g[n]
    BY <1>9, ItemsAre
  <1>11. g[n] = [reply |-> <<"list", vs>>, next |-> Len(s)]
    <2>1. n \in 0 .. n
      OBVIOUS
    <2>2. SubSeq(vs, 1, n) = vs
      BY SubSeqFull
    <2>3. 1 + upto[n] = Len(s)
      BY <1>3, <1>4, <1>5, <2>1
    <2> QED
      BY <1>8, <2>1, <2>2, <2>3
  <1>12. Len(s) \in Nat /\ Len(s) >= 1
    BY <1>4
  <1> QED
    BY <1>4, <1>10, <1>11, <1>12

(* A reader gets each answer back. *)

IsRead(s, reply) == ReplyAt(s, 0) = [reply |-> reply, next |-> Len(s)]

LEMMA LineIsRead ==
  ASSUME NEW mark, mark # "$", mark # "*", NEW s, s = <<Line(mark, 0)>>
  PROVE  IsRead(s, <<"line", mark>>)
  <1>1. Len(s) = 1 /\ s[1] = <<mark, 0>>
    BY DEF Line
  <1>2. s[0 + 1][1] = mark /\ 0 + 1 = Len(s) /\ ~ 0 >= Len(s)
    BY <1>1
  <1>3. ReplyAt(s, 0) = [reply |-> <<"line", s[0 + 1][1]>>, next |-> 0 + 1]
    BY <1>2 DEF ReplyAt
  <1> QED
    BY <1>2, <1>3 DEF IsRead

LEMMA OneIsRead ==
  ASSUME NEW v, IsWhole(v), NEW s, s = Bulk(v)
  PROVE  IsRead(s, <<"bulk", v>>)
  <1>1. /\ s \in Seq(Elements) /\ Len(s) \in Nat /\ Len(s) >= 1
        /\ s[1] = <<"$", -1>> \/ s[1] = <<"$", Len(v)>>
    BY BulkIs
  <1>2. s[0 + 1][1] = "$" /\ ~ 0 >= Len(s)
    BY <1>1
  <1>3. ReplyAt(s, 0) = BulkAt(s, 0)
    BY <1>2 DEF ReplyAt
  <1>4. PICK n : n = 0
    OBVIOUS
  <1>5. n \in Nat /\ n + Len(s) <= Len(s) /\ n + Len(s) = Len(s)
        /\ \A i \in 1 .. Len(s) : s[n + i] = s[i]
    BY <1>1, <1>4
  <1>6. BulkAt(s, n) = [reply |-> <<"bulk", v>>, next |-> n + Len(s)]
    BY <1>1, <1>5, BulkIsRead
  <1> QED
    BY <1>3, <1>4, <1>5, <1>6 DEF IsRead

LEMMA ArgumentsOfNone == Arguments(<< >>) = << >>
  <1>1. PICK argv : argv = << >>
    OBVIOUS
  <1>2. Len(argv) = 0 /\ DOMAIN argv = {}
    BY <1>1
  <1>3. CountLine(argv) = << >>
    BY <1>2 DEF CountLine
  <1>4. Bulks(argv) = << >>
    BY <1>2 DEF Bulks
  <1>5. FlattenSeq(<< >>) = << >>
    <2>1. PICK seqs : seqs = << >>
      OBVIOUS
    <2>2. Len(seqs) = 0
      BY <2>1
    <2>3. FlattenSeq(seqs) = seqs
      BY <2>2, Zenon DEF FlattenSeq
    <2> QED
      BY <2>1, <2>3
  <1>6. << >> \o << >> = << >>
    OBVIOUS
  <1>7. Arguments(argv) = CountLine(argv) \o FlattenSeq(Bulks(argv))
    BY Zenon DEF Arguments, Bulks
  <1> QED
    BY <1>1, <1>3, <1>4, <1>5, <1>6, <1>7

LEMMA ArgumentsOfOne ==
  ASSUME NEW argv, NEW v, argv = <<v>>, IsWhole(v)
  PROVE  Arguments(argv) = Bulk(v)
  <1>1. Len(argv) = 1 /\ DOMAIN argv = 1 .. 1 /\ argv[1] = v
    OBVIOUS
  <1>2. CountLine(argv) = << >>
    BY <1>1 DEF CountLine
  <1>3. PICK seqs, b, n : seqs = Bulks(argv) /\ b = Bulk(v) /\ n = 1
    OBVIOUS
  <1>4. n \in Nat /\ n >= 1 /\ n = Len(seqs) /\ seqs[1] = b
    <2>1. seqs = [i \in 1 .. 1 |-> Bulk(argv[i])]
      BY <1>1, <1>3 DEF Bulks
    <2>2. Len(seqs) = 1 /\ seqs[1] = Bulk(argv[1])
      BY <2>1
    <2> QED
      BY <1>1, <1>3, <2>2
  <1>5. FlattenSeq(seqs) = Flattened(seqs)[n] /\ FlattensTo(seqs, Flattened(seqs), n)
    BY <1>4, FlattenIs
  <1>6. Flattened(seqs)[1] = seqs[1]
    BY <1>3, <1>5 DEF FlattensTo, FlattenStep
  <1>7. FlattenSeq(seqs) = b
    BY <1>3, <1>4, <1>5, <1>6
  <1>8. b \in Seq(Elements)
    BY <1>3, BulkIs
  <1>9. Arguments(argv) = CountLine(argv) \o FlattenSeq(Bulks(argv))
    BY Zenon DEF Arguments, Bulks
  <1>10. << >> \o b = b
    BY <1>8
  <1> QED
    BY <1>2, <1>3, <1>7, <1>9, <1>10

LEMMA ManyAreRead ==
  ASSUME NEW S, NEW vs \in Seq(S), Len(vs) > 1, \A i \in 1 .. Len(vs) : IsWhole(vs[i]),
         NEW s, s = Arguments(vs)
  PROVE  IsRead(s, <<"list", vs>>)
  <1>1. PICK n : n = Len(vs)
    OBVIOUS
  <1>2. n \in Nat /\ n >= 1 /\ \A i \in 1 .. n : IsWhole(vs[i])
    BY <1>1
  <1>3. s = <<Line("*", n)>> \o FlattenSeq(Bulks(vs))
    <2>1. Arguments(vs) = CountLine(vs) \o FlattenSeq(Bulks(vs))
      BY Zenon DEF Arguments, Bulks
    <2>2. CountLine(vs) = <<Line("*", n)>>
      BY <1>1 DEF CountLine
    <2> QED
      BY <2>1, <2>2
  <1>4. /\ Len(s) \in Nat /\ Len(s) >= 1 /\ s[1] = <<"*", n>>
        /\ ListAt(s, 0, n) = [reply |-> <<"list", vs>>, next |-> Len(s)]
    BY <1>1, <1>2, <1>3, ListIsRead
  <1>5. s[0 + 1][1] = "*" /\ s[0 + 1][2] = n /\ ~ 0 >= Len(s)
    BY <1>4
  <1>6. ReplyAt(s, 0) = ListAt(s, 0, n)
    BY <1>5 DEF ReplyAt
  <1> QED
    BY <1>4, <1>6 DEF IsRead

(* The bytes written for a command are read as what the command means. *)

CanBeRead(s, reply) ==
  \/ reply = <<"list", <<>>>>
  \/ reply[1] = "list" /\ IsCut(reply[2])
  \/ reply[1] = "bulk" /\ IsCut(<<reply[2]>>)
  \/ IsRead(s, reply)

LEMMA ValuesAreWhole ==
  ASSUME NEW vs, NEW n, DOMAIN vs = 1 .. n, \A i \in 1 .. n : vs[i] \in Values \cup {None},
         ~ IsCut(vs)
  PROVE  \A i \in 1 .. n : IsWhole(vs[i])
  <1> TAKE i \in 1 .. n
  <1>1. vs[i] \in Range(vs)
    BY DEF Range
  <1>2. vs[i] = None \/ ToNul(vs[i]) = vs[i]
    BY <1>1 DEF IsCut
  <1>3. vs[i] # None => vs[i] \in Seq(Nat)
    BY ServerAssumption
  <1> QED
    BY <1>2, <1>3 DEF IsWhole

LEMMA OneIsWhole ==
  ASSUME NEW v \in Values \cup {None}, ~ IsCut(<<v>>)
  PROVE  IsWhole(v)
  <1>1. PICK vs, n : vs = <<v>> /\ n = 1
    OBVIOUS
  <1>2. DOMAIN vs = 1 .. n /\ vs[1] = v /\ 1 \in 1 .. n
    BY <1>1
  <1>3. \A i \in 1 .. n : vs[i] \in Values \cup {None}
    BY <1>1, <1>2
  <1>4. \A i \in 1 .. n : IsWhole(vs[i])
    BY <1>1, <1>2, <1>3, ValuesAreWhole
  <1> QED
    BY <1>2, <1>4

LEMMA OneValueIsRead ==
  ASSUME NEW v \in Values \cup {None}, NEW s, s = Bulk(v)
  PROVE  CanBeRead(s, <<"bulk", v>>)
  <1>1. CASE IsCut(<<v>>)
    <2>1. PICK reply : reply = <<"bulk", v>>
      OBVIOUS
    <2>2. reply[1] = "bulk" /\ reply[2] = v
      BY <2>1
    <2> QED
      BY <1>1, <2>1, <2>2 DEF CanBeRead
  <1>2. CASE ~ IsCut(<<v>>)
    <2>1. IsWhole(v)
      BY <1>2, OneIsWhole
    <2> QED
      BY <2>1, OneIsRead DEF CanBeRead
  <1> QED
    BY <1>1, <1>2

LEMMA StoredIs ==
  ASSUME TypeOK, NEW m \in Messages, m.cmd \in {"get", "mget"},
         NEW vs, vs = Stored(m.args)
  PROVE  /\ vs \in Seq(Values \cup {None}) /\ Len(vs) = Len(m.args) /\ Len(vs) \in Nat
         /\ DOMAIN vs = 1 .. Len(vs)
         /\ \A i \in 1 .. Len(vs) : vs[i] \in Values \cup {None} /\ vs[i] = store[m.args[i]]
  <1>1. PICK keys, n : keys = m.args /\ n = Len(keys)
    OBVIOUS
  <1>2. n \in Nat /\ DOMAIN keys = 1 .. n
    <2>1. keys \in Seq(Keys \cup Values)
      BY <1>1, ServerAssumption
    <2> QED
      BY <1>1, <2>1
  <1>3. \A i \in 1 .. n : keys[i] \in Keys
    BY <1>1, <1>2, ServerAssumption
  <1>4. vs = [i \in 1 .. n |-> store[keys[i]]]
    BY <1>1, <1>2 DEF Stored
  <1>5. \A i \in 1 .. n : store[keys[i]] \in Values \cup {None}
    BY <1>3 DEF TypeOK
  <1>6. vs \in [1 .. n -> Values \cup {None}]
    BY <1>4, <1>5
  <1>7. vs \in Seq(Values \cup {None}) /\ Len(vs) = n /\ DOMAIN vs = 1 .. n
    BY <1>2, <1>6
  <1> QED
    BY <1>1, <1>2, <1>4, <1>5, <1>7

LEMMA WrittenIsRead ==
  ASSUME TypeOK, NEW m \in Messages
  PROVE  CanBeRead(Written(m), Meant(m))
  <1>1. PICK s, reply : s = Written(m) /\ reply = Meant(m)
    OBVIOUS
  <1> SUFFICES CanBeRead(s, reply)
    BY <1>1
  <1>2. ASSUME NEW mark, mark # "$", mark # "*", s = <<Line(mark, 0)>>, reply = <<"line", mark>>
        PROVE  CanBeRead(s, reply)
    BY <1>2, LineIsRead DEF CanBeRead
  <1>3. CASE m.cmd = "ping"
    <2>1. s = <<Line("+PONG", 0)>> /\ reply = <<"line", "+PONG">>
      BY <1>1, <1>3 DEF Written, Meant, IsSet, ResponseDetch
    <2> QED
      BY <1>2, <2>1
  <1>4. CASE m.cmd \in {"mset", "del"} \/ IsSet(m)
    <2>1. s = <<Line("+OK", 0)>> \o Arguments(<< >>) /\ reply = <<"line", "+OK">>
      BY <1>1, <1>4 DEF Written, Meant, IsSet, ResponseDetch
    <2>2. PICK line : line = <<Line("+OK", 0)>>
      OBVIOUS
    <2>3. line \o << >> = line
      BY <2>2
    <2>4. s = <<Line("+OK", 0)>>
      BY <2>1, <2>2, <2>3, ArgumentsOfNone
    <2> QED
      BY <1>2, <2>1, <2>4
  <1>5. CASE m.cmd = "exists"
    <2>1. /\ s = <<Line(IF store[m.args[1]] = None THEN ":-1" ELSE ":1", 0)>>
          /\ reply = <<"line", IF store[m.args[1]] = None THEN ":-1" ELSE ":1">>
      BY <1>1, <1>5 DEF Written, Meant, IsSet
    <2>2. CASE store[m.args[1]] = None
      BY <1>2, <2>1, <2>2
    <2>3. CASE store[m.args[1]] # None
      BY <1>2, <2>1, <2>3
    <2> QED
      BY <2>2, <2>3
  <1>6. CASE m.cmd \in {"get", "mget"} /\ Len(m.args) = 1
    <2>1. PICK vs, v : vs = Stored(m.args) /\ v = store[m.args[1]]
      OBVIOUS
    <2>2. reply = <<"bulk", v>>
      BY <1>1, <1>6, <2>1 DEF Meant, IsSet
    <2>3. vs \in Seq(Values \cup {None}) /\ Len(vs) = 1 /\ v \in Values \cup {None} /\ vs[1] = v
      BY <1>6, <2>1, StoredIs
    <2>4. CASE m.cmd = "get" /\ v = None
      <3>1. s = Bulk(v)
        BY <1>1, <1>6, <2>1, <2>4 DEF Written, IsSet, ResponseDetch
      <3> QED
        BY <2>2, <2>3, <3>1, OneValueIsRead
    <2>5. CASE m.cmd = "mget" \/ v # None
      <3>1. s = Arguments(vs)
        BY <1>1, <1>6, <2>1, <2>5 DEF Written, IsSet, ResponseDetch
      <3>2. vs = <<v>>
        BY <2>3
      <3>3. CASE IsWhole(v)
        <4>1. s = Bulk(v)
          BY <3>1, <3>2, <3>3, ArgumentsOfOne
        <4> QED
          BY <2>2, <2>3, <4>1, OneValueIsRead
      <3>4. CASE ~ IsWhole(v)
        <4>1. IsCut(<<v>>)
          BY <2>3, <3>4, OneIsWhole
        <4>2. reply[1] = "bulk" /\ reply[2] = v
          BY <2>2
        <4> QED
          BY <4>1, <4>2 DEF CanBeRead
      <3> QED
        BY <3>3, <3>4
    <2> QED
      BY <1>6, <2>4, <2>5
  <1>7. CASE m.cmd = "mget" /\ Len(m.args) # 1
    <2>1. PICK vs : vs = Stored(m.args)
      OBVIOUS
    <2>2. s = Arguments(vs) /\ reply = <<"list", vs>>
      <3>1. s = ResponseDetch("OK_200", vs)
        BY <1>1, <1>7, <2>1 DEF Written, IsSet
      <3> QED
        BY <1>1, <1>7, <2>1, <3>1 DEF Meant, IsSet, ResponseDetch
    <2>3. /\ vs \in Seq(Values \cup {None}) /\ Len(vs) # 1 /\ Len(vs) \in Nat
          /\ DOMAIN vs = 1 .. Len(vs) /\ \A i \in 1 .. Len(vs) : vs[i] \in Values \cup {None}
      BY <1>7, <2>1, StoredIs
    <2>4. CASE Len(vs) = 0
      <3>1. vs = << >>
        BY <2>3, <2>4
      <3> QED
        BY <2>2, <3>1 DEF CanBeRead
    <2>5. CASE IsCut(vs)
      <3>1. reply[1] = "list" /\ reply[2] = vs
        BY <2>2
      <3> QED
        BY <2>5, <3>1 DEF CanBeRead
    <2>6. CASE Len(vs) # 0 /\ ~ IsCut(vs)
      <3>1. \A i \in 1 .. Len(vs) : IsWhole(vs[i])
        BY <2>3, <2>6, ValuesAreWhole
      <3>2. Len(vs) > 1
        BY <2>3, <2>6
      <3> QED
        BY <2>2, <2>3, <3>1, <3>2, ManyAreRead DEF CanBeRead
    <2> QED
      BY <2>4, <2>5, <2>6
  <1>8. CASE m.cmd = "info"
    <2>1. s = Arguments(<<Info>>) /\ reply = <<"bulk", Info>>
      BY <1>1, <1>8 DEF Written, Meant, IsSet, ResponseDetch
    <2>2. IsWhole(Info)
      <3>1. Info \in Seq(Nat) /\ DOMAIN Info = 1 .. 1 /\ Info[1] = 1
        BY DEF Info
      <3>2. {i \in DOMAIN Info : Info[i] = NUL} = {}
        BY <3>1 DEF NUL
      <3>3. ToNul(Info) = Info
        BY <3>2 DEF ToNul
      <3> QED
        BY <3>1, <3>3 DEF IsWhole
    <2>3. PICK v, argv : v = Info /\ argv = <<v>>
      OBVIOUS
    <2>4. s = Bulk(v)
      BY <2>1, <2>2, <2>3, ArgumentsOfOne
    <2> QED
      BY <2>1, <2>2, <2>3, <2>4, OneIsRead DEF CanBeRead
  <1>9. CASE /\ m.cmd \notin {"ping", "mset", "del", "mget", "exists", "info"}
             /\ ~ IsSet(m) /\ (m.cmd = "get" => Len(m.args) # 1)
    <2>1. s = <<Line("-ERROR", 0)>> /\ reply = <<"line", "-ERROR">>
      <3>1. s = ResponseDetch("ERR", << >>)
        BY <1>1, <1>9 DEF Written
      <3>2. reply = <<"line", "-ERROR">>
        BY <1>1, <1>9 DEF Meant
      <3> QED
        BY <3>1, <3>2 DEF ResponseDetch
    <2> QED
      BY <1>2, <2>1
  <1> QED
    BY <1>3, <1>4, <1>5, <1>6, <1>7, <1>8, <1>9

LEMMA AnswerInv ==
  ASSUME IInv, AnswersCanBeRead, [Next]_vars
  PROVE  AnswersCanBeRead'
  <1> DEFINE Fine(a) == a.to # None => CanBeRead(a.bytes, a.reply)
  <1>1. Fine(answer)
    BY Zenon DEF AnswersCanBeRead, CanBeRead, IsRead
  <1>2. Fine(answer')
    <2>1. CASE UNCHANGED answer
      BY <1>1, <2>1
    <2>2. ASSUME NEW fd \in Slots, ReadMessage(fd), answer' # answer PROVE Fine(answer')
      <3>1. PICK m : m = inbox[at[fd]]
        OBVIOUS
      <3>2. m \in Messages
        BY <2>2, <3>1 DEF ReadMessage, IInv, TypeOK, Sockets, Dispatch, Tables, Masked
      <3>3. answer' = [to |-> at[fd], bytes |-> Written(m), reply |-> Meant(m)]
        BY <2>2, <3>1 DEF ReadMessage, Process
      <3>4. answer'.bytes = Written(m) /\ answer'.reply = Meant(m)
        BY <3>3
      <3> QED
        BY <3>2, <3>4, WrittenIsRead DEF IInv
    <2>3. CASE EndOfRound
      <3>1. answer' = NoAnswer
        BY <2>3 DEF EndOfRound
      <3> QED
        BY <3>1 DEF NoAnswer
    <2>4. ASSUME NEW c \in Clients, NEW m \in Messages, NEW how \in {"hungup", "reset"},
                 Connect(c) \/ Send(c, m) \/ HangUp(c, how)
          PROVE  UNCHANGED answer
      BY <2>4 DEF Connect, Send, HangUp, data
    <2> QED
      BY <2>1, <2>2, <2>3, <2>4
      DEF Next, Serve, Stopped, Connect, Send, HangUp, Poll, Accept, AcceptFails, TakeAnswer,
          WriteFails, GoesOn, ReadEnd, vars, data
  <1> QED
    BY <1>2, Zenon DEF AnswersCanBeRead, CanBeRead, IsRead

(* Every answer _process_cmd has response_detch make (siloserver.c:155) is *)
(* one reply to a reader of the protocol, with nothing left behind it, and *)
(* says what the store had for the keys that were asked for, in their      *)
(* order, for any number of keys and any values as long as the answer fits *)
(* the handler's buffer (siloserver.c:79), which the model leaves out: but *)
(* for MGET without keys, and values with a zero byte.                     *)
THEOREM AnswersAlwaysCanBeRead == Spec => []AnswersCanBeRead
  <1>1. Init => AnswersCanBeRead
    BY DEF Init, AnswersCanBeRead, NoAnswer
  <1>2. IInv /\ AnswersCanBeRead /\ [Next]_vars => AnswersCanBeRead'
    BY AnswerInv
  <1> QED
    BY <1>1, <1>2, Invariance, PTL DEF Spec
=============================================================================

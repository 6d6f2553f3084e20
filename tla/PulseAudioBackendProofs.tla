------------------------ MODULE PulseAudioBackendProofs ------------------------
(***************************************************************************)
(* What TLAPS proves of PulseAudioBackend, for any devices, levels and     *)
(* number of events: the types, that no callback writes to a frame that is *)
(* gone, that a refresh returns a report read after it began, that the     *)
(* report of a server which has settled is up to date, that a command      *)
(* which returns Ok was carried out, and that nobody waits for nothing.    *)
(***************************************************************************)
EXTENDS PulseAudioBackend, TLAPS

--------------------------------------------------------------------------------
(* The inductive invariant: what is on its way *)

ListKinds == {"sinks", "sources"}

\* Messages of which the connection never holds two.
Same(m, n) ==
  /\ m.kind = n.kind
  /\ m.kind = "set" \/ (m.kind \in Parts /\ m.of = n.of)

Once(queue) == \A i, j \in 1..Len(queue) : Same(queue[i], queue[j]) => i = j
Apart(queue, other) == \A i \in 1..Len(queue), j \in 1..Len(other) : ~Same(queue[i], other[j])

Distinct(sent, answers) == Once(sent) /\ Once(answers) /\ Apart(answers, sent)
NoneTwice == Distinct(requests, replies)

In(queue, kind, r) == \E i \in 1..Len(queue) : queue[i].kind = kind /\ queue[i].of = r
OnTheWay(sent, answers, kind, r) == In(sent, kind, r) \/ In(answers, kind, r)
Out(kind, r) == OnTheWay(requests, replies, kind, r)

\* A RefreshState in use waits for the server's info or for lists, and for what it
\* waits is on its way; of one that is free nothing is.
InfoPhase(r) ==
  /\ refresh[r].info = 0 /\ refresh[r].sinks = 0 /\ refresh[r].sources = 0
  /\ refresh[r].pending = 2
  /\ Out("info", r) /\ ~Out("sinks", r) /\ ~Out("sources", r)
ListPhase(r) ==
  /\ refresh[r].info # 0 /\ ~Out("info", r)
  /\ Out("sinks", r) <=> refresh[r].sinks = 0
  /\ Out("sources", r) <=> refresh[r].sources = 0
  /\ refresh[r].sinks = 0 \/ refresh[r].sources = 0
  /\ refresh[r].pending = 2 <=> refresh[r].sinks = 0 /\ refresh[r].sources = 0

WaitsForWhatComes ==
  \A r \in Refreshes :
    IF refresh[r] = None THEN \A kind \in Parts : ~Out(kind, r)
                         ELSE InfoPhase(r) \/ ListPhase(r)

\* Requests name a RefreshState, answers also a state the server was in.
Addressed(queue) == \A i \in 1..Len(queue) : queue[i].kind \in Parts => queue[i].of \in Refreshes
Dated(queue, last) == \A i \in 1..Len(queue) : queue[i].kind \in Parts => queue[i].version \in 1..last
AllAddressed == Addressed(requests) /\ Addressed(replies) /\ Dated(replies, Len(server))

LinkInv == NoneTwice /\ WaitsForWhatComes /\ AllAddressed

\* handle_refresh() waits for one RefreshState, until that is complete.
HandlerInv ==
  /\ done => worker = "refresh"
  /\ \A r \in Refreshes : Signals(r) => worker = "refresh" /\ ~done
  /\ \A r, q \in Refreshes : Signals(r) /\ Signals(q) => r = q

SetIn(queue) == \E i \in 1..Len(queue) : queue[i].kind = "set"

\* handle_set_*() waits for one operation, and the server carries out what it was sent.
Carried ==
  \E v \in since..Len(server) :
    /\ server[v].devices[command.name] # Absent
    /\ server[v] = Executed(server[v], command)
CommandInv ==
  /\ worker \in {"found", "operation"} => command \in Command
  /\ worker # "idle" => since \in 1..Len(server)
  /\ op # "none" <=> worker = "operation"
  /\ SetIn(requests) \/ SetIn(replies) => op = "running"
  /\ \A i \in 1..Len(requests) : requests[i].kind = "set" => requests[i].of = command
  /\ \A i \in 1..Len(replies) : replies[i].kind = "set" /\ replies[i].ok => Carried
  /\ op = "running" => ~success
  /\ op = "done" /\ success => Carried

\* Every state of the server is an event: the first change, a change or a command.
Unsent == worker = "found" \/ SetIn(requests)
VersionsAreEvents ==
  /\ worker \in {"found", "operation"} => asked > 0
  /\ Events <= MaxEvents
  /\ Len(server) + (IF Unsent THEN 1 ELSE 0) <= 1 + Events

--------------------------------------------------------------------------------
(* The inductive invariant: reports *)

\* Read before state s of the server.
Old(version, s) == version # 0 /\ version < s

ListOf(m, r) == m.kind \in ListKinds /\ m.of = r
NoList(queue, r) == \A i \in 1..Len(queue) : ~ListOf(queue[i], r)
OldList(queue, r, s) == \E i \in 1..Len(queue) : ListOf(queue[i], r) /\ Old(queue[i].version, s)
OldInfos(queue, s) == {i \in 1..Len(queue) : queue[i].kind = "info" /\ Old(queue[i].version, s)}

\* A refresh that has read, or will read, a part of its report before state s of the
\* server.
Tainted(q, s) ==
  /\ refresh[q] # None
  /\ \/ Old(refresh[q].info, s) \/ Old(refresh[q].sinks, s) \/ Old(refresh[q].sources, s)
     \/ OldList(replies, q, s)

\* The old infos come before that of r, the lists of q before those of r.
InfosBefore(queue, r, s) ==
  \A i \in OldInfos(queue, s), j \in 1..Len(queue) :
    queue[i].of # r /\ (queue[j].kind = "info" /\ queue[j].of = r => i < j)
ListsBefore(queue, q, r) ==
  \A i, j \in 1..Len(queue) : ListOf(queue[i], q) /\ ListOf(queue[j], r) => i < j
Ahead(q, r) ==
  /\ ListsBefore(replies, q, r) /\ ListsBefore(requests, q, r)
  /\ NoList(requests, q) \/ NoList(replies, r)

\* What r will report is not older than s, and what is older comes before it.
News(r, s) ==
  /\ ~Tainted(r, s)
  /\ InfosBefore(replies, r, s)
  /\ OldInfos(replies, s) # {} => refresh[r].info = 0
  /\ refresh[r].info # 0 => \A q \in Refreshes : Tainted(q, s) => Ahead(q, r)

NothingOld(s) == OldInfos(replies, s) = {} /\ \A q \in Refreshes : ~Tainted(q, s)

ReportSince(s) ==
  report # None /\ report.info >= s /\ report.sinks >= s /\ report.sources >= s

\* What the handler waits for is new; once it has come nothing old is left.
WaitsForNews == \A r \in Refreshes : Signals(r) => News(r, since)
NothingOldIsLeft == done => NothingOld(since)

FreshInv == WaitsForNews /\ NothingOldIsLeft /\ RefreshIsFresh

IInv == TypeOK /\ LinkInv /\ HandlerInv /\ CommandInv /\ VersionsAreEvents /\ FreshInv
--------------------------------------------------------------------------------
(* Queues *)

LEMMA AppendLemma ==
  ASSUME NEW q \in Seq(Message), NEW m \in Message
  PROVE  /\ Append(q, m) \in Seq(Message) /\ Len(q) \in Nat
         /\ Len(Append(q, m)) = Len(q) + 1
         /\ \A i \in 1..(Len(q) + 1) :
              Append(q, m)[i] = IF i = Len(q) + 1 THEN m ELSE q[i]
  OBVIOUS

LEMMA TailLemma ==
  ASSUME NEW q \in Seq(Message), q # <<>>
  PROVE  /\ Tail(q) \in Seq(Message) /\ Len(q) \in Nat /\ Len(q) >= 1
         /\ Head(q) = q[1] /\ Head(q) \in Message
         /\ Len(Tail(q)) = Len(q) - 1
         /\ \A i \in 1..(Len(q) - 1) : Tail(q)[i] = q[i + 1]
  OBVIOUS

LEMMA InAppend ==
  ASSUME NEW q \in Seq(Message), NEW m \in Message, NEW kind, NEW r
  PROVE  In(Append(q, m), kind, r) <=> In(q, kind, r) \/ (m.kind = kind /\ m.of = r)
<1>1. ASSUME NEW i \in 1..Len(q) PROVE i \in 1..Len(Append(q, m)) /\ Append(q, m)[i] = q[i]
  BY AppendLemma
<1>2. Len(q) + 1 \in 1..Len(Append(q, m)) /\ Append(q, m)[Len(q) + 1] = m
  BY AppendLemma
<1> QED
  BY <1>1, <1>2, AppendLemma DEF In

LEMMA InTail ==
  ASSUME NEW q \in Seq(Message), q # <<>>, NEW kind, NEW r
  PROVE  In(q, kind, r) <=> In(Tail(q), kind, r) \/ (Head(q).kind = kind /\ Head(q).of = r)
<1> Len(q) \in Nat /\ Len(Tail(q)) = Len(q) - 1
  BY TailLemma
<1>1. ASSUME NEW i \in 1..Len(q), i # 1
      PROVE  \E j \in 1..Len(Tail(q)) : Tail(q)[j] = q[i]
  <2>1. i - 1 \in 1..(Len(q) - 1) /\ (i - 1) + 1 = i
    BY <1>1
  <2>2. Tail(q)[i - 1] = q[(i - 1) + 1]
    BY <2>1, TailLemma
  <2> QED
    BY <2>1, <2>2
<1>2. ASSUME NEW i \in 1..Len(Tail(q)) PROVE i + 1 \in 1..Len(q) /\ Tail(q)[i] = q[i + 1]
  BY TailLemma
<1>3. 1 \in 1..Len(q) /\ Head(q) = q[1]
  BY TailLemma
<1> QED
  BY <1>1, <1>2, <1>3 DEF In

LEMMA OnceAppend ==
  ASSUME NEW q \in Seq(Message), NEW m \in Message, Once(q),
         \A i \in 1..Len(q) : ~Same(q[i], m)
  PROVE  Once(Append(q, m))
<1>1. ASSUME NEW i \in 1..Len(q) PROVE ~Same(m, q[i])
  BY DEF Same
<1> QED
  BY <1>1, AppendLemma DEF Once

LEMMA OnceTail ==
  ASSUME NEW q \in Seq(Message), q # <<>>, Once(q)
  PROVE  /\ Once(Tail(q)) /\ \A i \in 1..Len(Tail(q)) : ~Same(Tail(q)[i], Head(q))
  BY TailLemma DEF Once

LEMMA ApartLemma ==
  ASSUME NEW p \in Seq(Message), NEW q \in Seq(Message), NEW m \in Message, Apart(p, q)
  PROVE  /\ (\A i \in 1..Len(p) : ~Same(p[i], m)) => Apart(p, Append(q, m))
         /\ (\A i \in 1..Len(q) : ~Same(q[i], m)) => Apart(Append(p, m), q)
         /\ p # <<>> => Apart(Tail(p), q)
         /\ q # <<>> => Apart(p, Tail(q)) /\ \A i \in 1..Len(p) : ~Same(p[i], Head(q))
<1>1. ASSUME NEW i \in 1..Len(q) PROVE Same(m, q[i]) <=> Same(q[i], m)
  BY DEF Same
<1>2. (\A i \in 1..Len(p) : ~Same(p[i], m)) => Apart(p, Append(q, m))
  BY AppendLemma DEF Apart
<1>3. (\A i \in 1..Len(q) : ~Same(q[i], m)) => Apart(Append(p, m), q)
  BY <1>1, AppendLemma DEF Apart
<1>4. p # <<>> => Apart(Tail(p), q)
  BY TailLemma DEF Apart
<1>5. q # <<>> => Apart(p, Tail(q)) /\ \A i \in 1..Len(p) : ~Same(p[i], Head(q))
  BY TailLemma DEF Apart
<1> QED
  BY <1>2, <1>3, <1>4, <1>5

\* A request is sent.
LEMMA Send ==
  ASSUME NEW p \in Seq(Message), NEW q \in Seq(Message), NEW m \in Message, Distinct(p, q),
         m.kind \in Parts => ~OnTheWay(p, q, m.kind, m.of),
         m.kind = "set" => /\ \A i \in 1..Len(p) : p[i].kind # "set"
                           /\ \A i \in 1..Len(q) : q[i].kind # "set"
  PROVE  /\ Append(p, m) \in Seq(Message) /\ Distinct(Append(p, m), q)
         /\ \A kind, r : OnTheWay(Append(p, m), q, kind, r) <=>
              OnTheWay(p, q, kind, r) \/ (m.kind = kind /\ m.of = r)
<1>1. \A i \in 1..Len(p) : ~Same(p[i], m)
  BY DEF Same, OnTheWay, In
<1>2. \A i \in 1..Len(q) : ~Same(q[i], m)
  BY DEF Same, OnTheWay, In
<1>3. Distinct(Append(p, m), q)
  BY <1>1, <1>2, OnceAppend, ApartLemma DEF Distinct
<1> QED
  BY <1>3, InAppend, AppendLemma DEF OnTheWay

\* The server answers a request with one that counts for the same.
LEMMA AnswerSent ==
  ASSUME NEW p \in Seq(Message), NEW q \in Seq(Message), NEW m \in Message, Distinct(p, q),
         p # <<>>, m.kind = Head(p).kind, m.kind \in Parts => m.of = Head(p).of
  PROVE  /\ Tail(p) \in Seq(Message) /\ Append(q, m) \in Seq(Message)
         /\ Distinct(Tail(p), Append(q, m))
         /\ \A r : \A kind \in Parts :
              OnTheWay(Tail(p), Append(q, m), kind, r) <=> OnTheWay(p, q, kind, r)
<1>1. \A n : Same(n, m) <=> Same(n, Head(p))
  BY DEF Same
<1>2. Once(Tail(p)) /\ \A i \in 1..Len(Tail(p)) : ~Same(Tail(p)[i], m)
  BY <1>1, OnceTail DEF Distinct
<1>3. Apart(q, Tail(p)) /\ \A i \in 1..Len(q) : ~Same(q[i], m)
  BY <1>1, ApartLemma DEF Distinct
<1>4. Once(Append(q, m))
  BY <1>3, OnceAppend DEF Distinct
<1>5. Tail(p) \in Seq(Message) /\ Append(q, m) \in Seq(Message)
  BY AppendLemma, TailLemma
<1>6. Apart(Append(q, m), Tail(p))
  BY <1>2, <1>3, <1>5, ApartLemma
<1>7. \A r : \A kind \in Parts :
        OnTheWay(Tail(p), Append(q, m), kind, r) <=> OnTheWay(p, q, kind, r)
  BY InTail, InAppend DEF OnTheWay
<1> QED
  BY <1>2, <1>4, <1>5, <1>6, <1>7 DEF Distinct

\* An answer is dispatched: it was the only one.
LEMMA Dispatched ==
  ASSUME NEW p \in Seq(Message), NEW q \in Seq(Message), Distinct(p, q), q # <<>>
  PROVE  /\ Tail(q) \in Seq(Message) /\ Distinct(p, Tail(q))
         /\ \A kind, r : OnTheWay(p, q, kind, r) <=>
              OnTheWay(p, Tail(q), kind, r) \/ (Head(q).kind = kind /\ Head(q).of = r)
         /\ Head(q).kind \in Parts => ~OnTheWay(p, Tail(q), Head(q).kind, Head(q).of)
         /\ Head(q).kind = "set" => /\ \A i \in 1..Len(p) : p[i].kind # "set"
                                    /\ \A i \in 1..Len(Tail(q)) : Tail(q)[i].kind # "set"
<1>1. Distinct(p, Tail(q))
  BY OnceTail, ApartLemma DEF Distinct
<1>2. \A i \in 1..Len(Tail(q)) : ~Same(Tail(q)[i], Head(q))
  BY OnceTail DEF Distinct
<1>3. \A i \in 1..Len(p) : ~Same(p[i], Head(q))
  BY TailLemma DEF Distinct, Apart, Same
<1>4. \A kind, r : In(q, kind, r) <=> In(Tail(q), kind, r) \/ (Head(q).kind = kind /\ Head(q).of = r)
  BY InTail
<1>5. Head(q).kind \in Parts => ~OnTheWay(p, Tail(q), Head(q).kind, Head(q).of)
  BY <1>2, <1>3 DEF OnTheWay, In, Same
<1>6. Head(q).kind = "set" => /\ \A i \in 1..Len(p) : p[i].kind # "set"
                              /\ \A i \in 1..Len(Tail(q)) : Tail(q)[i].kind # "set"
  BY <1>2, <1>3 DEF Same
<1> QED
  BY <1>1, <1>4, <1>5, <1>6, TailLemma DEF OnTheWay

\* A request is answered by none.
LEMMA Dropped ==
  ASSUME NEW p \in Seq(Message), NEW q \in Seq(Message), Distinct(p, q), p # <<>>
  PROVE  /\ Tail(p) \in Seq(Message) /\ Distinct(Tail(p), q)
         /\ \A kind, r : kind # Head(p).kind =>
              (OnTheWay(Tail(p), q, kind, r) <=> OnTheWay(p, q, kind, r))
<1>1. Distinct(Tail(p), q)
  BY OnceTail, ApartLemma DEF Distinct
<1>2. \A kind, r : kind # Head(p).kind => (In(Tail(p), kind, r) <=> In(p, kind, r))
  BY InTail
<1> QED
  BY <1>1, <1>2, TailLemma DEF OnTheWay

--------------------------------------------------------------------------------
(* The states of the server *)

LEMMA ExecutedIsState ==
  ASSUME NEW s \in ServerState, NEW c \in Command, s.devices[c.name] # Absent
  PROVE  Executed(s, c) \in ServerState
<1> DEFINE Present(d, t) == {n \in Names : TypeOf(n) = t /\ d[n] # Absent}
<1>1. /\ s.devices \in [Names -> Levels \cup {Absent}] /\ s.defaults \in [Types -> Names \cup {None}]
      /\ s = [devices |-> s.devices, defaults |-> s.defaults]
      /\ \A t \in Types : s.defaults[t] \in IF Present(s.devices, t) = {} THEN {None}
                                                                   ELSE Present(s.devices, t)
  BY DEF ServerState
<1>2. c.name \in Names /\ TypeOf(c.name) \in Types
  BY TypesAssumption DEF Command
<1>3. CASE c.set = "default"
  <2> DEFINE e == [s.defaults EXCEPT ![TypeOf(c.name)] = c.name]
  <2>1. Executed(s, c) = [devices |-> s.devices, defaults |-> e]
    BY <1>1, <1>3 DEF Executed
  <2>2. e \in [Types -> Names \cup {None}]
    BY <1>1, <1>2
  <2>3. ASSUME NEW t \in Types
        PROVE  e[t] \in IF Present(s.devices, t) = {} THEN {None} ELSE Present(s.devices, t)
    BY <1>1, <1>2
  <2> QED
    BY <1>1, <2>1, <2>2, <2>3 DEF ServerState
<1>4. CASE c.set # "default"
  <2> DEFINE e == [s.devices EXCEPT ![c.name] = c.set]
  <2>1. Executed(s, c) = [devices |-> e, defaults |-> s.defaults]
    BY <1>1, <1>4 DEF Executed
  <2>2. c.set \in Levels /\ c.set # Absent
    BY <1>4, LevelsAssumption DEF Command
  <2>3. e \in [Names -> Levels \cup {Absent}]
    BY <1>1, <1>2, <2>2
  <2>4. ASSUME NEW t \in Types PROVE Present(e, t) = Present(s.devices, t)
    BY <1>1, <1>2, <2>2
  <2>5. ASSUME NEW t \in Types
        PROVE  s.defaults[t] \in IF Present(e, t) = {} THEN {None} ELSE Present(e, t)
    BY <1>1, <2>4
  <2> HIDE DEF e
  <2>6. [devices |-> e, defaults |-> s.defaults] \in ServerState
    BY <1>1, <2>3, <2>5 DEF ServerState
  <2> QED
    BY <2>1, <2>6
<1> QED
  BY <1>3, <1>4

LEMMA FirstState ==
  \E s \in ServerState : s.devices = [n \in Names |-> CHOOSE l \in Levels : TRUE]
<1> DEFINE devices  == [n \in Names |-> CHOOSE l \in Levels : TRUE]
           Of(t)    == {n \in Names : TypeOf(n) = t}
           defaults == [t \in Types |-> IF Of(t) = {} THEN None ELSE CHOOSE n \in Of(t) : TRUE]
           s        == [devices |-> devices, defaults |-> defaults]
<1>1. (CHOOSE l \in Levels : TRUE) \in Levels
  BY LevelsAssumption
<1>2. devices \in [Names -> Levels \cup {Absent}] /\ \A n \in Names : devices[n] # Absent
  BY <1>1, LevelsAssumption
<1>3. ASSUME NEW t \in Types PROVE Of(t) # {} => (CHOOSE n \in Of(t) : TRUE) \in Of(t)
  OBVIOUS
<1>4. defaults \in [Types -> Names \cup {None}]
  BY <1>3
<1>5. ASSUME NEW t \in Types
      PROVE  /\ {n \in Names : TypeOf(n) = t /\ devices[n] # Absent} = Of(t)
             /\ defaults[t] \in IF Of(t) = {} THEN {None} ELSE Of(t)
  BY <1>2, <1>3
<1> HIDE DEF devices, defaults
<1>6. s \in ServerState
  BY <1>2, <1>4, <1>5 DEF ServerState
<1> QED
  BY <1>6 DEF devices

LEMMA EnterLemma ==
  ASSUME TypeOK, NEW s \in ServerState, server' = Append(server, s)
  PROVE  /\ server' \in Seq(ServerState) /\ Len(server') = Len(server) + 1
         /\ server'[Len(server) + 1] = s
         /\ \A v \in 1..Len(server) : server'[v] = server[v]
  BY DEF TypeOK

LEMMA Bounds == MaxEvents \in Nat /\ MaxVersion = 1 + MaxEvents
  BY RefreshesAssumption DEF MaxVersion

\* The server takes a request, and what it answers names the state the request found.
LEMMA Replied ==
  ASSUME TypeOK, ServerAnswers
  PROVE  LET request == Head(requests) IN
         /\ requests # <<>> /\ requests' = Tail(requests) /\ UNCHANGED <<refresh, report>>
         /\ request = requests[1] /\ 1 \in 1..Len(requests) /\ request \in Message
         /\ \/ /\ request.kind = "subscribe" /\ UNCHANGED <<server, unannounced, replies>>
               /\ subscribed => subscribed'
            \/ \E m \in Message :
                 /\ request.kind # "subscribe" /\ UNCHANGED subscribed
                 /\ m.kind = request.kind /\ m.of = request.of /\ m.version = Len(server)
                 /\ replies' = Append(replies, m)
                 /\ IF m.kind = "set" /\ m.ok
                      THEN /\ Last(server).devices[m.of.name] # Absent
                           /\ Enter(Executed(Last(server), m.of))
                      ELSE UNCHANGED <<server, unannounced>>
<1> DEFINE request == Head(requests)
<1>1. /\ requests # <<>> /\ requests' = Tail(requests) /\ UNCHANGED <<refresh, report>>
      /\ Serve(request) \/ Refuse(request)
  BY DEF ServerAnswers
<1>2. request = requests[1] /\ 1 \in 1..Len(requests) /\ request \in Message
  BY <1>1, TailLemma DEF TypeOK
<1> HIDE DEF request
<1>3. ASSUME NEW ok \in BOOLEAN
      PROVE  LET m == Answer(request, ok) IN
             /\ m \in Message /\ m.kind = request.kind /\ m.of = request.of
             /\ m.version = Len(server) /\ m.ok = ok
  BY <1>2, Bounds DEF Answer, Msg, Message, TypeOK
<1>4. CASE Serve(request)
  <2>1. CASE request.kind = "subscribe"
    BY <1>1, <1>2, <1>4, <2>1 DEF Serve, request, Parts
  <2>2. CASE request.kind # "subscribe"
    <3>1. PICK m \in Message : /\ m = Answer(request, TRUE) /\ m.ok /\ m.kind = request.kind
                               /\ m.of = request.of /\ m.version = Len(server)
      BY <1>3
    <3>2. replies' = Append(replies, m) /\ UNCHANGED subscribed
      BY <1>4, <2>2, <3>1 DEF Serve
    <3>3. IF m.kind = "set" THEN /\ Last(server).devices[m.of.name] # Absent
                                 /\ Enter(Executed(Last(server), m.of))
                            ELSE UNCHANGED <<server, unannounced>>
      BY <1>4, <2>2, <3>1 DEF Serve, Parts
    <3> QED
      BY <1>1, <1>2, <2>2, <3>1, <3>2, <3>3 DEF request
  <2> QED
    BY <2>1, <2>2
<1>5. CASE Refuse(request)
  <2>1. CASE request.kind = "subscribe"
    BY <1>1, <1>2, <1>5, <2>1 DEF Refuse, request
  <2>2. CASE request.kind # "subscribe"
    <3>1. PICK m \in Message : /\ m = Answer(request, FALSE) /\ ~m.ok /\ m.kind = request.kind
                               /\ m.of = request.of /\ m.version = Len(server)
      BY <1>3
    <3>2. replies' = Append(replies, m) /\ UNCHANGED <<server, subscribed, unannounced>>
      BY <1>5, <2>2, <3>1 DEF Refuse
    <3> QED
      BY <1>1, <1>2, <2>2, <3>1, <3>2 DEF request
  <2> QED
    BY <2>1, <2>2
<1> QED
  BY <1>1, <1>4, <1>5

\* The server never forgets.
LEMMA Grows ==
  ASSUME TypeOK, CommandInv, [Next]_vars
  PROVE  /\ server' \in Seq(ServerState)
         /\ Len(server) \in Nat /\ Len(server') \in Nat
         /\ Len(server') = Len(server) \/ Len(server') = Len(server) + 1
         /\ \A v \in 1..Len(server) : server'[v] = server[v]
<1>1. CASE ServerChanges
  <2>1. \E s \in ServerState : server' = Append(server, s)
    BY <1>1 DEF ServerChanges, Enter
  <2> QED
    BY <2>1, EnterLemma DEF TypeOK
<1>2. CASE ServerAnswers
  <2>1. CASE server' = server
    BY <2>1 DEF TypeOK
  <2>2. CASE server' # server
    <3> DEFINE request == Head(requests)
    <3>1. /\ request.kind = "set"
          /\ Last(server).devices[request.of.name] # Absent
          /\ server' = Append(server, Executed(Last(server), request.of))
      BY <1>2, <2>2, Replied DEF Enter
    <3>2. request = requests[1] /\ 1 \in 1..Len(requests)
      BY <1>2, Replied
    <3>3. request.of \in Command
      <4>1. request.of = command /\ op = "running"
        BY <3>1, <3>2 DEF CommandInv, SetIn
      <4>2. worker = "operation"
        BY <4>1 DEF CommandInv
      <4> QED
        BY <4>1, <4>2 DEF CommandInv
    <3>4. Last(server) \in ServerState
      BY DEF TypeOK, Last
    <3>5. Executed(Last(server), request.of) \in ServerState
      BY <3>1, <3>3, <3>4, ExecutedIsState
    <3> QED
      BY <3>1, <3>5, EnterLemma DEF TypeOK
  <2> QED
    BY <2>1, <2>2
<1>3. CASE ~ServerChanges /\ ~ServerAnswers
  <2>1. server' = server
    BY <1>3 DEF Next, Constructor, Worker, WorkerWakes, SpuriousWakeup, Mainloop, Server, Gone, vars,
       serverVars, InitWaits, InitSubscribes, HandleRefresh, SendCommand, WaitReturns, Destroy,
       LookupDevice, SubscribeCallback, ServerInfoCallback, SinkInfoCallback, SourceInfoCallback,
       ListCallback, SuccessCallback, ServerNotifies, ServerAccepts, ServerDies
  <2> QED
    BY <2>1 DEF TypeOK
<1> QED
  BY <1>1, <1>2, <1>3

--------------------------------------------------------------------------------
(* The connection *)

LinkType ==
  /\ requests \in Seq(Message) /\ replies \in Seq(Message)
  /\ refresh \in [Refreshes -> RefreshState \cup {None}]

\* RefreshDevices() with a connection, as the replies become what they are.
LEMMA Begins ==
  ASSUME LinkType, LinkInv, context = "ready", NEW signal \in BOOLEAN, RefreshDevices(signal),
         replies' \in Seq(Message), Distinct(requests, replies'),
         \A kind \in Parts, r \in Refreshes : OnTheWay(requests, replies', kind, r) <=> Out(kind, r)
  PROVE  LinkType' /\ NoneTwice' /\ WaitsForWhatComes'
<1> DEFINE r == CHOOSE q \in Free : TRUE
           m == Request("info", r)
           state == [pending |-> 2, info |-> 0, sinks |-> 0, sources |-> 0, failed |-> {}, signal |-> signal]
<1>1. /\ r \in Refreshes /\ refresh[r] = None
      /\ refresh' = [refresh EXCEPT ![r] = state]
      /\ requests' = Append(requests, m)
  BY DEF RefreshDevices, Free, Lists
<1> HIDE DEF r
<1>2. m \in Message /\ m.kind = "info" /\ m.of = r
  BY <1>1, Bounds DEF Message, Request, Msg
<1>3. state \in RefreshState /\ state # None
  <2>1. state \in RefreshState
    BY Bounds DEF RefreshState
  <2> QED
    BY <2>1, NoneAssumption
<1>4. refresh' \in [Refreshes -> RefreshState \cup {None}]
  BY <1>1, <1>3 DEF LinkType
<1>5. \A kind \in Parts : ~Out(kind, r)
  BY <1>1 DEF LinkInv, WaitsForWhatComes
<1>6. ~OnTheWay(requests, replies', "info", r)
  BY <1>1, <1>5 DEF Parts
<1>7. /\ requests' \in Seq(Message) /\ Distinct(requests', replies')
      /\ \A kind, q : OnTheWay(requests', replies', kind, q) <=>
           OnTheWay(requests, replies', kind, q) \/ (kind = "info" /\ r = q)
  BY <1>1, <1>2, <1>6, Send DEF LinkType
<1>8. \A kind \in Parts, q \in Refreshes :
        Out(kind, q)' <=> Out(kind, q) \/ (kind = "info" /\ q = r)
  BY <1>7 DEF Out
<1>9. WaitsForWhatComes'
  <2> SUFFICES ASSUME NEW q \in Refreshes
               PROVE  IF refresh'[q] = None THEN \A kind \in Parts : ~Out(kind, q)'
                                            ELSE InfoPhase(q)' \/ ListPhase(q)'
    BY DEF WaitsForWhatComes
  <2>1. CASE q = r
    <3>1. refresh'[q] = state
      BY <1>1, <2>1 DEF LinkType
    <3>2. Out("info", q)' /\ ~Out("sinks", q)' /\ ~Out("sources", q)'
      BY <1>5, <1>8, <2>1 DEF Parts
    <3> QED
      BY <1>3, <3>1, <3>2 DEF InfoPhase
  <2>2. CASE q # r
    <3>1. refresh'[q] = refresh[q]
      BY <1>1, <2>2 DEF LinkType
    <3>2. \A kind \in Parts : Out(kind, q)' <=> Out(kind, q)
      BY <1>8, <2>2
    <3> QED
      BY <3>1, <3>2 DEF LinkInv, WaitsForWhatComes, InfoPhase, ListPhase, Parts
  <2> QED
    BY <2>1, <2>2
<1> QED
  BY <1>4, <1>7, <1>9 DEF LinkType, NoneTwice

\* What the callbacks write.
LEMMA Noted ==
  ASSUME NEW s \in RefreshState, NEW m \in Message, m.kind \in Parts
  PROVE  LET state == Answered(s, m) IN
         /\ state.pending = s.pending /\ state.signal = s.signal /\ state.info = s.info
         /\ state.sinks = s.sinks /\ state.sources = s.sources
         /\ state \in RefreshState
<1>1. CASE m.ok
  BY <1>1 DEF Answered
<1>2. CASE ~m.ok
  BY <1>2 DEF Answered, RefreshState
<1> QED
  BY <1>1, <1>2

LEMMA Told ==
  ASSUME NEW s \in RefreshState, NEW m \in Message, m.kind \in Parts, m.version \in 1..MaxVersion
  PROVE  LET state == WithInfo(s, m) IN
         /\ state.pending = s.pending /\ state.signal = s.signal /\ state.info = m.version
         /\ state.sinks = s.sinks /\ state.sources = s.sources
         /\ state \in RefreshState
<1>1. PICK a \in RefreshState :
        /\ a = Answered(s, m) /\ a.pending = s.pending /\ a.signal = s.signal
        /\ a.sinks = s.sinks /\ a.sources = s.sources
  BY Noted
<1> QED
  BY <1>1, Bounds DEF RefreshState, WithInfo

LEMMA Filled ==
  ASSUME NEW s \in RefreshState, NEW m \in Message, m.kind \in ListKinds, m.version \in 1..MaxVersion
  PROVE  LET state == WithList(s, m) IN
         /\ state.pending = s.pending /\ state.info = s.info /\ state.signal = s.signal
         /\ state.sinks   = IF m.kind = "sinks" THEN m.version ELSE s.sinks
         /\ state.sources = IF m.kind = "sources" THEN m.version ELSE s.sources
         /\ state \in RefreshState
<1>1. m.kind \in Parts
  BY DEF ListKinds, Parts
<1>2. PICK a \in RefreshState :
        /\ a = Answered(s, m) /\ a.pending = s.pending /\ a.signal = s.signal /\ a.info = s.info
        /\ a.sinks = s.sinks /\ a.sources = s.sources
  BY <1>1, Noted
<1>3. CASE m.kind = "sinks"
  BY <1>2, <1>3, Bounds DEF RefreshState, WithList
<1>4. CASE m.kind = "sources"
  BY <1>2, <1>4, Bounds DEF RefreshState, WithList
<1> QED
  BY <1>3, <1>4 DEF ListKinds

LEMMA Unmoved ==
  ASSUME WaitsForWhatComes, refresh' = refresh,
         \A kind \in Parts, r \in Refreshes : Out(kind, r)' <=> Out(kind, r)
  PROVE  WaitsForWhatComes'
  BY DEF WaitsForWhatComes, InfoPhase, ListPhase, Parts

\* The answer for which a RefreshState waits is dispatched.
LEMMA Comes ==
  ASSUME LinkType, LinkInv, NEW kind \in Parts, Dispatch(kind)
  PROVE  LET r == Head(replies).of
             v == Head(replies).version IN
         /\ replies' = Tail(replies) /\ replies' \in Seq(Message) /\ Distinct(requests, replies')
         /\ r \in Refreshes /\ v \in 1..Len(server)
         /\ Head(replies) = replies[1] /\ 1 \in 1..Len(replies) /\ replies[1].kind = kind
         /\ Head(replies) \in Message
         /\ refresh[r] \in RefreshState /\ refresh[r] # None /\ Out(kind, r)
         /\ ~OnTheWay(requests, replies', kind, r)
         /\ \A k \in Parts, q \in Refreshes :
              k # kind \/ q # r => (OnTheWay(requests, replies', k, q) <=> Out(k, q))
<1> DEFINE r == Head(replies).of
<1>1. /\ replies # <<>> /\ replies' = Tail(replies) /\ Head(replies).kind = kind
      /\ Head(replies) = replies[1] /\ 1 \in 1..Len(replies) /\ Head(replies) \in Message
  BY TailLemma DEF Dispatch, LinkType
<1>2. r \in Refreshes /\ Head(replies).version \in 1..Len(server)
  BY <1>1 DEF LinkInv, AllAddressed, Addressed, Dated
<1>3. /\ replies' \in Seq(Message) /\ Distinct(requests, replies')
      /\ ~OnTheWay(requests, replies', kind, r)
      /\ \A k, q : Out(k, q) <=> OnTheWay(requests, replies', k, q) \/ (kind = k /\ r = q)
  BY <1>1, Dispatched DEF LinkType, LinkInv, NoneTwice, Out
<1>4. refresh[r] \in RefreshState /\ refresh[r] # None
  BY <1>2, <1>3 DEF LinkType, LinkInv, WaitsForWhatComes
<1> QED
  BY <1>1, <1>2, <1>3, <1>4

LEMMA LinkStep ==
  ASSUME TypeOK, LinkInv, CommandInv, [Next]_vars
  PROVE  LinkType' /\ NoneTwice' /\ WaitsForWhatComes'
<1> USE DEF LinkInv
<1>0. LinkType /\ Distinct(requests, replies)
  BY DEF LinkType, TypeOK, NoneTwice
<1>1. CASE UNCHANGED <<requests, replies, refresh>>
  <2>1. \A kind, r : Out(kind, r)' <=> Out(kind, r)
    BY <1>1 DEF Out
  <2>2. NoneTwice'
    BY <1>0, <1>1 DEF NoneTwice
  <2> QED
    BY <1>0, <1>1, <2>1, <2>2, Unmoved DEF LinkType
<1>2. ASSUME NEW m \in Message, m.kind \notin Parts, UNCHANGED <<replies, refresh>>,
             requests' = Append(requests, m),
             m.kind = "set" => /\ \A i \in 1..Len(requests) : requests[i].kind # "set"
                               /\ \A i \in 1..Len(replies) : replies[i].kind # "set"
      PROVE  LinkType' /\ NoneTwice' /\ WaitsForWhatComes'
  <2>1. /\ requests' \in Seq(Message) /\ Distinct(requests', replies)
        /\ \A kind, r : OnTheWay(requests', replies, kind, r) <=>
             OnTheWay(requests, replies, kind, r) \/ (m.kind = kind /\ m.of = r)
    BY <1>0, <1>2, Send DEF LinkType
  <2>2. \A kind \in Parts, r \in Refreshes : Out(kind, r)' <=> Out(kind, r)
    BY <1>2, <2>1 DEF Out
  <2> QED
    BY <1>0, <1>2, <2>1, <2>2, Unmoved DEF LinkType, NoneTwice
<1>3. CASE InitSubscribes /\ context = "ready"
  <2> DEFINE m == Request("subscribe", None)
  <2>1. m \in Message /\ m.kind = "subscribe"
    BY Bounds DEF Message, Request, Msg
  <2> HIDE DEF m
  <2> QED
    BY <1>2, <1>3, <2>1 DEF InitSubscribes, m, Parts
<1>4. CASE SendCommand /\ context = "ready"
  <2> DEFINE m == Request("set", command)
  <2>1. worker = "found" /\ op # "running" /\ command \in Command
    BY <1>4 DEF SendCommand, CommandInv
  <2>2. m \in Message /\ m.kind = "set"
    BY <2>1, Bounds DEF Message, Request, Msg
  <2>3. /\ \A i \in 1..Len(requests) : requests[i].kind # "set"
        /\ \A i \in 1..Len(replies) : replies[i].kind # "set"
    BY <2>1 DEF CommandInv, SetIn
  <2>4. requests' = Append(requests, m) /\ UNCHANGED <<replies, refresh>>
    BY <1>4 DEF SendCommand
  <2> HIDE DEF m
  <2> QED
    BY <1>2, <2>2, <2>3, <2>4 DEF Parts
<1>5. CASE HandleRefresh /\ context = "ready"
  BY <1>0, <1>5, Begins DEF HandleRefresh, Out, LinkType
<1>6. CASE SubscribeCallback
  <2>1. /\ replies # <<>> /\ Head(replies).kind = "event" /\ replies' = Tail(replies)
        /\ RefreshDevices(FALSE)
    BY <1>6 DEF SubscribeCallback, Dispatch
  <2>2. /\ replies' \in Seq(Message) /\ Distinct(requests, replies')
        /\ \A r : \A kind \in Parts : Out(kind, r) <=> OnTheWay(requests, replies', kind, r)
    BY <1>0, <2>1, Dispatched DEF LinkType, Out, Parts
  <2>3. CASE context = "ready"
    BY <1>0, <2>1, <2>2, <2>3, Begins
  <2>4. CASE context # "ready"
    <3>1. UNCHANGED <<refresh, requests>>
      BY <2>1, <2>4 DEF RefreshDevices
    <3> QED
      BY <1>0, <2>2, <3>1, Unmoved DEF LinkType, NoneTwice, Out
  <2> QED
    BY <2>3, <2>4
<1>7. CASE ServerNotifies
  <2> DEFINE m == Request("event", None)
  <2>1. m \in Message /\ m.kind = "event"
    BY Bounds DEF Message, Request, Msg
  <2>2. replies' = Append(replies, m) /\ UNCHANGED <<requests, refresh>>
    BY <1>7 DEF ServerNotifies
  <2> HIDE DEF m
  <2>3. \A n : ~Same(n, m) /\ ~Same(m, n)
    BY <2>1 DEF Same, Parts
  <2>4. replies' \in Seq(Message) /\ Distinct(requests, replies')
    BY <1>0, <2>1, <2>2, <2>3, OnceAppend, ApartLemma, AppendLemma DEF Distinct, LinkType
  <2>5. \A kind \in Parts, r \in Refreshes : Out(kind, r)' <=> Out(kind, r)
    BY <1>0, <2>1, <2>2, InAppend DEF Out, OnTheWay, LinkType, Parts
  <2> QED
    BY <1>0, <2>2, <2>4, <2>5, Unmoved DEF LinkType, NoneTwice
<1>8. CASE ServerAnswers
  <2> DEFINE request == Head(requests)
  <2>1. requests # <<>> /\ requests' = Tail(requests) /\ UNCHANGED refresh
    BY <1>8, Replied
  <2>2. CASE request.kind = "subscribe" /\ UNCHANGED replies
    <3>1. /\ requests' \in Seq(Message) /\ Distinct(requests', replies')
          /\ \A r : \A kind \in Parts :
               OnTheWay(requests', replies', kind, r) <=> OnTheWay(requests, replies, kind, r)
      BY <1>0, <2>1, <2>2, Dropped DEF LinkType, Parts
    <3> QED
      BY <1>0, <2>1, <2>2, <3>1, Unmoved DEF LinkType, NoneTwice, Out
  <2>3. ASSUME NEW m \in Message, m.kind = request.kind, m.of = request.of,
               replies' = Append(replies, m)
        PROVE  LinkType' /\ NoneTwice' /\ WaitsForWhatComes'
    <3>1. /\ requests' \in Seq(Message) /\ replies' \in Seq(Message)
          /\ Distinct(requests', replies')
          /\ \A r : \A kind \in Parts :
               OnTheWay(requests', replies', kind, r) <=> OnTheWay(requests, replies, kind, r)
      BY <1>0, <2>1, <2>3, AnswerSent DEF LinkType
    <3> QED
      BY <1>0, <2>1, <3>1, Unmoved DEF LinkType, NoneTwice, Out
  <2> QED
    BY <1>8, <2>2, <2>3, Replied
<1>9. CASE ServerInfoCallback
  <2> DEFINE r == Head(replies).of
             v == Head(replies).version
             new == WithInfo(refresh[r], Head(replies))
             m == Request("sinks", r)
             n == Request("sources", r)
  <2>1. /\ refresh' = [refresh EXCEPT ![r] = new]
        /\ requests' = requests \o <<m, n>> /\ Dispatch("info")
    BY <1>9 DEF ServerInfoCallback
  <2>2. /\ replies' \in Seq(Message) /\ Distinct(requests, replies')
        /\ r \in Refreshes /\ v \in 1..Len(server)
        /\ Head(replies) \in Message /\ Head(replies).kind = "info"
        /\ refresh[r] \in RefreshState /\ refresh[r] # None /\ Out("info", r)
        /\ ~OnTheWay(requests, replies', "info", r)
        /\ \A k \in Parts, q \in Refreshes :
             k # "info" \/ q # r => (OnTheWay(requests, replies', k, q) <=> Out(k, q))
    BY <1>0, <2>1, Comes DEF Parts, Dispatch
  <2>3. InfoPhase(r)
    BY <2>2 DEF WaitsForWhatComes, ListPhase
  <2>4. m \in Message /\ n \in Message /\ m.kind = "sinks" /\ n.kind = "sources" /\ m.of = r /\ n.of = r
    BY <2>2, Bounds DEF Message, Request, Msg
  <2>9. /\ new \in RefreshState /\ new.info = v /\ new.sinks = refresh[r].sinks
        /\ new.sources = refresh[r].sources /\ new.pending = refresh[r].pending
    <3>1. v \in 1..MaxVersion
      BY <2>2, Bounds DEF TypeOK
    <3> QED
      BY <2>2, <3>1, Told DEF Parts
  <2> HIDE DEF m, n, r, v, new
  <2>5. requests' = Append(Append(requests, m), n)
    BY <1>0, <2>1, <2>4 DEF LinkType
  <2>6. ~OnTheWay(requests, replies', "sinks", r) /\ ~OnTheWay(requests, replies', "sources", r)
    BY <2>2, <2>3 DEF InfoPhase, Parts
  <2>7. /\ Append(requests, m) \in Seq(Message) /\ Distinct(Append(requests, m), replies')
        /\ \A k, q : OnTheWay(Append(requests, m), replies', k, q) <=>
             OnTheWay(requests, replies', k, q) \/ (k = "sinks" /\ r = q)
    BY <1>0, <2>2, <2>4, <2>6, Send DEF LinkType
  <2>8. /\ requests' \in Seq(Message) /\ Distinct(requests', replies')
        /\ \A k, q : OnTheWay(requests', replies', k, q) <=>
             \/ OnTheWay(requests, replies', k, q)
             \/ k = "sinks" /\ r = q
             \/ k = "sources" /\ r = q
    <3>1. ~OnTheWay(Append(requests, m), replies', n.kind, n.of) /\ n.kind # "set"
      BY <2>4, <2>6, <2>7
    <3>2. /\ Append(Append(requests, m), n) \in Seq(Message)
          /\ Distinct(Append(Append(requests, m), n), replies')
          /\ \A k, q : OnTheWay(Append(Append(requests, m), n), replies', k, q) <=>
               OnTheWay(Append(requests, m), replies', k, q) \/ (n.kind = k /\ n.of = q)
      BY <2>2, <2>4, <2>7, <3>1, Send
    <3> QED
      BY <2>4, <2>5, <2>7, <3>2
  <2>10. WaitsForWhatComes'
    <3> SUFFICES ASSUME NEW q \in Refreshes
                 PROVE  IF refresh'[q] = None THEN \A kind \in Parts : ~Out(kind, q)'
                                              ELSE InfoPhase(q)' \/ ListPhase(q)'
      BY DEF WaitsForWhatComes
    <3>1. CASE q = r
      <4>1. refresh'[q] = new /\ refresh'[q] # None
        BY <1>0, <2>1, <2>2, <2>9, <3>1, NoneAssumption DEF LinkType
      <4>2. ~Out("info", q)' /\ Out("sinks", q)' /\ Out("sources", q)'
        BY <2>2, <2>8, <3>1 DEF Out
      <4>3. v # 0
        BY <2>2
      <4> QED
        BY <2>2, <2>3, <2>9, <3>1, <4>1, <4>2, <4>3 DEF InfoPhase, ListPhase
    <3>2. CASE q # r
      <4>1. refresh'[q] = refresh[q]
        BY <1>0, <2>1, <3>2 DEF LinkType
      <4>2. \A k \in Parts : Out(k, q)' <=> Out(k, q)
        BY <2>2, <2>8, <3>2 DEF Out
      <4> QED
        BY <4>1, <4>2 DEF WaitsForWhatComes, InfoPhase, ListPhase, Parts
    <3> QED
      BY <3>1, <3>2
  <2> QED
    BY <1>0, <2>1, <2>2, <2>8, <2>9, <2>10 DEF LinkType, NoneTwice
<1>10. ASSUME NEW kind \in ListKinds, NEW type, ListCallback(kind, type)
       PROVE  LinkType' /\ NoneTwice' /\ WaitsForWhatComes'
  <2>1. PICK r \in Refreshes, v \in 1..Len(server), m \in Message :
          m = Head(replies) /\ r = m.of /\ v = m.version /\ m.kind = kind
    BY <1>0, <1>10, Comes DEF ListCallback, Dispatch, Parts, ListKinds
  <2> DEFINE state == WithList(refresh[r], m)
             other == IF kind = "sinks" THEN "sources" ELSE "sinks"
  <2>2. /\ replies' \in Seq(Message) /\ Distinct(requests, replies')
        /\ CompleteOne(r, state) /\ UNCHANGED requests
        /\ refresh[r] \in RefreshState /\ refresh[r] # None /\ Out(kind, r)
        /\ ~OnTheWay(requests, replies', kind, r)
        /\ \A k \in Parts, q \in Refreshes :
             k # kind \/ q # r => (OnTheWay(requests, replies', k, q) <=> Out(k, q))
    BY <1>0, <1>10, <2>1, Comes DEF ListCallback, Parts, ListKinds
  <2>3. ListPhase(r)
    BY <2>2 DEF WaitsForWhatComes, InfoPhase, ListKinds
  <2>4. v \in 1..MaxVersion /\ v # 0
    BY Bounds DEF TypeOK
  <2>5. /\ state.pending = refresh[r].pending /\ state.info = refresh[r].info
        /\ state.sinks   = IF kind = "sinks" THEN v ELSE refresh[r].sinks
        /\ state.sources = IF kind = "sources" THEN v ELSE refresh[r].sources
        /\ state \in RefreshState
    BY <2>1, <2>2, <2>4, Filled
  <2>6. \A k \in Parts, q \in Refreshes :
          /\ k # kind \/ q # r => (Out(k, q)' <=> Out(k, q))
          /\ ~Out(kind, r)'
    BY <2>2 DEF Out
  <2> HIDE DEF state
  <2>7. ASSUME NEW new, refresh' = [refresh EXCEPT ![r] = new], new \in RefreshState \cup {None},
               IF new = None THEN \A k \in Parts : ~Out(k, r)'
                             ELSE /\ new.info # 0 /\ new.pending # 2 /\ ~Out("info", r)'
                                  /\ Out("sinks", r)' <=> new.sinks = 0
                                  /\ Out("sources", r)' <=> new.sources = 0
                                  /\ new.sinks = 0 <=> new.sources # 0
        PROVE  LinkType' /\ WaitsForWhatComes'
    <3>1. refresh' \in [Refreshes -> RefreshState \cup {None}]
      BY <1>0, <2>7 DEF LinkType
    <3>2. ASSUME NEW q \in Refreshes
          PROVE  IF refresh'[q] = None THEN \A k \in Parts : ~Out(k, q)'
                                       ELSE InfoPhase(q)' \/ ListPhase(q)'
      <4>1. CASE q = r
        <5>1. refresh'[q] = new
          BY <1>0, <2>2, <2>7, <4>1 DEF LinkType
        <5> QED
          BY <2>7, <4>1, <5>1 DEF ListPhase
      <4>2. CASE q # r
        <5>1. refresh'[q] = refresh[q]
          BY <1>0, <2>7, <4>2 DEF LinkType
        <5>2. \A k \in Parts : Out(k, q)' <=> Out(k, q)
          BY <2>6, <4>2
        <5> QED
          BY <5>1, <5>2 DEF WaitsForWhatComes, InfoPhase, ListPhase, Parts
      <4> QED
        BY <4>1, <4>2
    <3> QED
      BY <1>0, <2>2, <3>1, <3>2 DEF LinkType, WaitsForWhatComes
  <2>8. CASE state.pending > 1
    <3> DEFINE new == [state EXCEPT !.pending = @ - 1]
    <3>1. refresh' = [refresh EXCEPT ![r] = new]
      BY <2>2, <2>8 DEF CompleteOne
    <3>2. /\ refresh[r].pending = 2 /\ refresh[r].sinks = 0 /\ refresh[r].sources = 0
          /\ refresh[r].info # 0 /\ ~Out("info", r) /\ Out("sinks", r) /\ Out("sources", r)
      BY <2>2, <2>3, <2>5, <2>8 DEF ListPhase, RefreshState
    <3>3. /\ new \in RefreshState /\ new.pending = 1 /\ new.info = state.info
          /\ new.sinks = state.sinks /\ new.sources = state.sources
      BY <2>5, <3>2 DEF RefreshState
    <3>4. new # None
      BY <3>3, NoneAssumption
    <3>5. ~Out("info", r)' /\ ~Out(kind, r)' /\ Out(other, r)'
      BY <2>2, <2>6, <3>2 DEF ListKinds, Parts
    <3> HIDE DEF new
    <3>6. /\ Out("sinks", r)' <=> new.sinks = 0
          /\ Out("sources", r)' <=> new.sources = 0
          /\ new.sinks = 0 <=> new.sources # 0
      <4>1. CASE kind = "sinks"
        BY <2>4, <2>5, <3>2, <3>3, <3>5, <4>1
      <4>2. CASE kind = "sources"
        BY <2>4, <2>5, <3>2, <3>3, <3>5, <4>2
      <4> QED
        BY <4>1, <4>2 DEF ListKinds
    <3>7. new.info # 0
      BY <2>5, <3>2, <3>3
    <3>8. new \in RefreshState \cup {None} /\ new.pending # 2
      BY <3>3
    <3>9. LinkType' /\ WaitsForWhatComes'
      BY <2>7, <3>1, <3>4, <3>5, <3>6, <3>7, <3>8
    <3> QED
      BY <2>2, <3>9 DEF NoneTwice
  <2>9. CASE ~(state.pending > 1)
    <3>1. refresh' = [refresh EXCEPT ![r] = None]
      BY <2>2, <2>9 DEF CompleteOne
    <3>2. refresh[r].pending # 2
      BY <2>5, <2>9
    <3>3. ~Out("info", r) /\ ~Out(other, r)
      BY <2>2, <2>3, <3>2 DEF ListPhase, ListKinds
    <3>4. \A k \in Parts : ~Out(k, r)'
      BY <2>2, <2>6, <3>3 DEF ListKinds, Parts
    <3> QED
      BY <1>0, <2>2, <2>7, <3>1, <3>4 DEF LinkType, NoneTwice
  <2> QED
    BY <2>8, <2>9
<1>11. CASE SuccessCallback
  <2>1. /\ replies # <<>> /\ Head(replies).kind = "set" /\ replies' = Tail(replies)
        /\ UNCHANGED <<requests, refresh>>
    BY <1>11 DEF SuccessCallback, Dispatch
  <2>2. /\ replies' \in Seq(Message) /\ Distinct(requests, replies')
        /\ \A r : \A kind \in Parts : Out(kind, r) <=> OnTheWay(requests, replies', kind, r)
    BY <1>0, <2>1, Dispatched DEF LinkType, Out, Parts
  <2> QED
    BY <1>0, <2>1, <2>2, Unmoved DEF LinkType, NoneTwice, Out
<1>12. ASSUME NEW state, ContextEnds(state)
       PROVE  LinkType' /\ NoneTwice' /\ WaitsForWhatComes'
  <2>1. requests' = <<>> /\ replies' = <<>> /\ refresh' = [r \in Refreshes |-> None]
    BY <1>12 DEF ContextEnds
  <2> QED
    BY <2>1 DEF LinkType, NoneTwice, Distinct, Once, Apart, WaitsForWhatComes, Out, OnTheWay, In
<1>13. CASE Next
  <2> USE <1>1
  <2>1. CASE Constructor
    BY <2>1, <1>3 DEF Constructor, InitWaits, InitSubscribes, linkVars
  <2>2. CASE HandleRefresh
    BY <2>2, <1>5 DEF HandleRefresh, RefreshDevices
  <2>3. CASE Worker \/ SpuriousWakeup
    BY <2>3, <1>4 DEF Worker, WorkerWakes, SpuriousWakeup, SendCommand, WaitReturns, linkVars
  <2>4. CASE Destroy \/ ServerDies
    BY <2>4, <1>12 DEF Destroy, ServerDies
  <2>5. CASE \E c \in Command : LookupDevice(c)
    BY <2>5 DEF LookupDevice, linkVars
  <2>6. CASE Mainloop
    BY <2>6, <1>6, <1>9, <1>10, <1>11 DEF Mainloop, SinkInfoCallback, SourceInfoCallback, ListKinds
  <2>7. CASE Server \/ ServerAccepts \/ ServerChanges \/ Gone
    BY <2>7, <1>7, <1>8 DEF Server, ServerAccepts, ServerChanges, Gone, linkVars, vars
  <2> QED
    BY <1>13, <2>1, <2>2, <2>3, <2>4, <2>5, <2>6, <2>7 DEF Next
<1> QED
  BY <1>1, <1>13 DEF vars, linkVars

LEMMA AddressedLemma ==
  ASSUME NEW q \in Seq(Message), NEW m \in Message, NEW n \in Nat
  PROVE  /\ Addressed(q) /\ (m.kind \in Parts => m.of \in Refreshes) => Addressed(Append(q, m))
         /\ Dated(q, n) /\ (m.kind \in Parts => m.version \in 1..n) => Dated(Append(q, m), n)
         /\ q # <<>> /\ Addressed(q) => Addressed(Tail(q))
         /\ q # <<>> /\ Dated(q, n) => Dated(Tail(q), n)
<1>1. Addressed(q) /\ (m.kind \in Parts => m.of \in Refreshes) => Addressed(Append(q, m))
  BY AppendLemma DEF Addressed
<1>2. Dated(q, n) /\ (m.kind \in Parts => m.version \in 1..n) => Dated(Append(q, m), n)
  BY AppendLemma DEF Dated
<1>3. q # <<>> => /\ Addressed(q) => Addressed(Tail(q))
                  /\ Dated(q, n) => Dated(Tail(q), n)
  BY TailLemma DEF Addressed, Dated
<1> QED
  BY <1>1, <1>2, <1>3

LEMMA AddressedStep ==
  ASSUME TypeOK, LinkInv, CommandInv, [Next]_vars
  PROVE  AllAddressed'
<1>1. /\ requests \in Seq(Message) /\ replies \in Seq(Message) /\ Len(server) \in Nat
      /\ Addressed(requests) /\ Addressed(replies) /\ Dated(replies, Len(server))
  BY DEF TypeOK, LinkInv, AllAddressed
<1>2. Dated(replies, Len(server'))
  BY <1>1, Grows DEF Dated
<1>3. Len(server') \in Nat
  BY Grows
<1>4. \A r \in Refreshes, kind \in {"info", "sinks", "sources"} :
        Request(kind, r) \in Message /\ Request(kind, r).of = r
  BY Bounds DEF Message, Request, Msg
<1>5. ASSUME NEW signal, RefreshDevices(signal), context = "ready"
      PROVE  Addressed(requests')
  <2>1. PICK r \in Refreshes : requests' = Append(requests, Request("info", r))
    BY <1>5 DEF RefreshDevices, Free
  <2> QED
    BY <1>1, <1>4, <2>1, AddressedLemma
<1>6. ASSUME NEW kind, Dispatch(kind)
      PROVE  Addressed(replies') /\ Dated(replies', Len(server'))
  BY <1>1, <1>2, <1>3, <1>6, AddressedLemma, 0 \in Nat DEF Dispatch
<1>7. CASE requests' = requests /\ replies' = replies
  BY <1>1, <1>2, <1>7 DEF AllAddressed
<1>8. CASE InitSubscribes /\ context = "ready"
  <2>1. /\ Request("subscribe", None) \in Message /\ Request("subscribe", None).kind \notin Parts
        /\ requests' = Append(requests, Request("subscribe", None)) /\ UNCHANGED replies
    BY <1>8, Bounds DEF InitSubscribes, Message, Request, Msg, Parts
  <2> QED
    BY <1>1, <1>2, <2>1, AddressedLemma DEF AllAddressed
<1>9. CASE SendCommand /\ context = "ready"
  <2>1. /\ Request("set", command) \in Message /\ Request("set", command).kind \notin Parts
        /\ requests' = Append(requests, Request("set", command)) /\ UNCHANGED replies
    BY <1>9, Bounds DEF SendCommand, CommandInv, Message, Request, Msg, Parts
  <2> QED
    BY <1>1, <1>2, <2>1, AddressedLemma DEF AllAddressed
<1>10. CASE HandleRefresh
  BY <1>1, <1>2, <1>5, <1>10 DEF HandleRefresh, RefreshDevices, AllAddressed
<1>11. CASE SubscribeCallback
  BY <1>1, <1>5, <1>6, <1>11 DEF SubscribeCallback, RefreshDevices, AllAddressed
<1>12. CASE ServerNotifies
  <2>1. /\ Request("event", None) \in Message /\ Request("event", None).kind \notin Parts
        /\ replies' = Append(replies, Request("event", None)) /\ UNCHANGED requests
    BY <1>12, Bounds DEF ServerNotifies, Message, Request, Msg, Parts
  <2> QED
    BY <1>1, <1>2, <1>3, <2>1, AddressedLemma DEF AllAddressed
<1>13. CASE ServerAnswers
  <2> DEFINE request == Head(requests)
  <2>1. requests # <<>> /\ requests' = Tail(requests)
    BY <1>13, Replied
  <2>2. Addressed(requests') /\ (request.kind \in Parts => request.of \in Refreshes)
    BY <1>1, <2>1, TailLemma, AddressedLemma DEF Addressed
  <2>3. CASE replies' = replies
    BY <1>1, <1>2, <2>2, <2>3 DEF AllAddressed
  <2>4. ASSUME NEW m \in Message, m.kind = request.kind, m.of = request.of, m.version = Len(server),
               replies' = Append(replies, m)
        PROVE  AllAddressed'
    <3>1. Len(server) \in 1..Len(server')
      BY <1>1, <1>3, Grows DEF TypeOK
    <3>2. Addressed(replies') /\ Dated(replies', Len(server'))
      BY <1>1, <1>2, <1>3, <2>2, <2>4, <3>1, AddressedLemma
    <3> QED
      BY <2>2, <3>2 DEF AllAddressed
  <2> QED
    BY <1>13, <2>3, <2>4, Replied
<1>14. CASE ServerInfoCallback
  <2> DEFINE r == Head(replies).of
  <2>1. r \in Refreshes
    BY <1>1, <1>14, TailLemma DEF ServerInfoCallback, Dispatch, Addressed, Parts
  <2> HIDE DEF r
  <2>2. /\ Append(requests, Request("sinks", r)) \in Seq(Message)
        /\ Addressed(Append(requests, Request("sinks", r)))
    BY <1>1, <1>4, <2>1, AddressedLemma, AppendLemma
  <2>3. Addressed(Append(Append(requests, Request("sinks", r)), Request("sources", r)))
    BY <1>4, <2>1, <2>2, AddressedLemma
  <2>4. requests' = Append(Append(requests, Request("sinks", r)), Request("sources", r))
    BY <1>1, <1>4, <1>14, <2>1 DEF ServerInfoCallback, r
  <2> QED
    BY <1>6, <1>14, <2>3, <2>4 DEF ServerInfoCallback, AllAddressed
<1>15. ASSUME NEW kind, Dispatch(kind), UNCHANGED requests PROVE AllAddressed'
  BY <1>1, <1>6, <1>15 DEF AllAddressed
<1>16. ASSUME NEW state, ContextEnds(state) PROVE AllAddressed'
  BY <1>16 DEF ContextEnds, AllAddressed, Addressed, Dated
<1>17. CASE Next
  <2>1. CASE Constructor
    BY <2>1, <1>7, <1>8 DEF Constructor, InitWaits, InitSubscribes, linkVars
  <2>2. CASE Worker \/ SpuriousWakeup
    BY <2>2, <1>7, <1>9 DEF Worker, WorkerWakes, SpuriousWakeup, SendCommand, WaitReturns, linkVars
  <2>3. CASE Destroy \/ ServerDies
    BY <2>3, <1>16 DEF Destroy, ServerDies
  <2>4. CASE \E c \in Command : LookupDevice(c)
    BY <2>4, <1>7 DEF LookupDevice, linkVars
  <2>5. CASE Mainloop
    BY <2>5, <1>11, <1>14, <1>15
    DEF Mainloop, SinkInfoCallback, SourceInfoCallback, ListCallback, SuccessCallback
  <2>6. CASE Server \/ ServerAccepts \/ ServerChanges \/ Gone
    BY <2>6, <1>7, <1>12, <1>13 DEF Server, ServerAccepts, ServerChanges, Gone, linkVars, vars
  <2> QED
    BY <1>10, <1>17, <2>1, <2>2, <2>3, <2>4, <2>5, <2>6 DEF Next
<1> QED
  BY <1>7, <1>17 DEF vars, linkVars

--------------------------------------------------------------------------------
(* Commands *)

\* The commands in a queue were in another before.
OldSets(queue, before) ==
  \A i \in 1..Len(queue) : queue[i].kind = "set" => \E j \in 1..Len(before) : before[j] = queue[i]

LEMMA OldSetsLemma ==
  ASSUME NEW q \in Seq(Message), NEW m \in Message
  PROVE  /\ OldSets(q, q) /\ OldSets(<<>>, q)
         /\ m.kind # "set" => OldSets(Append(q, m), q)
         /\ q # <<>> => OldSets(Tail(q), q)
<1>1. OldSets(q, q) /\ OldSets(<<>>, q)
  BY DEF OldSets
<1>2. m.kind # "set" => OldSets(Append(q, m), q)
  <2> SUFFICES ASSUME m.kind # "set", NEW i \in 1..Len(Append(q, m)), Append(q, m)[i].kind = "set"
               PROVE  \E j \in 1..Len(q) : q[j] = Append(q, m)[i]
    BY DEF OldSets
  <2>1. i \in 1..Len(q) /\ Append(q, m)[i] = q[i]
    BY AppendLemma
  <2> QED
    BY <2>1
<1>3. q # <<>> => OldSets(Tail(q), q)
  <2> SUFFICES ASSUME q # <<>>, NEW i \in 1..Len(Tail(q))
               PROVE  \E j \in 1..Len(q) : q[j] = Tail(q)[i]
    BY DEF OldSets
  <2>1. i + 1 \in 1..Len(q) /\ Tail(q)[i] = q[i + 1]
    BY TailLemma
  <2> QED
    BY <2>1
<1> QED
  BY <1>1, <1>2, <1>3

\* Only SendCommand sends a command, and only the server answers one.
LEMMA SetsStep ==
  ASSUME TypeOK, LinkInv, [Next]_vars
  PROVE  /\ (SendCommand /\ context = "ready") \/ OldSets(requests', requests)
         /\ (ServerAnswers /\ Head(requests).kind = "set") \/ OldSets(replies', replies)
<1>1. requests \in Seq(Message) /\ replies \in Seq(Message) /\ LinkType
  BY DEF TypeOK, LinkType
<1>2. /\ OldSets(requests, requests) /\ OldSets(replies, replies)
      /\ OldSets(<<>>, requests) /\ OldSets(<<>>, replies)
  BY DEF OldSets
<1>3. ASSUME NEW kind, Dispatch(kind) PROVE OldSets(replies', replies)
  <2>1. Head(replies) \in Message
    BY <1>1, <1>3, TailLemma DEF Dispatch
  <2> QED
    BY <1>1, <1>3, <2>1, OldSetsLemma DEF Dispatch
<1>4. \A kind \in {"subscribe", "event", "info", "sinks", "sources"}, r \in Refreshes \cup {None} :
        Request(kind, r) \in Message /\ Request(kind, r).kind # "set"
  BY Bounds DEF Message, Request, Msg
<1>5. ASSUME NEW signal, RefreshDevices(signal)
      PROVE  OldSets(requests', requests)
  <2>1. CASE context = "ready"
    <3>1. PICK r \in Refreshes : requests' = Append(requests, Request("info", r))
      BY <1>5, <2>1 DEF RefreshDevices, Free
    <3> QED
      BY <1>1, <1>4, <3>1, OldSetsLemma
  <2> QED
    BY <1>2, <1>5, <2>1 DEF RefreshDevices
<1>6. CASE InitSubscribes
  BY <1>1, <1>2, <1>4, <1>6, OldSetsLemma DEF InitSubscribes
<1>7. CASE ServerNotifies
  BY <1>1, <1>2, <1>4, <1>7, OldSetsLemma DEF ServerNotifies
<1>8. CASE ServerAnswers
  <2>1. requests # <<>> /\ requests' = Tail(requests)
    BY <1>8, Replied
  <2>2. OldSets(requests', requests)
    BY <1>1, <2>1, OldSetsLemma
  <2>3. Head(requests).kind = "set" \/ OldSets(replies', replies)
    BY <1>1, <1>2, <1>8, Replied, OldSetsLemma
  <2> QED
    BY <1>8, <2>2, <2>3
<1>9. CASE ServerInfoCallback
  <2>1. PICK r \in Refreshes : requests' = requests \o <<Request("sinks", r), Request("sources", r)>>
    BY <1>1, <1>9, Comes DEF ServerInfoCallback, Parts
  <2>2. requests' = Append(Append(requests, Request("sinks", r)), Request("sources", r))
    BY <1>1, <1>4, <2>1
  <2>3. /\ Append(requests, Request("sinks", r)) \in Seq(Message)
        /\ OldSets(Append(requests, Request("sinks", r)), requests)
    BY <1>1, <1>4, AppendLemma, OldSetsLemma
  <2>4. OldSets(requests', Append(requests, Request("sinks", r)))
    BY <1>4, <2>2, <2>3, OldSetsLemma
  <2>5. OldSets(requests', requests)
    BY <2>3, <2>4 DEF OldSets
  <2> QED
    BY <1>3, <1>9, <2>5 DEF ServerInfoCallback
<1>10. CASE Next
  <2>1. CASE Constructor
    BY <2>1, <1>2, <1>6 DEF Constructor, InitWaits, linkVars
  <2>2. CASE HandleRefresh
    BY <2>2, <1>2, <1>5 DEF HandleRefresh
  <2>3. CASE Worker \/ SpuriousWakeup
    BY <2>3, <1>2 DEF Worker, WorkerWakes, SpuriousWakeup, SendCommand, WaitReturns, linkVars
  <2>4. CASE Destroy \/ ServerDies
    BY <2>4, <1>2 DEF Destroy, ServerDies, ContextEnds
  <2>5. CASE \E c \in Command : LookupDevice(c)
    BY <2>5, <1>2 DEF LookupDevice, linkVars
  <2>6. CASE Mainloop
    BY <2>6, <1>2, <1>3, <1>5, <1>9
    DEF Mainloop, SubscribeCallback, SinkInfoCallback, SourceInfoCallback, ListCallback, SuccessCallback
  <2>7. CASE Server \/ ServerAccepts \/ ServerChanges \/ Gone
    BY <2>7, <1>2, <1>7, <1>8 DEF Server, ServerAccepts, ServerChanges, Gone, linkVars, vars
  <2> QED
    BY <1>10, <2>1, <2>2, <2>3, <2>4, <2>5, <2>6, <2>7 DEF Next
<1> QED
  BY <1>2, <1>10 DEF vars, linkVars

LEMMA ExecutedTwice ==
  ASSUME NEW s \in ServerState, NEW c \in Command, s.devices[c.name] # Absent
  PROVE  LET e == Executed(s, c) IN e.devices[c.name] # Absent /\ Executed(e, c) = e
<1>1. /\ s.devices \in [Names -> Levels \cup {Absent}] /\ s.defaults \in [Types -> Names \cup {None}]
      /\ s = [devices |-> s.devices, defaults |-> s.defaults]
  BY DEF ServerState
<1>2. c.name \in Names /\ TypeOf(c.name) \in Types
  BY TypesAssumption DEF Command
<1>3. CASE c.set = "default"
  <2> DEFINE e == [s.defaults EXCEPT ![TypeOf(c.name)] = c.name]
  <2>1. Executed(s, c) = [devices |-> s.devices, defaults |-> e]
    BY <1>1, <1>3 DEF Executed
  <2>2. [e EXCEPT ![TypeOf(c.name)] = c.name] = e
    BY <1>1, <1>2
  <2> HIDE DEF e
  <2>3. Executed([devices |-> s.devices, defaults |-> e], c) = [devices |-> s.devices, defaults |-> e]
    BY <1>3, <2>2 DEF Executed
  <2> QED
    BY <2>1, <2>3
<1>4. CASE c.set # "default"
  <2> DEFINE e == [s.devices EXCEPT ![c.name] = c.set]
  <2>1. Executed(s, c) = [devices |-> e, defaults |-> s.defaults]
    BY <1>1, <1>4 DEF Executed
  <2>2. [e EXCEPT ![c.name] = c.set] = e /\ e[c.name] # Absent
    BY <1>1, <1>2, <1>4, LevelsAssumption DEF Command
  <2> HIDE DEF e
  <2>3. Executed([devices |-> e, defaults |-> s.defaults], c) = [devices |-> e, defaults |-> s.defaults]
    BY <1>4, <2>2 DEF Executed
  <2> QED
    BY <2>1, <2>2, <2>3
<1> QED
  BY <1>3, <1>4

\* What was carried out stays carried out.
LEMMA CarriedStays ==
  ASSUME TypeOK, CommandInv, [Next]_vars, UNCHANGED <<since, command>>, worker # "idle", Carried
  PROVE  Carried'
<1>1. PICK v \in since..Len(server) : /\ server[v].devices[command.name] # Absent
                                      /\ server[v] = Executed(server[v], command)
  BY DEF Carried
<1>2. since \in 1..Len(server) /\ v \in 1..Len(server) /\ v \in since..Len(server')
  BY <1>1, Grows DEF CommandInv
<1>3. server'[v] = server[v]
  BY <1>2, Grows
<1> QED
  BY <1>1, <1>2, <1>3 DEF Carried

LEMMA VersionsStep ==
  ASSUME TypeOK, LinkInv, CommandInv, VersionsAreEvents, [Next]_vars
  PROVE  VersionsAreEvents'
<1>1. /\ asked \in Nat /\ changes \in Nat /\ errors \in Nat /\ MaxEvents \in Nat /\ Len(server) \in Nat
      /\ requests \in Seq(Message)
  BY Bounds DEF TypeOK
<1>2. (SendCommand /\ context = "ready") \/ (SetIn(requests') => SetIn(requests))
  BY SetsStep DEF OldSets, SetIn
<1>3. ASSUME UNCHANGED <<asked, changes, errors, server>>, Unsent' => Unsent,
             worker' \in {"found", "operation"} => worker \in {"found", "operation"}
      PROVE  VersionsAreEvents'
  BY <1>1, <1>3 DEF VersionsAreEvents, Events
<1>4. CASE ServerChanges
  <2>1. PICK s \in ServerState : server' = Append(server, s)
    BY <1>4 DEF ServerChanges, Enter
  <2>2. Len(server') = Len(server) + 1
    BY <2>1, EnterLemma
  <2>3. /\ Events' = Events + 1 /\ Events + 1 <= MaxEvents /\ Events \in Nat
        /\ (Unsent' <=> Unsent) /\ UNCHANGED <<worker, asked>>
    BY <1>1, <1>4 DEF ServerChanges, Events, Unsent, handlerVars, linkVars
  <2>4. CASE Unsent
    BY <1>1, <2>2, <2>3, <2>4 DEF VersionsAreEvents
  <2>5. CASE ~Unsent
    BY <1>1, <2>2, <2>3, <2>5 DEF VersionsAreEvents
  <2> QED
    BY <2>4, <2>5
<1>5. CASE HandleRefresh
  <2>1. /\ worker' = "refresh" /\ worker = "idle" /\ server' = server
        /\ asked' = asked + 1 /\ UNCHANGED <<changes, errors>> /\ (asked = 0 \/ Events < MaxEvents)
    BY <1>5 DEF HandleRefresh, NextRequest, serverVars
  <2>2. Events' \in Nat /\ Events \in Nat /\ Events <= Events' /\ Events' <= MaxEvents
    BY <1>1, <2>1 DEF Events, VersionsAreEvents
  <2>3. Unsent' => Unsent
    BY <1>2, <2>1 DEF Unsent, SendCommand
  <2> QED
    BY <1>1, <2>1, <2>2, <2>3 DEF VersionsAreEvents
<1>6. ASSUME NEW c \in Command, LookupDevice(c) PROVE VersionsAreEvents'
  <2>1. /\ asked > 0 /\ Events < MaxEvents
        /\ asked' = asked + 1 /\ UNCHANGED <<changes, errors, server>>
    BY <1>6 DEF LookupDevice, NextRequest, serverVars
  <2>2. Events \in Nat /\ Events' = Events + 1
    BY <1>1, <2>1 DEF Events
  <2> QED
    BY <1>1, <2>1, <2>2 DEF VersionsAreEvents
<1>7. CASE SendCommand
  <2>1. /\ worker = "found" /\ UNCHANGED <<asked, changes, errors, server>>
        /\ worker' \in {"operation", "idle"}
    BY <1>7 DEF SendCommand, serverVars
  <2>2. Unsent
    BY <2>1 DEF Unsent
  <2> QED
    BY <1>3, <2>1, <2>2
<1>8. CASE ServerAnswers
  <2>1. UNCHANGED <<asked, changes, worker>> /\ requests # <<>> /\ requests' = Tail(requests)
    BY <1>8 DEF ServerAnswers, handlerVars
  <2>2. Unsent' => Unsent
    BY <1>2, <1>8, <2>1 DEF Unsent, ServerAnswers, SendCommand, handlerVars
  <2>3. UNCHANGED errors \/ (Events < MaxEvents /\ errors' = errors + 1)
    BY <1>8 DEF ServerAnswers
  <2>4. Events \in Nat /\ Events' \in Nat /\ Events <= Events' /\ Events' <= MaxEvents
    BY <1>1, <2>1, <2>3 DEF Events, VersionsAreEvents
  <2>5. CASE server' = server
    BY <1>1, <2>1, <2>2, <2>4, <2>5 DEF VersionsAreEvents
  <2>6. CASE server' # server
    <3>1. Head(requests).kind = "set"
      BY <1>8, <2>6, Replied
    <3>2. ~SetIn(requests')
      BY <1>1, <2>1, <3>1, OnceTail DEF LinkInv, NoneTwice, Distinct, SetIn, Same
    <3>3. SetIn(requests)
      <4>1. 1 \in 1..Len(requests) /\ requests[1] = Head(requests)
        BY <1>1, <2>1, TailLemma
      <4> QED
        BY <3>1, <4>1 DEF SetIn
    <3>4. worker = "operation"
      BY <3>3 DEF CommandInv
    <3>5. Unsent /\ ~Unsent'
      BY <2>1, <3>2, <3>3, <3>4 DEF Unsent
    <3> QED
      BY <1>1, <2>1, <2>4, <3>5, Grows DEF VersionsAreEvents
  <2> QED
    BY <2>5, <2>6
<1>9. CASE Next
  <2> USE <1>2, <1>3
  <2>1. CASE Constructor
    BY <2>1 DEF Constructor, InitWaits, InitSubscribes, serverVars, handlerVars, Unsent, SendCommand
  <2>2. CASE WorkerWakes \/ SpuriousWakeup
    BY <2>2 DEF WorkerWakes, SpuriousWakeup, WaitReturns, serverVars, Unsent, SendCommand
  <2>3. CASE Destroy \/ ServerDies
    BY <2>3 DEF Destroy, ServerDies, serverVars, handlerVars, Unsent, SendCommand
  <2>4. CASE Mainloop
    BY <2>4 DEF Mainloop, SubscribeCallback, ServerInfoCallback, SinkInfoCallback, SourceInfoCallback,
                ListCallback, SuccessCallback, serverVars, handlerVars, Unsent, SendCommand
  <2>5. CASE ServerNotifies \/ ServerAccepts \/ Gone
    BY <2>5 DEF ServerNotifies, ServerAccepts, Gone, vars, linkVars, serverVars, handlerVars, Unsent,
                SendCommand
  <2> QED
    BY <1>4, <1>5, <1>6, <1>7, <1>8, <1>9, <2>1, <2>2, <2>3, <2>4, <2>5 DEF Next, Worker, Server
<1>10. CASE UNCHANGED vars
  BY <1>3, <1>10 DEF vars, serverVars, handlerVars, linkVars, Unsent
<1> QED
  BY <1>9, <1>10

LEMMA CommandStep ==
  ASSUME TypeOK, LinkInv, CommandInv, [Next]_vars
  PROVE  CommandInv'
<1>1. /\ requests \in Seq(Message) /\ replies \in Seq(Message)
      /\ Len(server) \in Nat /\ Len(server') \in Nat /\ Len(server') >= Len(server) /\ Len(server) >= 1
  BY Grows DEF TypeOK
\* Neither the handler nor the command it sent moves.
<1>2. ASSUME UNCHANGED <<worker, command, since>>, OldSets(requests', requests), OldSets(replies', replies),
             \/ UNCHANGED <<op, success>>
             \/ op' = "cancelled" /\ op = "running" /\ ~SetIn(requests') /\ ~SetIn(replies')
      PROVE  CommandInv'
  <2>1. SetIn(requests') \/ SetIn(replies') => SetIn(requests) \/ SetIn(replies)
    BY <1>2 DEF OldSets, SetIn
  <2>2. worker # "idle" /\ Carried => Carried'
    BY <1>2, CarriedStays
  <2>3. SetIn(replies) => worker # "idle"
    BY DEF CommandInv
  <2>4. \A i \in 1..Len(requests') : requests'[i].kind = "set" => requests'[i].of = command'
    BY <1>2 DEF OldSets, CommandInv
  <2>5. \A i \in 1..Len(replies') : replies'[i].kind = "set" /\ replies'[i].ok => Carried'
    BY <1>2, <2>2, <2>3 DEF OldSets, CommandInv, SetIn
  <2>6. /\ worker' \in {"found", "operation"} => command' \in Command
        /\ worker' # "idle" => since' \in 1..Len(server')
    BY <1>1, <1>2 DEF CommandInv
  <2>7. CASE UNCHANGED <<op, success>>
    <3>1. /\ op' # "none" <=> worker' = "operation"
          /\ SetIn(requests') \/ SetIn(replies') => op' = "running"
          /\ op' = "running" => ~success'
      BY <1>2, <2>1, <2>7 DEF CommandInv
    <3>2. op' = "done" /\ success' => Carried'
      BY <1>2, <2>2, <2>7 DEF CommandInv
    <3> QED
      BY <2>4, <2>5, <2>6, <3>1, <3>2 DEF CommandInv
  <2>8. CASE op' = "cancelled" /\ op = "running" /\ ~SetIn(requests') /\ ~SetIn(replies')
    <3>1. worker' = "operation"
      BY <1>2, <2>8 DEF CommandInv
    <3> QED
      BY <2>4, <2>5, <2>6, <2>8, <3>1 DEF CommandInv
  <2> QED
    BY <1>2, <2>7, <2>8
\* There is no operation before or after.
<1>3. ASSUME ~SetIn(requests'), ~SetIn(replies'), op' = "none",
             worker' \in {"idle", "refresh", "found"},
             worker' = "found" => command' \in Command,
             worker' # "idle" => since' \in 1..Len(server')
      PROVE  CommandInv'
  BY <1>3 DEF CommandInv, SetIn
<1>4. OldSets(requests', requests) /\ OldSets(replies', replies) /\ op # "running" =>
        ~SetIn(requests') /\ ~SetIn(replies')
  BY DEF CommandInv, OldSets, SetIn
<1>5. CASE HandleRefresh
  <2>1. /\ OldSets(requests', requests) /\ OldSets(replies', replies)
        /\ worker = "idle" /\ op = "none" /\ op' = op /\ worker' = "refresh"
        /\ since' = Len(server) /\ server' = server
    BY <1>5, SetsStep DEF HandleRefresh, NextRequest, CommandInv, SendCommand, ServerAnswers, serverVars,
       handlerVars
  <2> QED
    BY <1>1, <1>3, <1>4, <2>1
<1>6. ASSUME NEW c \in Command, LookupDevice(c) PROVE CommandInv'
  <2>1. /\ OldSets(requests', requests) /\ OldSets(replies', replies)
        /\ worker = "idle" /\ op = "none" /\ op' = op
        /\ \/ worker' = "found" /\ command' = c /\ since' = Len(server)
           \/ worker' = worker
        /\ server' = server
    BY <1>6 DEF LookupDevice, NextRequest, CommandInv, OldSets, linkVars, serverVars, waitVars
  <2> QED
    BY <1>1, <1>3, <1>4, <2>1
<1>7. CASE SendCommand
  <2>1. /\ worker = "found" /\ op = "none" /\ ~SetIn(requests) /\ ~SetIn(replies)
        /\ replies' = replies /\ server' = server /\ command \in Command /\ since \in 1..Len(server)
    BY <1>7 DEF SendCommand, CommandInv, serverVars
  <2>2. CASE context = "ready"
    <3> DEFINE m == Request("set", command)
    <3>1. m \in Message /\ m.kind = "set" /\ m.of = command
      BY <2>1, Bounds DEF Message, Request, Msg
    <3>2. /\ requests' = Append(requests, m) /\ op' = "running" /\ worker' = "operation"
          /\ UNCHANGED <<command, since>> /\ success' = FALSE
      BY <1>7, <2>2 DEF SendCommand
    <3> HIDE DEF m
    <3>3. \A i \in 1..Len(requests') : requests'[i].kind = "set" => requests'[i].of = command'
      BY <1>1, <2>1, <3>1, <3>2, AppendLemma DEF SetIn
    <3> QED
      BY <2>1, <3>2, <3>3 DEF CommandInv, SetIn
  <2>3. CASE context # "ready"
    BY <1>3, <1>7, <2>1, <2>3 DEF SendCommand
  <2> QED
    BY <2>2, <2>3
<1>8. CASE WaitReturns
  <2>1. OldSets(requests', requests) /\ OldSets(replies', replies) /\ server' = server
    BY <1>8 DEF WaitReturns, OldSets, linkVars, serverVars
  <2>2. CASE KeepsWaiting
    BY <1>2, <1>8, <2>1, <2>2 DEF WaitReturns
  <2>3. CASE ~KeepsWaiting
    <3>1. op # "running" /\ worker' = "idle" /\ op' = "none"
      BY <1>8, <2>3 DEF WaitReturns, KeepsWaiting, CommandInv
    <3> QED
      BY <1>3, <1>4, <2>1, <3>1
  <2> QED
    BY <2>2, <2>3
<1>9. CASE ServerAnswers
  <2> DEFINE request == Head(requests)
  <2>1. /\ requests # <<>> /\ requests' = Tail(requests) /\ OldSets(requests', requests)
        /\ UNCHANGED <<worker, command, since, op, success>>
        /\ request = requests[1] /\ 1 \in 1..Len(requests)
    BY <1>1, <1>9, TailLemma, OldSetsLemma DEF ServerAnswers, handlerVars, waitVars
  <2>2. CASE request.kind # "set"
    BY <1>2, <1>9, <2>1, <2>2, SetsStep
  <2>3. CASE request.kind = "set"
    <3>1. request.of = command /\ op = "running" /\ worker = "operation" /\ command \in Command
      BY <2>1, <2>3 DEF CommandInv, SetIn
    <3>2. PICK m \in Message :
            /\ replies' = Append(replies, m) /\ m.kind = "set" /\ m.of = command
            /\ m.ok => /\ Last(server).devices[command.name] # Absent
                       /\ server' = Append(server, Executed(Last(server), command))
      BY <1>9, <2>3, <3>1, Replied DEF Enter
    <3>3. ~SetIn(replies)
      BY <2>1, <2>3 DEF LinkInv, NoneTwice, Distinct, Apart, Same, SetIn
    <3>4. m.ok => Carried'
      <4> SUFFICES ASSUME m.ok PROVE Carried'
        OBVIOUS
      <4> DEFINE e == Executed(Last(server), command)
      <4>1. Last(server) \in ServerState
        BY <1>1 DEF TypeOK, Last
      <4>2. e \in ServerState /\ e.devices[command.name] # Absent /\ Executed(e, command) = e
        BY <3>1, <3>2, <4>1, ExecutedIsState, ExecutedTwice
      <4>3. Len(server') = Len(server) + 1 /\ server'[Len(server) + 1] = e
        BY <3>2, <4>2, EnterLemma
      <4>4. Len(server) + 1 \in since'..Len(server')
        BY <1>1, <2>1, <3>1, <4>3 DEF CommandInv
      <4> HIDE DEF e
      <4> QED
        BY <2>1, <4>2, <4>3, <4>4 DEF Carried
    <3>5. \A i \in 1..Len(replies') : replies'[i].kind = "set" /\ replies'[i].ok => Carried'
      BY <1>1, <3>2, <3>3, <3>4, AppendLemma DEF SetIn
    <3>6. \A i \in 1..Len(requests') : requests'[i].kind = "set" => requests'[i].of = command'
      BY <2>1 DEF OldSets, CommandInv
    <3> QED
      BY <1>1, <2>1, <3>1, <3>5, <3>6 DEF CommandInv
  <2> QED
    BY <2>2, <2>3
<1>10. CASE SuccessCallback
  <2>1. /\ replies # <<>> /\ Head(replies).kind = "set" /\ replies' = Tail(replies)
        /\ success' = Head(replies).ok /\ op' = "done"
        /\ UNCHANGED <<requests, worker, command, since, server>>
    BY <1>10 DEF SuccessCallback, Dispatch, handlerVars, serverVars
  <2>2. Head(replies) = replies[1] /\ 1 \in 1..Len(replies)
    BY <1>1, <2>1, TailLemma
  <2>3. ~SetIn(requests') /\ ~SetIn(replies')
    BY <1>1, <2>1, Dispatched DEF LinkInv, NoneTwice, SetIn
  <2>4. op = "running" /\ worker = "operation" /\ (success' => Carried')
    BY <2>1, <2>2, CarriedStays DEF CommandInv, SetIn
  <2> QED
    BY <2>1, <2>3, <2>4 DEF CommandInv, SetIn
<1>11. ASSUME NEW state, ContextEnds(state), UNCHANGED <<success, handlerVars>> PROVE CommandInv'
  <2>1. /\ OldSets(requests', requests) /\ OldSets(replies', replies)
        /\ ~SetIn(requests') /\ ~SetIn(replies')
    BY <1>11 DEF ContextEnds, OldSets, SetIn
  <2> QED
    BY <1>2, <1>11, <2>1 DEF ContextEnds, handlerVars
<1>12. CASE Next
  <2>1. CASE Constructor
    BY <2>1, <1>2, SetsStep DEF Constructor, InitWaits, InitSubscribes, handlerVars, waitVars,
       SendCommand, ServerAnswers
  <2>2. CASE Worker \/ SpuriousWakeup
    BY <2>2, <1>7, <1>8 DEF Worker, WorkerWakes, SpuriousWakeup
  <2>3. CASE Destroy \/ ServerDies
    BY <2>3, <1>11 DEF Destroy, ServerDies
  <2>4. CASE SubscribeCallback \/ ServerInfoCallback \/ SinkInfoCallback \/ SourceInfoCallback
    <3>1. UNCHANGED <<worker, command, since, op, success>>
      BY <2>4 DEF SubscribeCallback, ServerInfoCallback, SinkInfoCallback, SourceInfoCallback,
                  ListCallback, handlerVars, waitVars
    <3>2. ~SendCommand
      BY <3>1 DEF SendCommand
    <3>3. OldSets(replies', replies)
      <4>1. Head(replies) \in Message /\ replies # <<>> /\ replies' = Tail(replies)
        BY <1>1, <2>4, TailLemma
        DEF SubscribeCallback, ServerInfoCallback, SinkInfoCallback, SourceInfoCallback, ListCallback,
            Dispatch
      <4> QED
        BY <1>1, <4>1, OldSetsLemma
    <3> QED
      BY <1>2, <3>1, <3>2, <3>3, SetsStep
  <2>5. CASE ServerNotifies \/ ServerAccepts \/ ServerChanges \/ Gone
    <3>1. UNCHANGED <<worker, command, since, op, success, requests>>
      BY <2>5 DEF ServerNotifies, ServerAccepts, ServerChanges, Gone, vars, handlerVars, waitVars, linkVars
    <3>2. OldSets(requests', requests)
      BY <3>1 DEF OldSets
    <3>3. OldSets(replies', replies)
      <4>1. CASE ServerNotifies
        <5>1. Request("event", None) \in Message /\ Request("event", None).kind # "set"
          BY Bounds DEF Message, Request, Msg
        <5> QED
          BY <1>1, <4>1, <5>1, OldSetsLemma DEF ServerNotifies
      <4>2. CASE ~ServerNotifies
        BY <2>5, <4>2 DEF ServerAccepts, ServerChanges, Gone, vars, linkVars, OldSets
      <4> QED
        BY <4>1, <4>2
    <3> QED
      BY <1>2, <3>1, <3>2, <3>3
  <2> QED
    BY <1>5, <1>6, <1>9, <1>10, <1>12, <2>1, <2>2, <2>3, <2>4, <2>5 DEF Next, Mainloop, Server
<1>13. CASE UNCHANGED vars
  BY <1>2, <1>13 DEF vars, handlerVars, waitVars, linkVars, OldSets
<1> QED
  BY <1>12, <1>13

--------------------------------------------------------------------------------
(* Refreshes *)

\* What RefreshDevices() and the callbacks do to the RefreshStates.
LEMMA BeginsOne ==
  ASSUME TypeOK, NEW signal \in BOOLEAN, RefreshDevices(signal), context = "ready"
  PROVE  \E r \in Refreshes :
           /\ refresh[r] = None /\ refresh'[r] # None
           /\ refresh'[r] = [pending |-> 2, info |-> 0, sinks |-> 0, sources |-> 0, failed |-> {}, signal |-> signal]
           /\ requests' = Append(requests, Request("info", r))
           /\ \A q \in Refreshes \ {r} : refresh'[q] = refresh[q]
<1> DEFINE state == [pending |-> 2, info |-> 0, sinks |-> 0, sources |-> 0, failed |-> {}, signal |-> signal]
<1>1. state \in RefreshState
  BY Bounds DEF RefreshState
<1>2. state # None
  BY <1>1, NoneAssumption
<1>3. PICK r \in Refreshes : /\ refresh[r] = None
                             /\ refresh' = [refresh EXCEPT ![r] = state]
                             /\ requests' = Append(requests, Request("info", r))
  BY DEF RefreshDevices, Free, Lists
<1> QED
  BY <1>2, <1>3 DEF TypeOK

LEMMA InfoComes ==
  ASSUME TypeOK, LinkInv, ServerInfoCallback
  PROVE  \E r \in Refreshes, v \in 1..Len(server) :
           /\ replies # <<>> /\ replies' = Tail(replies)
           /\ replies[1].kind = "info" /\ replies[1].of = r /\ replies[1].version = v
           /\ InfoPhase(r) /\ refresh[r] \in RefreshState
           /\ refresh'[r] \in RefreshState /\ refresh'[r] # None /\ refresh'[r].info = v
           /\ refresh'[r].sinks = refresh[r].sinks /\ refresh'[r].sources = refresh[r].sources
           /\ refresh'[r].signal = refresh[r].signal
           /\ requests' = Append(Append(requests, Request("sinks", r)), Request("sources", r))
           /\ \A q \in Refreshes \ {r} : refresh'[q] = refresh[q]
<1>1. LinkType /\ Dispatch("info")
  BY DEF TypeOK, LinkType, ServerInfoCallback
<1>2. PICK r \in Refreshes, v \in 1..Len(server), m \in Message :
        m = Head(replies) /\ r = m.of /\ v = m.version /\ m.kind = "info"
  BY <1>1, Comes DEF Dispatch, Parts
<1>3. /\ refresh[r] \in RefreshState /\ refresh[r] # None /\ Out("info", r)
      /\ replies[1].kind = "info" /\ replies[1].of = r /\ replies[1].version = v
      /\ replies' = Tail(replies)
  BY <1>1, <1>2, Comes DEF Parts
<1>4. InfoPhase(r)
  BY <1>3 DEF LinkInv, WaitsForWhatComes, ListPhase
<1>5. /\ refresh' = [refresh EXCEPT ![r] = WithInfo(refresh[r], m)]
      /\ requests' = requests \o <<Request("sinks", r), Request("sources", r)>>
  BY <1>2 DEF ServerInfoCallback
<1>6. v \in 1..MaxVersion
  BY Bounds DEF TypeOK
<1>7. PICK new \in RefreshState :
        /\ new = WithInfo(refresh[r], m) /\ new.info = v /\ new.signal = refresh[r].signal
        /\ new.sinks = refresh[r].sinks /\ new.sources = refresh[r].sources
  BY <1>2, <1>3, <1>6, Told DEF Parts
<1>8. refresh'[r] = new /\ \A q \in Refreshes \ {r} : refresh'[q] = refresh[q]
  BY <1>5, <1>7 DEF TypeOK
<1>9. requests' = Append(Append(requests, Request("sinks", r)), Request("sources", r))
  <2>1. Request("sinks", r) \in Message /\ Request("sources", r) \in Message
    BY Bounds DEF Message, Request, Msg
  <2> QED
    BY <1>5, <2>1 DEF TypeOK
<1> QED
  BY <1>1, <1>3, <1>4, <1>7, <1>8, <1>9, NoneAssumption DEF Dispatch

\* A list comes: it is the first, or the last and completes the report.
LEMMA ListComes ==
  ASSUME TypeOK, LinkInv, NEW kind \in ListKinds, NEW type, ListCallback(kind, type)
  PROVE  \E r \in Refreshes, v \in 1..Len(server), state \in RefreshState :
           /\ replies # <<>> /\ replies' = Tail(replies) /\ requests' = requests
           /\ replies[1].kind = kind /\ replies[1].of = r /\ replies[1].version = v
           /\ ListPhase(r) /\ refresh[r] \in RefreshState /\ refresh[r] # None
           /\ state.info = refresh[r].info /\ state.signal = refresh[r].signal
           /\ state.sinks   = IF kind = "sinks" THEN v ELSE refresh[r].sinks
           /\ state.sources = IF kind = "sources" THEN v ELSE refresh[r].sources
           /\ \A q \in Refreshes \ {r} : refresh'[q] = refresh[q]
           /\ \/ /\ refresh'[r] \in RefreshState /\ refresh'[r] # None
                 /\ refresh'[r].info = state.info /\ refresh'[r].signal = state.signal
                 /\ refresh'[r].sinks = state.sinks /\ refresh'[r].sources = state.sources
                 /\ UNCHANGED <<report, done, woken>>
              \/ /\ refresh'[r] = None
                 /\ state.info # 0 /\ state.sinks # 0 /\ state.sources # 0
                 /\ report' = ReportOf(state)
                 /\ done' = (done \/ state.signal) /\ woken' = (woken \/ state.signal)
<1>1. LinkType /\ Dispatch(kind) /\ kind \in Parts /\ UNCHANGED requests
  BY DEF TypeOK, LinkType, ListCallback, ListKinds, Parts
<1>2. PICK r \in Refreshes, v \in 1..Len(server), m \in Message :
        m = Head(replies) /\ r = m.of /\ v = m.version /\ m.kind = kind
  BY <1>1, Comes DEF Dispatch
<1>3. /\ refresh[r] \in RefreshState /\ refresh[r] # None /\ Out(kind, r)
      /\ replies[1].kind = kind /\ replies[1].of = r /\ replies[1].version = v
      /\ replies' = Tail(replies)
  BY <1>1, <1>2, Comes
<1>4. ListPhase(r)
  BY <1>3 DEF LinkInv, WaitsForWhatComes, InfoPhase, ListKinds
<1>5. v \in 1..MaxVersion
  BY Bounds DEF TypeOK
<1> DEFINE state == WithList(refresh[r], m)
<1>6. /\ state.pending = refresh[r].pending /\ state.info = refresh[r].info
      /\ state.signal = refresh[r].signal
      /\ state.sinks   = IF kind = "sinks" THEN v ELSE refresh[r].sinks
      /\ state.sources = IF kind = "sources" THEN v ELSE refresh[r].sources
      /\ state \in RefreshState
  BY <1>2, <1>3, <1>5, Filled
<1>7. CompleteOne(r, state)
  BY <1>2 DEF ListCallback
<1> HIDE DEF state
<1>8. CASE state.pending > 1
  <2> DEFINE new == [state EXCEPT !.pending = @ - 1]
  <2>1. refresh' = [refresh EXCEPT ![r] = new] /\ UNCHANGED <<report, done, woken>>
    BY <1>7, <1>8 DEF CompleteOne
  <2>2. /\ new \in RefreshState /\ new.info = state.info /\ new.signal = state.signal
        /\ new.sinks = state.sinks /\ new.sources = state.sources
    BY <1>6, <1>8 DEF RefreshState
  <2> HIDE DEF new
  <2>3. refresh'[r] = new /\ \A q \in Refreshes \ {r} : refresh'[q] = refresh[q]
    BY <2>1 DEF TypeOK
  <2> QED
    BY <1>1, <1>3, <1>4, <1>6, <2>1, <2>2, <2>3, NoneAssumption DEF Dispatch
<1>9. CASE ~(state.pending > 1)
  <2>1. /\ refresh' = [refresh EXCEPT ![r] = None]
        /\ report' = ReportOf(state)
        /\ done' = (done \/ state.signal) /\ woken' = (woken \/ state.signal)
    BY <1>7, <1>9 DEF CompleteOne, Done, Signalled
  <2>2. refresh'[r] = None /\ \A q \in Refreshes \ {r} : refresh'[q] = refresh[q]
    BY <2>1 DEF TypeOK
  <2>3. refresh[r].pending # 2 /\ v # 0
    BY <1>6, <1>9
  <2>4. state.info # 0 /\ state.sinks # 0 /\ state.sources # 0
    <3>1. CASE kind = "sinks"
      BY <1>3, <1>4, <1>6, <2>3, <3>1 DEF ListPhase
    <3>2. CASE kind = "sources"
      BY <1>3, <1>4, <1>6, <2>3, <3>2 DEF ListPhase
    <3> QED
      BY <3>1, <3>2 DEF ListKinds
  <2> QED
    BY <1>1, <1>3, <1>4, <1>6, <2>1, <2>2, <2>4 DEF Dispatch
<1> QED
  BY <1>8, <1>9

\* Only handle_refresh() begins a refresh that signals, and its end sets the flag.
LEMMA SignalsStep ==
  ASSUME TypeOK, LinkInv, [Next]_vars, ~HandleRefresh
  PROVE  /\ \A r \in Refreshes : Signals(r)' => Signals(r)
         /\ done' => done \/ \E r \in Refreshes : Signals(r) /\ refresh'[r] = None
<1>1. CASE UNCHANGED <<refresh, done>>
  BY <1>1 DEF Signals
<1>2. CASE WaitReturns
  <2>1. UNCHANGED refresh /\ (done' => done)
    BY <1>2 DEF WaitReturns, KeepsWaiting
  <2> QED
    BY <2>1 DEF Signals
<1>3. CASE SubscribeCallback
  <2>1. UNCHANGED done /\ RefreshDevices(FALSE)
    BY <1>3 DEF SubscribeCallback, waitVars
  <2>2. CASE context = "ready"
    <3>1. PICK r \in Refreshes :
            /\ refresh'[r] = [pending |-> 2, info |-> 0, sinks |-> 0, sources |-> 0, failed |-> {}, signal |-> FALSE]
            /\ \A q \in Refreshes \ {r} : refresh'[q] = refresh[q]
      BY <2>1, <2>2, BeginsOne
    <3>2. ~Signals(r)'
      BY <3>1 DEF Signals
    <3> QED
      BY <2>1, <3>1, <3>2 DEF Signals
  <2>3. CASE context # "ready"
    BY <2>1, <2>3 DEF RefreshDevices, Signals
  <2> QED
    BY <2>2, <2>3
<1>4. CASE ServerInfoCallback
  <2>1. PICK r \in Refreshes, v \in 1..Len(server) :
          /\ InfoPhase(r) /\ refresh[r] \in RefreshState
          /\ refresh'[r].signal = refresh[r].signal
          /\ \A q \in Refreshes \ {r} : refresh'[q] = refresh[q]
    BY <1>4, InfoComes
  <2>2. refresh[r] # None
    BY <2>1, NoneAssumption
  <2> QED
    BY <1>4, <2>1, <2>2 DEF ServerInfoCallback, waitVars, Signals
<1>5. ASSUME NEW kind \in ListKinds, NEW type, ListCallback(kind, type)
      PROVE  /\ \A r \in Refreshes : Signals(r)' => Signals(r)
             /\ done' => done \/ \E r \in Refreshes : Signals(r) /\ refresh'[r] = None
  <2>1. PICK r \in Refreshes, v \in 1..Len(server), state \in RefreshState :
          /\ refresh[r] # None /\ state.signal = refresh[r].signal
          /\ \A q \in Refreshes \ {r} : refresh'[q] = refresh[q]
          /\ \/ refresh'[r] # None /\ refresh'[r].signal = state.signal /\ UNCHANGED done
             \/ refresh'[r] = None /\ done' = (done \/ state.signal)
    BY <1>5, ListComes
  <2>2. \A q \in Refreshes : Signals(q)' => Signals(q)
    BY <2>1 DEF Signals
  <2>3. done' => done \/ (state.signal /\ refresh'[r] = None)
    BY <2>1
  <2> QED
    BY <2>1, <2>2, <2>3 DEF Signals
<1>6. ASSUME NEW state, ContextEnds(state), UNCHANGED done
      PROVE  (\A r \in Refreshes : ~Signals(r)') /\ UNCHANGED done
  BY <1>6 DEF ContextEnds, Signals
<1>7. CASE Next
  <2>1. CASE Constructor
    BY <2>1, <1>1 DEF Constructor, InitWaits, InitSubscribes, waitVars
  <2>2. CASE Worker \/ SpuriousWakeup
    BY <2>2, <1>1, <1>2 DEF Worker, WorkerWakes, SpuriousWakeup, SendCommand
  <2>3. CASE Destroy \/ ServerDies
    BY <2>3, <1>6 DEF Destroy, ServerDies
  <2>4. CASE Mainloop
    BY <2>4, <1>1, <1>3, <1>4, <1>5 DEF Mainloop, SinkInfoCallback, SourceInfoCallback, ListKinds,
       SuccessCallback
  <2>5. CASE Server \/ ServerAccepts \/ ServerChanges \/ Gone
    BY <2>5, <1>1 DEF Server, ServerNotifies, ServerAnswers, ServerAccepts, ServerChanges, Gone, vars,
       waitVars
  <2>6. CASE \E c \in Command : LookupDevice(c)
    BY <2>6, <1>1 DEF LookupDevice, waitVars
  <2> QED
    BY <1>7, <2>1, <2>2, <2>3, <2>4, <2>5, <2>6 DEF Next
<1> QED
  BY <1>1, <1>7 DEF vars, waitVars

LEMMA HandlerStep ==
  ASSUME TypeOK, LinkInv, HandlerInv, CommandInv, [Next]_vars
  PROVE  HandlerInv'
<1>1. CASE HandleRefresh
  <2>1. worker = "idle" /\ worker' = "refresh" /\ done' = FALSE /\ RefreshDevices(TRUE)
    BY <1>1 DEF HandleRefresh, NextRequest
  <2>2. \A r \in Refreshes : ~Signals(r)
    BY <2>1 DEF HandlerInv
  <2>3. CASE context = "ready"
    <3>1. PICK r \in Refreshes : \A q \in Refreshes \ {r} : refresh'[q] = refresh[q]
      BY <2>1, <2>3, BeginsOne
    <3>2. \A q \in Refreshes : Signals(q)' => q = r
      BY <2>2, <3>1 DEF Signals
    <3> QED
      BY <2>1, <3>2 DEF HandlerInv
  <2>4. CASE context # "ready"
    <3>1. \A r \in Refreshes : ~Signals(r)'
      BY <2>1, <2>2, <2>4 DEF RefreshDevices, Signals
    <3> QED
      BY <2>1, <3>1 DEF HandlerInv
  <2> QED
    BY <2>3, <2>4
<1>2. SUFFICES ASSUME ~HandleRefresh PROVE HandlerInv'
  BY <1>1
<1>3. /\ \A r \in Refreshes : Signals(r)' => Signals(r)
      /\ done' => done \/ \E r \in Refreshes : Signals(r) /\ refresh'[r] = None
  BY <1>2, SignalsStep
<1>4. /\ worker' = "refresh" => worker = "refresh"
      /\ worker = "refresh" /\ worker' # "refresh" => done /\ ~done'
  BY <1>2 DEF Next, Constructor, Worker, WorkerWakes, SpuriousWakeup, Mainloop, Server, Gone, vars,
     handlerVars, InitWaits, InitSubscribes, SendCommand, WaitReturns, KeepsWaiting, Destroy,
     LookupDevice, NextRequest, SubscribeCallback, ServerInfoCallback, SinkInfoCallback,
     SourceInfoCallback, ListCallback, SuccessCallback, ServerNotifies, ServerAnswers, ServerChanges,
     ServerAccepts, ServerDies
<1>5. CASE worker' # "refresh"
  <2>1. \A r \in Refreshes : ~Signals(r)
    BY <1>4, <1>5 DEF HandlerInv
  <2> QED
    BY <1>3, <1>4, <1>5, <2>1 DEF HandlerInv
<1>6. CASE worker' = "refresh"
  <2>1. done' => \A r \in Refreshes : ~Signals(r)'
    <3>1. CASE done
      BY <1>3, <3>1 DEF HandlerInv
    <3>2. CASE ~done
      BY <1>3, <3>2 DEF HandlerInv, Signals
    <3> QED
      BY <3>1, <3>2
  <2> QED
    BY <1>3, <1>6, <2>1 DEF HandlerInv
<1> QED
  BY <1>5, <1>6

--------------------------------------------------------------------------------
(* Reports *)

LEMMA TailIsNewer ==
  ASSUME NEW queue \in Seq(Message), queue # <<>>, NEW s, NEW q, NEW r
  PROVE  LET rest == Tail(queue) IN
         /\ NoList(queue, q) => NoList(rest, q)
         /\ OldList(rest, q, s) => OldList(queue, q, s)
         /\ OldInfos(rest, s) # {} => OldInfos(queue, s) # {}
         /\ InfosBefore(queue, r, s) => InfosBefore(rest, r, s)
         /\ ListsBefore(queue, q, r) => ListsBefore(rest, q, r)
<1> DEFINE rest == Tail(queue)
<1>1. ASSUME NEW i \in 1..Len(rest)
      PROVE  i + 1 \in 1..Len(queue) /\ rest[i] = queue[i + 1] /\ i \in Nat
  BY TailLemma
<1> HIDE DEF rest
<1>2. NoList(queue, q) => NoList(rest, q)
  BY <1>1 DEF NoList
<1>3. OldList(rest, q, s) => OldList(queue, q, s)
  BY <1>1 DEF OldList
<1>4. \A i \in OldInfos(rest, s) : i \in 1..Len(rest) /\ i + 1 \in OldInfos(queue, s)
  BY <1>1 DEF OldInfos
<1>5. InfosBefore(queue, r, s) => InfosBefore(rest, r, s)
  <2> SUFFICES ASSUME InfosBefore(queue, r, s), NEW i \in OldInfos(rest, s), NEW j \in 1..Len(rest)
               PROVE  rest[i].of # r /\ (rest[j].kind = "info" /\ rest[j].of = r => i < j)
    BY DEF InfosBefore
  <2>1. i + 1 \in OldInfos(queue, s) /\ j + 1 \in 1..Len(queue) /\ i \in Nat /\ j \in Nat
    BY <1>1, <1>4
  <2>2. rest[i] = queue[i + 1] /\ rest[j] = queue[j + 1]
    BY <1>1, <1>4
  <2>3. queue[i + 1].of # r /\ (queue[j + 1].kind = "info" /\ queue[j + 1].of = r => i + 1 < j + 1)
    BY <2>1 DEF InfosBefore
  <2> QED
    BY <2>1, <2>2, <2>3
<1>6. ListsBefore(queue, q, r) => ListsBefore(rest, q, r)
  <2> SUFFICES ASSUME ListsBefore(queue, q, r), NEW i \in 1..Len(rest), NEW j \in 1..Len(rest),
                      ListOf(rest[i], q), ListOf(rest[j], r)
               PROVE  i < j
    BY DEF ListsBefore
  <2>1. /\ i + 1 \in 1..Len(queue) /\ j + 1 \in 1..Len(queue) /\ i \in Nat /\ j \in Nat
        /\ ListOf(queue[i + 1], q) /\ ListOf(queue[j + 1], r)
    BY <1>1
  <2>2. i + 1 < j + 1
    BY <2>1 DEF ListsBefore
  <2> QED
    BY <2>1, <2>2
<1> QED
  BY <1>2, <1>3, <1>4, <1>5, <1>6 DEF rest

LEMMA AppendIsNew ==
  ASSUME NEW queue \in Seq(Message), NEW m \in Message, NEW s, NEW q, NEW r
  PROVE  LET longer == Append(queue, m) IN
         /\ NoList(queue, q) /\ ~ListOf(m, q) => NoList(longer, q)
         /\ ~(ListOf(m, q) /\ Old(m.version, s)) => (OldList(longer, q, s) => OldList(queue, q, s))
         /\ ~(m.kind = "info" /\ Old(m.version, s)) =>
              /\ OldInfos(longer, s) # {} => OldInfos(queue, s) # {}
              /\ InfosBefore(queue, r, s) => InfosBefore(longer, r, s)
         /\ ListsBefore(queue, q, r) /\ q # r /\ (~ListOf(m, q) \/ NoList(queue, r)) =>
              ListsBefore(longer, q, r)
<1> DEFINE longer == Append(queue, m)
<1>1. /\ Len(queue) \in Nat /\ Len(longer) = Len(queue) + 1
      /\ \A i \in 1..(Len(queue) + 1) : longer[i] = IF i = Len(queue) + 1 THEN m ELSE queue[i]
  BY AppendLemma
<1> HIDE DEF longer
<1>2. NoList(queue, q) /\ ~ListOf(m, q) => NoList(longer, q)
  BY <1>1 DEF NoList
<1>3. ~(ListOf(m, q) /\ Old(m.version, s)) => (OldList(longer, q, s) => OldList(queue, q, s))
  BY <1>1 DEF OldList
<1>4. ~(m.kind = "info" /\ Old(m.version, s)) =>
        \A i \in OldInfos(longer, s) : i \in OldInfos(queue, s) /\ i \in 1..Len(queue)
  BY <1>1 DEF OldInfos
<1>5. ~(m.kind = "info" /\ Old(m.version, s)) /\ InfosBefore(queue, r, s) => InfosBefore(longer, r, s)
  <2> SUFFICES ASSUME ~(m.kind = "info" /\ Old(m.version, s)), InfosBefore(queue, r, s),
                      NEW i \in OldInfos(longer, s), NEW j \in 1..Len(longer)
               PROVE  longer[i].of # r /\ (longer[j].kind = "info" /\ longer[j].of = r => i < j)
    BY DEF InfosBefore
  <2>1. i \in OldInfos(queue, s) /\ i \in 1..Len(queue) /\ longer[i] = queue[i]
    BY <1>1, <1>4
  <2> QED
    BY <1>1, <2>1 DEF InfosBefore
<1>6. ListsBefore(queue, q, r) /\ q # r /\ (~ListOf(m, q) \/ NoList(queue, r)) => ListsBefore(longer, q, r)
  <2> SUFFICES ASSUME ListsBefore(queue, q, r), q # r, ~ListOf(m, q) \/ NoList(queue, r),
                      NEW i \in 1..Len(longer), NEW j \in 1..Len(longer),
                      ListOf(longer[i], q), ListOf(longer[j], r)
               PROVE  i < j
    BY DEF ListsBefore
  <2>1. CASE j = Len(queue) + 1
    BY <1>1, <2>1 DEF ListOf
  <2>2. CASE j # Len(queue) + 1
    BY <1>1, <2>2 DEF ListsBefore, NoList
  <2> QED
    BY <2>1, <2>2
<1> QED
  BY <1>2, <1>3, <1>4, <1>5, <1>6 DEF longer

\* A callback takes a reply.
LEMMA RestIsNewer ==
  ASSUME TypeOK, replies # <<>>, replies' = Tail(replies), NEW s
  PROVE  /\ OldInfos(replies', s) # {} => OldInfos(replies, s) # {}
         /\ \A r \in Refreshes : InfosBefore(replies, r, s) => InfosBefore(replies', r, s)
         /\ \A q \in Refreshes : OldList(replies', q, s) => OldList(replies, q, s)
         /\ \A q, r \in Refreshes : ListsBefore(replies, q, r) => ListsBefore(replies', q, r)
         /\ \A q \in Refreshes : NoList(replies, q) => NoList(replies', q)
         /\ 1 \in 1..Len(replies) /\ Head(replies) = replies[1] /\ replies[1] \in Message
<1>1. replies \in Seq(Message)
  BY DEF TypeOK
<1>2. OldInfos(replies', s) # {} => OldInfos(replies, s) # {}
  BY <1>1, TailIsNewer
<1>3. ASSUME NEW q \in Refreshes
      PROVE  /\ InfosBefore(replies, q, s) => InfosBefore(replies', q, s)
             /\ OldList(replies', q, s) => OldList(replies, q, s)
             /\ NoList(replies, q) => NoList(replies', q)
  BY <1>1, TailIsNewer
<1>4. ASSUME NEW q \in Refreshes, NEW r \in Refreshes
      PROVE  ListsBefore(replies, q, r) => ListsBefore(replies', q, r)
  BY <1>1, TailIsNewer
<1>5. 1 \in 1..Len(replies) /\ Head(replies) = replies[1] /\ replies[1] \in Message
  BY <1>1, TailLemma
<1> QED
  BY <1>2, <1>3, <1>4, <1>5

\* A refresh that begins now: whatever is older comes before it.
LEMMA NewsBegin ==
  ASSUME TypeOK, LinkInv, context = "ready", NEW signal \in BOOLEAN, RefreshDevices(signal),
         UNCHANGED replies \/ (replies # <<>> /\ replies' = Tail(replies)), NEW s
  PROVE  \E r \in Refreshes :
           /\ refresh[r] = None /\ refresh'[r] # None /\ News(r, s)'
           /\ \A q \in Refreshes \ {r} : refresh'[q] = refresh[q]
<1>1. PICK r \in Refreshes :
        /\ refresh[r] = None /\ refresh'[r] # None
        /\ refresh'[r] = [pending |-> 2, info |-> 0, sinks |-> 0, sources |-> 0, failed |-> {}, signal |-> signal]
        /\ \A q \in Refreshes \ {r} : refresh'[q] = refresh[q]
  BY BeginsOne
<1>2. \A i \in 1..Len(replies) : replies[i].kind \in Parts => replies[i].of # r
  BY <1>1 DEF LinkInv, WaitsForWhatComes, Out, OnTheWay, In
<1>3. InfosBefore(replies, r, s) /\ ~OldList(replies, r, s)
  BY <1>2 DEF InfosBefore, OldInfos, OldList, ListOf, ListKinds, Parts
<1>4. InfosBefore(replies', r, s) /\ ~OldList(replies', r, s)
  BY <1>3, RestIsNewer
<1>5. ~Tainted(r, s)'
  BY <1>1, <1>4 DEF Tainted, Old
<1>6. News(r, s)'
  BY <1>1, <1>4, <1>5 DEF News
<1> QED
  BY <1>1, <1>6

\* A step after which nothing is old that was not, and which keeps all refreshes.
AddsNothingOld(s) ==
  /\ OldInfos(replies', s) # {} => OldInfos(replies, s) # {}
  /\ \A q \in Refreshes : Tainted(q, s)' => Tainted(q, s)
  /\ \A r \in Refreshes : refresh[r] # None =>
       /\ refresh'[r] = refresh[r]
       /\ InfosBefore(replies, r, s) => InfosBefore(replies', r, s)
       /\ \A q \in Refreshes \ {r} : Tainted(q, s) /\ Ahead(q, r) => Ahead(q, r)'
  /\ UNCHANGED report

LEMMA NothingOldAdded ==
  ASSUME NEW s, AddsNothingOld(s)
  PROVE  /\ NothingOld(s) => NothingOld(s)'
         /\ \A r \in Refreshes : refresh[r] # None /\ News(r, s) => refresh'[r] # None /\ News(r, s)'
<1>1. NothingOld(s) => NothingOld(s)'
  BY DEF AddsNothingOld, NothingOld
<1>2. ASSUME NEW r \in Refreshes, refresh[r] # None, News(r, s)
      PROVE  refresh'[r] # None /\ News(r, s)'
  <2>1. ~Tainted(r, s)' /\ InfosBefore(replies', r, s) /\ refresh'[r] = refresh[r]
    BY <1>2 DEF AddsNothingOld, News
  <2>2. OldInfos(replies', s) # {} => refresh'[r].info = 0
    BY <1>2, <2>1 DEF AddsNothingOld, News
  <2>3. refresh'[r].info # 0 => \A q \in Refreshes : Tainted(q, s)' => Ahead(q, r)'
    BY <1>2, <2>1 DEF AddsNothingOld, News
  <2> QED
    BY <1>2, <2>1, <2>2, <2>3 DEF News
<1> QED
  BY <1>1, <1>2

Reads == ServerInfoCallback \/ SinkInfoCallback \/ SourceInfoCallback
Ends == ServerDies \/ Destroy

\* What the worker and the server do.
LEMMA OthersAddNothingOld ==
  ASSUME TypeOK, LinkInv, CommandInv, [Next]_vars, ~Mainloop, ~Ends, NEW s \in 1..Len(server)
  PROVE  AddsNothingOld(s)
<1>1. /\ requests \in Seq(Message) /\ replies \in Seq(Message) /\ Len(server) \in Nat
  BY DEF TypeOK
<1>2. CASE UNCHANGED <<requests, replies, refresh, report>>
  BY <1>2 DEF AddsNothingOld, Tainted, Ahead
<1>3. ASSUME NEW m \in Message, requests' = Append(requests, m), \A q : ~ListOf(m, q),
             UNCHANGED <<replies, refresh, report>>
      PROVE  AddsNothingOld(s)
  <2>1. \A q, r \in Refreshes : q # r /\ Ahead(q, r) => Ahead(q, r)'
    BY <1>1, <1>3, AppendIsNew DEF Ahead
  <2> QED
    BY <1>3, <2>1 DEF AddsNothingOld, Tainted
<1>4. CASE InitSubscribes /\ context = "ready"
  <2> DEFINE m == Request("subscribe", None)
  <2>1. requests' = Append(requests, m) /\ UNCHANGED <<replies, refresh, report>>
    BY <1>4 DEF InitSubscribes
  <2>2. m \in Message /\ \A q : ~ListOf(m, q)
    BY Bounds DEF Message, Request, Msg, ListOf, ListKinds
  <2> HIDE DEF m
  <2> QED
    BY <1>3, <2>1, <2>2
<1>5. CASE SendCommand /\ context = "ready"
  <2> DEFINE m == Request("set", command)
  <2>1. requests' = Append(requests, m) /\ UNCHANGED <<replies, refresh, report>>
    BY <1>5 DEF SendCommand
  <2>2. m \in Message /\ \A q : ~ListOf(m, q)
    BY <1>5, Bounds DEF SendCommand, CommandInv, Message, Request, Msg, ListOf, ListKinds
  <2> HIDE DEF m
  <2> QED
    BY <1>3, <2>1, <2>2
<1>6. CASE HandleRefresh /\ context = "ready"
  <2>1. PICK n \in Refreshes :
          /\ refresh[n] = None
          /\ refresh'[n] = [pending |-> 2, info |-> 0, sinks |-> 0, sources |-> 0, failed |-> {}, signal |-> TRUE]
          /\ requests' = Append(requests, Request("info", n))
          /\ \A q \in Refreshes \ {n} : refresh'[q] = refresh[q]
    BY <1>6, BeginsOne DEF HandleRefresh
  <2>2. UNCHANGED <<replies, report>>
    BY <1>6 DEF HandleRefresh
  <2>3. Request("info", n) \in Message /\ \A q : ~ListOf(Request("info", n), q)
    BY Bounds DEF Message, Request, Msg, ListOf, ListKinds
  <2>4. \A q, r \in Refreshes : q # r /\ Ahead(q, r) => Ahead(q, r)'
    BY <1>1, <2>1, <2>2, <2>3, AppendIsNew DEF Ahead
  <2>5. ~OldList(replies, n, s)
    BY <2>1 DEF LinkInv, WaitsForWhatComes, Out, OnTheWay, In, OldList, ListOf, ListKinds, Parts
  <2>6. \A q \in Refreshes : Tainted(q, s)' => Tainted(q, s)
    BY <2>1, <2>2, <2>5 DEF Tainted, Old
  <2> QED
    BY <2>1, <2>2, <2>4, <2>6 DEF AddsNothingOld
<1>7. ASSUME NEW m \in Message, replies' = Append(replies, m), m.kind # "info", \A q : ~ListOf(m, q),
             UNCHANGED requests \/ (requests # <<>> /\ requests' = Tail(requests)),
             UNCHANGED <<refresh, report>>
      PROVE  AddsNothingOld(s)
  <2>1. ASSUME NEW q \in Refreshes, NEW r \in Refreshes, q # r, Ahead(q, r) PROVE Ahead(q, r)'
    <3>1. ListsBefore(replies', q, r) /\ (NoList(replies, r) => NoList(replies', r))
      BY <1>1, <1>7, <2>1, AppendIsNew DEF Ahead
    <3>2. ListsBefore(requests', q, r) /\ (NoList(requests, q) => NoList(requests', q))
      <4>1. CASE UNCHANGED requests
        BY <2>1, <4>1 DEF Ahead
      <4>2. CASE requests # <<>> /\ requests' = Tail(requests)
        BY <1>1, <2>1, <4>2, TailIsNewer DEF Ahead
      <4> QED
        BY <1>7, <4>1, <4>2
    <3> QED
      BY <2>1, <3>1, <3>2 DEF Ahead
  <2>2. /\ OldInfos(replies', s) # {} => OldInfos(replies, s) # {}
        /\ \A r \in Refreshes : InfosBefore(replies, r, s) => InfosBefore(replies', r, s)
        /\ \A q \in Refreshes : OldList(replies', q, s) => OldList(replies, q, s)
    BY <1>1, <1>7, AppendIsNew
  <2> QED
    BY <1>7, <2>1, <2>2 DEF AddsNothingOld, Tainted
<1>8. CASE ServerNotifies
  <2> DEFINE m == Request("event", None)
  <2>1. replies' = Append(replies, m) /\ UNCHANGED <<requests, refresh, report>>
    BY <1>8 DEF ServerNotifies
  <2>2. m \in Message /\ m.kind # "info" /\ \A q : ~ListOf(m, q)
    BY Bounds DEF Message, Request, Msg, ListOf, ListKinds
  <2> HIDE DEF m
  <2> QED
    BY <1>7, <2>1, <2>2
<1>9. CASE ServerAnswers
  <2> DEFINE request == Head(requests)
  <2>1. /\ requests # <<>> /\ requests' = Tail(requests) /\ UNCHANGED <<refresh, report>>
        /\ request = requests[1] /\ 1 \in 1..Len(requests) /\ request \in Message
    BY <1>9, Replied
  <2>2. CASE UNCHANGED replies
    <3>1. \A q, r \in Refreshes : Ahead(q, r) => Ahead(q, r)'
      BY <1>1, <2>1, <2>2, TailIsNewer DEF Ahead
    <3> QED
      BY <2>1, <2>2, <3>1 DEF AddsNothingOld, Tainted
  <2>3. ASSUME NEW m \in Message, m.kind = request.kind, m.of = request.of, m.version = Len(server),
               replies' = Append(replies, m)
        PROVE  AddsNothingOld(s)
    <3>1. replies' = Append(replies, m)
      BY <2>3
    <3>2. ~Old(m.version, s) /\ \A q : ListOf(m, q) <=> ListOf(request, q)
      BY <1>1, <2>3 DEF Old, ListOf
    <3>3. ASSUME NEW q \in Refreshes, NEW r \in Refreshes, q # r, Ahead(q, r) PROVE Ahead(q, r)'
      <4>1. ListsBefore(requests', q, r)
        BY <1>1, <2>1, <3>3, TailIsNewer DEF Ahead
      <4>2. ListsBefore(replies', q, r)
        <5>1. ~ListOf(m, q) \/ NoList(replies, r)
          BY <2>1, <3>2, <3>3 DEF Ahead, NoList
        <5> QED
          BY <1>1, <3>1, <3>2, <3>3, <5>1, AppendIsNew DEF Ahead
      <4>3. NoList(requests', q) \/ NoList(replies', r)
        <5>1. CASE NoList(requests, q)
          BY <1>1, <2>1, <5>1, TailIsNewer
        <5>2. CASE ListOf(request, r)
          <6>1. NoList(requests, q)
            BY <1>1, <2>1, <3>3, <5>2 DEF Ahead, ListsBefore, NoList
          <6> QED
            BY <5>1, <6>1
        <5>3. CASE ~NoList(requests, q) /\ ~ListOf(request, r)
          BY <1>1, <3>1, <3>2, <3>3, <5>3, AppendIsNew DEF Ahead
        <5> QED
          BY <5>1, <5>2, <5>3
      <4> QED
        BY <4>1, <4>2, <4>3 DEF Ahead
    <3>4. /\ OldInfos(replies', s) # {} => OldInfos(replies, s) # {}
          /\ \A r \in Refreshes : InfosBefore(replies, r, s) => InfosBefore(replies', r, s)
          /\ \A q \in Refreshes : OldList(replies', q, s) => OldList(replies, q, s)
      BY <1>1, <3>1, <3>2, AppendIsNew
    <3> QED
      BY <2>1, <3>3, <3>4 DEF AddsNothingOld, Tainted
  <2> QED
    BY <1>9, <2>2, <2>3, Replied
<1>10. CASE Next
  <2>1. CASE Constructor
    BY <2>1, <1>2, <1>4 DEF Constructor, InitWaits, InitSubscribes, linkVars
  <2>2. CASE Worker \/ SpuriousWakeup
    BY <2>2, <1>2, <1>5 DEF Worker, WorkerWakes, SpuriousWakeup, SendCommand, WaitReturns, linkVars
  <2>3. CASE HandleRefresh
    BY <2>3, <1>2, <1>6 DEF HandleRefresh, RefreshDevices
  <2>4. CASE \E c \in Command : LookupDevice(c)
    BY <2>4, <1>2 DEF LookupDevice, linkVars
  <2>5. CASE Server \/ ServerAccepts \/ ServerChanges \/ Gone
    BY <2>5, <1>2, <1>8, <1>9 DEF Server, ServerAccepts, ServerChanges, Gone, linkVars, vars
  <2> QED
    BY <1>10, <2>1, <2>2, <2>3, <2>4, <2>5 DEF Next, Ends
<1> QED
  BY <1>2, <1>10 DEF vars, linkVars

\* What the callbacks of an event and of a command do.
LEMMA CallbacksAddNothingOld ==
  ASSUME TypeOK, LinkInv, SubscribeCallback \/ SuccessCallback, NEW s
  PROVE  AddsNothingOld(s)
<1>1. /\ requests \in Seq(Message) /\ replies # <<>> /\ replies' = Tail(replies) /\ UNCHANGED report
  BY DEF TypeOK, SubscribeCallback, SuccessCallback, Dispatch
<1>2. /\ OldInfos(replies', s) # {} => OldInfos(replies, s) # {}
      /\ \A r \in Refreshes : InfosBefore(replies, r, s) => InfosBefore(replies', r, s)
      /\ \A q \in Refreshes : OldList(replies', q, s) => OldList(replies, q, s)
      /\ \A q, r \in Refreshes : ListsBefore(replies, q, r) => ListsBefore(replies', q, r)
      /\ \A q \in Refreshes : NoList(replies, q) => NoList(replies', q)
  BY <1>1, RestIsNewer
<1>3. CASE UNCHANGED <<refresh, requests>>
  <2>1. \A q, r \in Refreshes : Ahead(q, r) => Ahead(q, r)'
    BY <1>2, <1>3 DEF Ahead
  <2> QED
    BY <1>1, <1>2, <1>3, <2>1 DEF AddsNothingOld, Tainted
<1>4. CASE SubscribeCallback /\ context = "ready"
  <2>1. PICK n \in Refreshes :
          /\ refresh[n] = None
          /\ refresh'[n] = [pending |-> 2, info |-> 0, sinks |-> 0, sources |-> 0, failed |-> {}, signal |-> FALSE]
          /\ requests' = Append(requests, Request("info", n))
          /\ \A q \in Refreshes \ {n} : refresh'[q] = refresh[q]
    BY <1>4, BeginsOne DEF SubscribeCallback
  <2>2. Request("info", n) \in Message /\ \A q : ~ListOf(Request("info", n), q)
    BY Bounds DEF Message, Request, Msg, ListOf, ListKinds
  <2>3. \A q, r \in Refreshes : q # r /\ Ahead(q, r) => Ahead(q, r)'
    BY <1>1, <1>2, <2>1, <2>2, AppendIsNew DEF Ahead
  <2>4. ~OldList(replies, n, s)
    BY <2>1 DEF LinkInv, WaitsForWhatComes, Out, OnTheWay, In, OldList, ListOf, ListKinds, Parts
  <2>5. \A q \in Refreshes : Tainted(q, s)' => Tainted(q, s)
    BY <1>2, <2>1, <2>4 DEF Tainted, Old
  <2> QED
    BY <1>1, <1>2, <2>1, <2>3, <2>5 DEF AddsNothingOld
<1> QED
  BY <1>3, <1>4 DEF SubscribeCallback, SuccessCallback, RefreshDevices

\* The server's info comes.
LEMMA InfoIsNews ==
  ASSUME TypeOK, LinkInv, ServerInfoCallback, NEW s \in Nat
  PROVE  /\ NothingOld(s) => NothingOld(s)'
         /\ \A r \in Refreshes : refresh[r] # None /\ News(r, s) => refresh'[r] # None /\ News(r, s)'
         /\ UNCHANGED report
<1>1. PICK n \in Refreshes, v \in 1..Len(server) :
        /\ replies # <<>> /\ replies' = Tail(replies)
        /\ replies[1].kind = "info" /\ replies[1].of = n /\ replies[1].version = v
        /\ InfoPhase(n) /\ refresh[n] \in RefreshState
        /\ refresh'[n] # None /\ refresh'[n].info = v
        /\ refresh'[n].sinks = refresh[n].sinks /\ refresh'[n].sources = refresh[n].sources
        /\ requests' = Append(Append(requests, Request("sinks", n)), Request("sources", n))
        /\ \A q \in Refreshes \ {n} : refresh'[q] = refresh[q]
  BY InfoComes
<1>2. UNCHANGED report
  BY DEF ServerInfoCallback
<1>3. /\ refresh[n].info = 0 /\ refresh[n].sinks = 0 /\ refresh[n].sources = 0 /\ refresh[n] # None
      /\ refresh'[n].info = v /\ refresh'[n].sinks = 0 /\ refresh'[n].sources = 0
  BY <1>1, NoneAssumption DEF InfoPhase
<1>4. NoList(requests, n) /\ NoList(replies, n) /\ requests \in Seq(Message) /\ replies \in Seq(Message)
  BY <1>1 DEF InfoPhase, Out, OnTheWay, In, NoList, ListOf, ListKinds, TypeOK
<1>5. /\ OldInfos(replies', s) # {} => OldInfos(replies, s) # {}
      /\ \A r \in Refreshes : InfosBefore(replies, r, s) => InfosBefore(replies', r, s)
      /\ \A q \in Refreshes : OldList(replies', q, s) => OldList(replies, q, s)
      /\ \A q, r \in Refreshes : ListsBefore(replies, q, r) => ListsBefore(replies', q, r)
      /\ \A q \in Refreshes : NoList(replies, q) => NoList(replies', q)
      /\ 1 \in 1..Len(replies)
  BY <1>1, RestIsNewer
<1>6. ASSUME NEW q \in Refreshes \ {n}, NEW r \in Refreshes, q # r, r = n \/ Ahead(q, r)
      PROVE  Ahead(q, r)'
  <2> DEFINE sent == Append(requests, Request("sinks", n))
  <2>1. /\ Request("sinks", n) \in Message /\ ~ListOf(Request("sinks", n), q)
        /\ Request("sources", n) \in Message /\ ~ListOf(Request("sources", n), q)
    BY <1>6, Bounds DEF Message, Request, Msg, ListOf
  <2>2. ListsBefore(requests, q, r) /\ ListsBefore(replies, q, r)
    BY <1>4, <1>6 DEF Ahead, ListsBefore, NoList
  <2>3. sent \in Seq(Message) /\ ListsBefore(sent, q, r) /\ (NoList(requests, q) => NoList(sent, q))
    BY <1>4, <1>6, <2>1, <2>2, AppendIsNew, AppendLemma
  <2> HIDE DEF sent
  <2>4. requests' = Append(sent, Request("sources", n))
    BY <1>1 DEF sent
  <2>5. ListsBefore(requests', q, r) /\ (NoList(sent, q) => NoList(requests', q))
    BY <1>6, <2>1, <2>3, <2>4, AppendIsNew
  <2>6. ListsBefore(replies', q, r) /\ (NoList(replies, r) => NoList(replies', r))
    BY <1>5, <2>2
  <2>7. NoList(requests, q) \/ NoList(replies, r)
    BY <1>4, <1>6 DEF Ahead
  <2> QED
    BY <2>3, <2>5, <2>6, <2>7 DEF Ahead
<1>7. \A q \in Refreshes : Tainted(q, s)' => Tainted(q, s) \/ (q = n /\ Old(v, s))
  <2>1. ~OldList(replies, n, s)
    BY <1>4 DEF OldList, NoList
  <2> QED
    BY <1>1, <1>3, <1>5, <2>1 DEF Tainted, Old
<1>8. ~Tainted(n, s)
  BY <1>3, <1>4 DEF Tainted, Old, OldList, NoList
<1>9. Old(v, s) => 1 \in OldInfos(replies, s)
  BY <1>1, <1>5 DEF OldInfos
<1>10. NothingOld(s) => NothingOld(s)'
  BY <1>5, <1>7, <1>9 DEF NothingOld
<1>11. ASSUME NEW r \in Refreshes, refresh[r] # None, News(r, s)
       PROVE  refresh'[r] # None /\ News(r, s)'
  <2>1. /\ ~Tainted(r, s) /\ InfosBefore(replies, r, s)
        /\ OldInfos(replies, s) # {} => refresh[r].info = 0
        /\ refresh[r].info # 0 => \A q \in Refreshes : Tainted(q, s) => Ahead(q, r)
    BY <1>11 DEF News
  <2>2. r = n => OldInfos(replies, s) = {}
    <3> SUFFICES ASSUME r = n, NEW i \in OldInfos(replies, s) PROVE FALSE
      OBVIOUS
    <3>1. i \in 1..Len(replies) /\ i < 1
      BY <1>1, <1>5, <2>1 DEF InfosBefore, OldInfos
    <3> QED
      BY <1>4, <3>1
  <2>3. r # n => refresh'[r] = refresh[r]
    BY <1>1
  <2>4. ~Tainted(r, s)' /\ InfosBefore(replies', r, s) /\ refresh'[r] # None
    BY <1>1, <1>5, <1>7, <1>9, <1>11, <2>1, <2>2, <2>3
  <2>5. OldInfos(replies', s) # {} => refresh'[r].info = 0
    BY <1>5, <2>1, <2>2, <2>3
  <2>6. ASSUME refresh'[r].info # 0, NEW q \in Refreshes, Tainted(q, s)' PROVE Ahead(q, r)'
    <3>1. Old(v, s) => refresh'[r].info = 0
      BY <1>9, <2>1, <2>2, <2>3
    <3>2. Tainted(q, s) /\ q # n
      BY <1>7, <1>8, <2>6, <3>1
    <3>3. q # r /\ (r = n \/ Ahead(q, r))
      BY <2>1, <2>3, <2>6, <3>2
    <3> QED
      BY <1>6, <3>2, <3>3
  <2> QED
    BY <2>4, <2>5, <2>6 DEF News
<1> QED
  BY <1>2, <1>10, <1>11

\* A list comes, and may complete its refresh.
LEMMA ListIsNews ==
  ASSUME TypeOK, LinkInv, NEW kind \in ListKinds, NEW type, ListCallback(kind, type),
         NEW s \in Nat
  PROVE  /\ NothingOld(s) => NothingOld(s)' /\ (UNCHANGED report \/ ReportSince(s)')
         /\ \A r \in Refreshes : refresh[r] # None /\ News(r, s) =>
              \/ refresh'[r] # None /\ News(r, s)'
              \/ refresh'[r] = None /\ NothingOld(s)' /\ ReportSince(s)'
<1>1. PICK n \in Refreshes, v \in 1..Len(server), state \in RefreshState :
        /\ replies # <<>> /\ replies' = Tail(replies) /\ requests' = requests
        /\ replies[1].kind = kind /\ replies[1].of = n /\ replies[1].version = v
        /\ ListPhase(n) /\ refresh[n] \in RefreshState /\ refresh[n] # None
        /\ state.info = refresh[n].info /\ state.signal = refresh[n].signal
        /\ state.sinks   = IF kind = "sinks" THEN v ELSE refresh[n].sinks
        /\ state.sources = IF kind = "sources" THEN v ELSE refresh[n].sources
        /\ \A q \in Refreshes \ {n} : refresh'[q] = refresh[q]
        /\ \/ /\ refresh'[n] \in RefreshState /\ refresh'[n] # None
              /\ refresh'[n].info = state.info /\ refresh'[n].signal = state.signal
              /\ refresh'[n].sinks = state.sinks /\ refresh'[n].sources = state.sources
              /\ UNCHANGED <<report, done, woken>>
           \/ /\ refresh'[n] = None
              /\ state.info # 0 /\ state.sinks # 0 /\ state.sources # 0
              /\ report' = ReportOf(state)
              /\ done' = (done \/ state.signal) /\ woken' = (woken \/ state.signal)
  BY ListComes
<1>2. /\ OldInfos(replies', s) # {} => OldInfos(replies, s) # {}
      /\ \A r \in Refreshes : InfosBefore(replies, r, s) => InfosBefore(replies', r, s)
      /\ \A q \in Refreshes : OldList(replies', q, s) => OldList(replies, q, s)
      /\ \A q, r \in Refreshes : ListsBefore(replies, q, r) => ListsBefore(replies', q, r)
      /\ \A q \in Refreshes : NoList(replies, q) => NoList(replies', q)
      /\ 1 \in 1..Len(replies)
  BY <1>1, RestIsNewer
<1>3. ListOf(replies[1], n)
  BY <1>1 DEF ListOf
<1>4. Old(v, s) => Tainted(n, s)
  BY <1>1, <1>2, <1>3 DEF Tainted, OldList
<1>5. Old(state.info, s) \/ Old(state.sinks, s) \/ Old(state.sources, s) => Tainted(n, s)
  <2>1. CASE kind = "sinks"
    BY <1>1, <1>4, <2>1 DEF Tainted
  <2>2. CASE kind = "sources"
    BY <1>1, <1>4, <2>2 DEF Tainted
  <2> QED
    BY <2>1, <2>2 DEF ListKinds
<1>6. \A q \in Refreshes : Tainted(q, s)' => Tainted(q, s)
  <2>1. \A q \in Refreshes \ {n} : Tainted(q, s)' => Tainted(q, s)
    BY <1>1, <1>2 DEF Tainted
  <2>2. Tainted(n, s)' => Tainted(n, s)
    BY <1>1, <1>2, <1>5 DEF Tainted
  <2> QED
    BY <2>1, <2>2
<1>7. \A q, r \in Refreshes : Ahead(q, r) => Ahead(q, r)'
  BY <1>1, <1>2 DEF Ahead
<1>8. ~Tainted(n, s) /\ refresh'[n] = None => ReportSince(s)'
  <2> SUFFICES ASSUME ~Tainted(n, s), refresh'[n] = None PROVE ReportSince(s)'
    OBVIOUS
  <2>1. report' = ReportOf(state)
    BY <1>1
  <2>2. /\ state.info \in 1..MaxVersion /\ state.sinks \in 1..MaxVersion
        /\ state.sources \in 1..MaxVersion /\ state.failed \in SUBSET Parts
    BY <1>1, Bounds DEF RefreshState
  <2>3. state.info >= s /\ state.sinks >= s /\ state.sources >= s
    BY <1>5, <2>2, Bounds DEF Old
  <2>4. report' # None
    <3>1. report' \in Report
      BY <2>1, <2>2 DEF Report, ReportOf
    <3> QED
      BY <3>1, NoneAssumption
  <2> QED
    BY <2>1, <2>3, <2>4 DEF ReportSince, ReportOf
<1>9. ASSUME NothingOld(s) PROVE NothingOld(s)' /\ (UNCHANGED report \/ ReportSince(s)')
  BY <1>1, <1>2, <1>6, <1>8, <1>9 DEF NothingOld
<1>10. ASSUME News(n, s), refresh'[n] = None PROVE NothingOld(s)' /\ ReportSince(s)'
  <2>1. /\ ~Tainted(n, s) /\ OldInfos(replies, s) = {}
        /\ \A q \in Refreshes : Tainted(q, s) => Ahead(q, n)
    BY <1>1, <1>10 DEF News, ListPhase
  <2>2. ASSUME NEW q \in Refreshes, Tainted(q, s) PROVE FALSE
    <3>1. q # n /\ Ahead(q, n)
      BY <2>1, <2>2
    <3>2. NoList(replies, q)
      BY <1>2, <1>3, <3>1 DEF Ahead, ListsBefore, NoList
    <3>3. NoList(requests, q)
      BY <1>2, <1>3, <3>1 DEF Ahead, NoList
    <3>4. ~Out("sinks", q) /\ ~Out("sources", q)
      BY <3>2, <3>3 DEF NoList, Out, OnTheWay, In, ListOf, ListKinds
    <3>5. InfoPhase(q)
      BY <2>2, <3>4 DEF LinkInv, WaitsForWhatComes, ListPhase, Tainted
    <3>6. ~OldList(replies, q, s)
      BY <3>2 DEF NoList, OldList
    <3> QED
      BY <2>2, <3>5, <3>6 DEF Tainted, InfoPhase, Old
  <2> QED
    BY <1>2, <1>6, <1>8, <1>10, <2>1, <2>2 DEF NothingOld
<1>11. ASSUME NEW r \in Refreshes, News(r, s), refresh[r] # None, refresh'[r] # None PROVE News(r, s)'
  <2>1. refresh'[r].info = refresh[r].info
    BY <1>1, <1>11
  <2> QED
    BY <1>2, <1>6, <1>7, <1>11, <2>1 DEF News
<1>12. ASSUME NEW r \in Refreshes, News(r, s), refresh[r] # None, refresh'[r] = None
       PROVE  NothingOld(s)' /\ ReportSince(s)'
  BY <1>1, <1>10, <1>12
<1> QED
  BY <1>9, <1>11, <1>12

\* Whatever happens while there is a connection: what is news remains so until it is
\* reported, and from then on nothing older is.
LEMMA NewsStay ==
  ASSUME TypeOK, LinkInv, CommandInv, [Next]_vars, ~Ends, NEW s \in 1..Len(server)
  PROVE  /\ NothingOld(s) => NothingOld(s)' /\ (UNCHANGED report \/ ReportSince(s)')
         /\ \A r \in Refreshes : refresh[r] # None /\ News(r, s) =>
              \/ refresh'[r] # None /\ News(r, s)'
              \/ refresh'[r] = None /\ NothingOld(s)' /\ ReportSince(s)'
<1>1. s \in Nat
  BY DEF TypeOK
<1>2. CASE AddsNothingOld(s)
  BY <1>2, NothingOldAdded DEF AddsNothingOld
<1>3. CASE ServerInfoCallback
  BY <1>1, <1>3, InfoIsNews
<1>4. CASE SinkInfoCallback
  BY <1>1, <1>4, ListIsNews DEF SinkInfoCallback, ListKinds
<1>5. CASE SourceInfoCallback
  BY <1>1, <1>5, ListIsNews DEF SourceInfoCallback, ListKinds
<1>6. AddsNothingOld(s) \/ ServerInfoCallback \/ SinkInfoCallback \/ SourceInfoCallback
  BY OthersAddNothingOld, CallbacksAddNothingOld DEF Mainloop
<1> QED
  BY <1>2, <1>3, <1>4, <1>5, <1>6

LEMMA FreshStep ==
  ASSUME TypeOK, LinkInv, HandlerInv, CommandInv, FreshInv, [Next]_vars
  PROVE  FreshInv'
<1>1. HandlerInv'
  BY HandlerStep
<1>2. CASE worker' # "refresh"
  BY <1>1, <1>2 DEF HandlerInv, FreshInv, WaitsForNews, NothingOldIsLeft, RefreshIsFresh
<1>3. CASE HandleRefresh
  <2>1. /\ worker = "idle" /\ done' = FALSE /\ RefreshDevices(TRUE) /\ UNCHANGED replies
    BY <1>3 DEF HandleRefresh, NextRequest
  <2>2. \A r \in Refreshes : ~Signals(r)
    BY <2>1 DEF HandlerInv
  <2>3. PICK s : s = since'
    OBVIOUS
  <2>4. CASE context = "ready"
    <3>1. PICK r \in Refreshes : News(r, s)' /\ \A q \in Refreshes \ {r} : refresh'[q] = refresh[q]
      BY <2>1, <2>4, NewsBegin
    <3>2. \A q \in Refreshes : Signals(q)' => q = r
      BY <2>2, <3>1 DEF Signals
    <3>3. WaitsForNews'
      BY <2>3, <3>1, <3>2 DEF WaitsForNews, News, Tainted
    <3> QED
      BY <2>1, <3>3 DEF FreshInv, NothingOldIsLeft, RefreshIsFresh
  <2>5. CASE context # "ready"
    <3>1. \A r \in Refreshes : ~Signals(r)'
      BY <2>1, <2>2, <2>5 DEF RefreshDevices, Signals
    <3> QED
      BY <2>1, <3>1 DEF FreshInv, WaitsForNews, NothingOldIsLeft, RefreshIsFresh
  <2> QED
    BY <2>4, <2>5
<1>4. SUFFICES ASSUME worker' = "refresh", ~HandleRefresh PROVE FreshInv'
  BY <1>2, <1>3
<1>5. UNCHANGED <<worker, since>>
  BY <1>4 DEF Next, Constructor, Worker, WorkerWakes, SpuriousWakeup, Mainloop, Server, Gone, vars,
     handlerVars, InitWaits, InitSubscribes, SendCommand, WaitReturns, Destroy,
     LookupDevice, NextRequest, SubscribeCallback, ServerInfoCallback, SinkInfoCallback,
     SourceInfoCallback, ListCallback, SuccessCallback, ServerNotifies, ServerAnswers, ServerChanges,
     ServerAccepts, ServerDies
<1>6. PICK s \in 1..Len(server) : s = since /\ s = since'
  BY <1>4, <1>5 DEF CommandInv
<1>7. /\ \A r \in Refreshes : Signals(r)' => Signals(r)
      /\ done' => done \/ \E r \in Refreshes : Signals(r) /\ refresh'[r] = None
  BY <1>4, <1>5, SignalsStep
<1>8. CASE Ends
  <2>1. replies' = <<>> /\ refresh' = [r \in Refreshes |-> None] /\ UNCHANGED <<done, report>>
    BY <1>8 DEF Ends, ServerDies, Destroy, ContextEnds
  <2>2. \A r \in Refreshes : ~Signals(r)' /\ ~Tainted(r, s)'
    BY <2>1 DEF Signals, Tainted
  <2>3. NothingOld(s)'
    BY <2>1, <2>2 DEF NothingOld, OldInfos
  <2> QED
    BY <1>5, <1>6, <2>1, <2>2, <2>3 DEF FreshInv, WaitsForNews, NothingOldIsLeft, RefreshIsFresh,
       NothingOld, Tainted
<1>9. CASE ~Ends
  <2>1. /\ \A r \in Refreshes : Signals(r) => refresh[r] # None /\ News(r, s)
        /\ done => NothingOld(s) /\ ReportSince(s)
    BY <1>4, <1>5, <1>6 DEF FreshInv, WaitsForNews, NothingOldIsLeft, RefreshIsFresh, ReportSince, Signals
  <2>2. /\ NothingOld(s) => NothingOld(s)' /\ (UNCHANGED report \/ ReportSince(s)')
        /\ \A r \in Refreshes : refresh[r] # None /\ News(r, s) =>
             \/ refresh'[r] # None /\ News(r, s)'
             \/ refresh'[r] = None /\ NothingOld(s)' /\ ReportSince(s)'
    BY <1>9, NewsStay
  <2>3. \A r \in Refreshes : Signals(r)' => News(r, s)'
    BY <1>7, <2>1, <2>2 DEF Signals
  <2>4. done' => NothingOld(s)' /\ ReportSince(s)'
    <3>1. CASE done
      BY <2>1, <2>2, <3>1 DEF ReportSince
    <3>2. CASE ~done
      BY <1>7, <2>1, <2>2, <3>2
    <3> QED
      BY <3>1, <3>2
  <2>5. WaitsForNews'
    BY <1>6, <2>3 DEF WaitsForNews, News, Tainted
  <2>6. NothingOldIsLeft' /\ RefreshIsFresh'
    BY <1>6, <2>4 DEF NothingOldIsLeft, NothingOld, Tainted, RefreshIsFresh, ReportSince
  <2> QED
    BY <2>5, <2>6 DEF FreshInv
<1> QED
  BY <1>8, <1>9

--------------------------------------------------------------------------------
(* Types *)

\* What TypeOK says beyond the server's log and the connection.
Flags ==
  /\ subscribed \in BOOLEAN /\ unannounced \in BOOLEAN
  /\ woken \in BOOLEAN /\ done \in BOOLEAN /\ success \in BOOLEAN
States ==
  /\ context \in {"connecting", "ready", "failed", "terminated"}
  /\ life \in {"connect", "subscribe", "running", "unavailable", "destroyed"}
  /\ worker \in {"idle", "found", "operation", "refresh"}
  /\ op \in {"none", "running", "done", "cancelled"}
  /\ result \in {"none", "Ok", "DeviceNotFound", "BackendError"}
Values ==
  /\ changes \in 0..MaxEvents /\ errors \in 0..MaxEvents
  /\ asked \in 0..(1 + MaxEvents)
  /\ command \in Command \cup {None}
  /\ device_cache_ \subseteq Names
  /\ since \in 0..MaxVersion
LocalType == Flags /\ States /\ Values

LEMMA LocalStep ==
  ASSUME TypeOK, LinkInv, CommandInv, [Next]_vars
  PROVE  LocalType'
<1>1. LocalType /\ MaxEvents \in Nat /\ Len(server) \in 0..MaxVersion
  BY Bounds DEF TypeOK, LocalType, Flags, States, Values
<1>2. /\ asked \in Nat /\ changes \in Nat /\ errors \in Nat /\ Events \in Nat
      /\ changes + errors <= Events /\ (asked > 0 => Events = changes + errors + (asked - 1))
  BY <1>1 DEF LocalType, Flags, States, Values, Events
<1>3. ASSUME NextRequest PROVE asked' \in 0..(1 + MaxEvents)
  BY <1>1, <1>2, <1>3 DEF NextRequest
<1>4. CASE Constructor
  BY <1>1, <1>4 DEF LocalType, Flags, States, Values, Constructor, InitWaits, InitSubscribes, serverVars, handlerVars, waitVars
<1>5. CASE HandleRefresh
  <2>1. Flags'
    BY <1>1, <1>3, <1>5 DEF LocalType, Flags, HandleRefresh, serverVars
  <2>2. States'
    BY <1>1, <1>3, <1>5 DEF LocalType, States, HandleRefresh, serverVars
  <2>3. Values'
    BY <1>1, <1>3, <1>5 DEF LocalType, Values, HandleRefresh, serverVars
  <2> QED
    BY <2>1, <2>2, <2>3 DEF LocalType
<1>6. ASSUME NEW c \in Command, LookupDevice(c) PROVE LocalType'
  BY <1>1, <1>3, <1>6 DEF LocalType, Flags, States, Values, LookupDevice, serverVars, waitVars
<1>7. CASE SendCommand
  <2>1. Flags'
    BY <1>1, <1>7, Bounds DEF LocalType, Flags, SendCommand, serverVars
  <2>2. States'
    BY <1>1, <1>7, Bounds DEF LocalType, States, SendCommand, serverVars
  <2>3. Values'
    BY <1>1, <1>7, Bounds DEF LocalType, Values, SendCommand, serverVars
  <2> QED
    BY <2>1, <2>2, <2>3 DEF LocalType
<1>8. CASE WaitReturns
  <2>1. Flags'
    BY <1>1, <1>8, Bounds DEF LocalType, Flags, WaitReturns, CommandStatus, serverVars
  <2>2. States'
    BY <1>1, <1>8, Bounds DEF LocalType, States, WaitReturns, CommandStatus, serverVars
  <2>3. Values'
    BY <1>1, <1>8, Bounds DEF LocalType, Values, WaitReturns, CommandStatus, serverVars
  <2> QED
    BY <2>1, <2>2, <2>3 DEF LocalType
<1>9. ASSUME NEW state \in {"failed", "terminated"}, ContextEnds(state),
             UNCHANGED <<changes, errors, handlerVars, done, success, device_cache_>>,
             woken' \in BOOLEAN, life' \in {life, "destroyed"}
      PROVE  LocalType'
  BY <1>1, <1>9 DEF LocalType, Flags, States, Values, ContextEnds, handlerVars
<1>10. CASE SubscribeCallback \/ ServerInfoCallback
  <2>1. Flags'
    BY <1>1, <1>10 DEF LocalType, Flags, SubscribeCallback, ServerInfoCallback, serverVars,
       handlerVars, waitVars
  <2>2. States'
    BY <1>1, <1>10 DEF LocalType, States, SubscribeCallback, ServerInfoCallback, serverVars,
       handlerVars, waitVars
  <2>3. Values'
    BY <1>1, <1>10 DEF LocalType, Values, SubscribeCallback, ServerInfoCallback, serverVars,
       handlerVars, waitVars
  <2> QED
    BY <2>1, <2>2, <2>3 DEF LocalType
<1>11. ASSUME NEW kind \in ListKinds, NEW type, ListCallback(kind, type) PROVE LocalType'
  <2>1. done' \in BOOLEAN /\ woken' \in BOOLEAN
    <3>1. PICK state \in RefreshState :
            \/ UNCHANGED <<done, woken>>
            \/ done' = (done \/ state.signal) /\ woken' = (woken \/ state.signal)
      BY <1>11, ListComes
    <3> QED
      BY <1>1, <3>1 DEF LocalType, Flags
  <2>2. device_cache_' \subseteq Names
    <3>1. \A version : DevicesOf(version, type) \subseteq Names
      BY DEF DevicesOf
    <3>2. PICK devices \in Listed(Head(replies), type) : device_cache_' = device_cache_ \cup devices
      BY <1>11 DEF ListCallback
    <3>3. devices \subseteq Names
      BY <3>1, <3>2 DEF Listed
    <3> QED
      BY <1>1, <3>2, <3>3 DEF LocalType, Values
  <2> QED
    BY <1>1, <1>11, <2>1, <2>2 DEF LocalType, Flags, States, Values, ListCallback, serverVars, handlerVars
<1>12. CASE SuccessCallback
  <2>1. success' \in BOOLEAN
    <3>1. Head(replies) \in Message
      BY <1>12, TailLemma DEF TypeOK, SuccessCallback, Dispatch
    <3> QED
      BY <1>12, <3>1 DEF SuccessCallback, Message
  <2> QED
    BY <1>1, <1>12, <2>1 DEF LocalType, Flags, States, Values, SuccessCallback, serverVars, handlerVars
<1>13. CASE ServerNotifies \/ ServerAccepts
  <2>1. Flags'
    BY <1>1, <1>13 DEF LocalType, Flags, ServerNotifies, ServerAccepts, serverVars, handlerVars, waitVars
  <2>2. States'
    BY <1>1, <1>13 DEF LocalType, States, ServerNotifies, ServerAccepts, handlerVars, waitVars
  <2>3. Values'
    BY <1>1, <1>13 DEF LocalType, Values, ServerNotifies, ServerAccepts, serverVars, handlerVars, waitVars
  <2> QED
    BY <2>1, <2>2, <2>3 DEF LocalType
<1>14. CASE ServerAnswers
  <2>1. Flags'
    <3>1. subscribed' \in BOOLEAN
      BY <1>1, <1>14 DEF LocalType, Flags, ServerAnswers, Serve, Refuse
    <3>2. unannounced' \in BOOLEAN
      BY <1>1, <1>14 DEF LocalType, Flags, ServerAnswers, Serve, Refuse, Enter
    <3> QED
      BY <1>1, <1>14, <3>1, <3>2 DEF LocalType, Flags, ServerAnswers, waitVars
  <2>2. States'
    BY <1>1, <1>14 DEF LocalType, States, ServerAnswers, handlerVars, waitVars
  <2>3. errors' \in 0..MaxEvents
    <3>1. UNCHANGED errors \/ (Events < MaxEvents /\ errors' = errors + 1)
      BY <1>14 DEF ServerAnswers
    <3> QED
      BY <1>1, <1>2, <3>1 DEF LocalType, Values
  <2>4. Values'
    BY <1>1, <1>14, <2>3 DEF LocalType, Values, ServerAnswers, handlerVars
  <2> QED
    BY <2>1, <2>2, <2>4 DEF LocalType
<1>15. CASE ServerChanges
  <2>1. changes' \in 0..MaxEvents
    BY <1>1, <1>2, <1>15 DEF ServerChanges, Events
  <2> QED
    BY <1>1, <1>15, <2>1 DEF LocalType, Flags, States, Values, ServerChanges, Enter, handlerVars, waitVars
<1>16. CASE ServerDies \/ Destroy
  <2>1. woken' \in BOOLEAN
    BY <1>1, <1>16 DEF ServerDies, Destroy, LocalType, Flags, SomebodyWaits
  <2> QED
    BY <1>9, <1>16, <2>1 DEF ServerDies, Destroy
<1>17. CASE UNCHANGED vars
  BY <1>1, <1>17 DEF LocalType, Flags, States, Values, vars, serverVars, handlerVars, waitVars
<1> QED
  BY <1>4, <1>5, <1>6, <1>7, <1>8, <1>10, <1>11, <1>12, <1>13, <1>14, <1>15, <1>16, <1>17
  DEF Next, Worker, WorkerWakes, SpuriousWakeup, Mainloop, SinkInfoCallback, SourceInfoCallback,
      ListKinds, Server, Gone

LEMMA ReportStep ==
  ASSUME TypeOK, LinkInv, [Next]_vars
  PROVE  report' \in Report \cup {None}
<1>1. ASSUME NEW kind \in ListKinds, NEW type, ListCallback(kind, type)
      PROVE  report' \in Report \cup {None}
  <2>1. PICK state \in RefreshState :
          \/ UNCHANGED report
          \/ /\ state.info # 0 /\ state.sinks # 0 /\ state.sources # 0
             /\ report' = ReportOf(state)
    BY <1>1, ListComes
  <2>2. /\ state.info \in 0..MaxVersion /\ state.sinks \in 0..MaxVersion
        /\ state.sources \in 0..MaxVersion /\ state.failed \in SUBSET Parts
    BY DEF RefreshState
  <2> QED
    BY <2>1, <2>2, Bounds DEF TypeOK, Report, ReportOf
<1>2. CASE report' = report
  BY <1>2 DEF TypeOK
<1> QED
  BY <1>1, <1>2 DEF Next, Constructor, Worker, WorkerWakes, SpuriousWakeup, Mainloop, Server, Gone, vars,
     ListKinds, InitWaits, InitSubscribes, HandleRefresh, SendCommand, WaitReturns, Destroy,
     LookupDevice, SubscribeCallback, ServerInfoCallback, SinkInfoCallback, SourceInfoCallback,
     SuccessCallback, ServerNotifies, ServerAnswers, ServerChanges, ServerAccepts, ServerDies

LEMMA TypeStep ==
  ASSUME TypeOK, LinkInv, CommandInv, VersionsAreEvents, [Next]_vars
  PROVE  TypeOK'
<1>1. LocalType' /\ LinkType' /\ report' \in Report \cup {None}
  BY LocalStep, LinkStep, ReportStep
<1>2. server' \in Seq(ServerState) /\ Len(server') \in 1..MaxVersion
  <2>1. Len(server) >= 1
    BY DEF TypeOK
  <2>2. Len(server') \in Nat /\ Len(server') >= Len(server)
    BY Grows
  <2>3. Events' \in Int /\ Events' <= MaxEvents
    <3>1. asked' \in Int /\ changes' \in Int /\ errors' \in Int
      BY <1>1, Bounds DEF LocalType, Values
    <3>2. Events' \in Int
      BY <3>1 DEF Events
    <3> QED
      BY <3>2, VersionsStep DEF VersionsAreEvents
  <2>4. Len(server') <= 1 + Events'
    BY <2>2, <2>3, VersionsStep DEF VersionsAreEvents
  <2> QED
    BY <2>1, <2>2, <2>3, <2>4, Bounds, Grows
<1> QED
  BY <1>1, <1>2 DEF TypeOK, LocalType, Flags, States, Values, LinkType

--------------------------------------------------------------------------------
(* The theorems *)

LEMMA InitIInv == Init => IInv
<1> SUFFICES ASSUME Init PROVE IInv
  OBVIOUS
<1> DEFINE first == CHOOSE s \in ServerState : s.devices = [n \in Names |-> CHOOSE l \in Levels : TRUE]
<1>1. first \in ServerState
  BY FirstState
<1>2. server = <<first>> /\ Len(server) = 1 /\ server \in Seq(ServerState)
  BY <1>1 DEF Init
<1> HIDE DEF first
<1>3. requests = <<>> /\ replies = <<>> /\ requests \in Seq(Message) /\ replies \in Seq(Message)
  BY DEF Init
<1>4. TypeOK
  <2>1. Flags /\ States
    BY DEF Init, Flags, States
  <2>2. Values
    BY Bounds DEF Init, Values
  <2>3. refresh \in [Refreshes -> RefreshState \cup {None}] /\ report \in Report \cup {None}
    BY DEF Init
  <2> QED
    BY <1>2, <1>3, <2>1, <2>2, <2>3, Bounds DEF TypeOK, Flags, States, Values
<1>5. LinkInv
  BY <1>3 DEF Init, LinkInv, NoneTwice, Distinct, Once, Apart, WaitsForWhatComes, Out, OnTheWay, In,
     AllAddressed, Addressed, Dated
<1>6. HandlerInv
  BY DEF Init, HandlerInv, Signals
<1>7. CommandInv
  BY <1>3 DEF Init, CommandInv, SetIn
<1>8. VersionsAreEvents
  BY <1>2, <1>3, Bounds DEF Init, VersionsAreEvents, Events, Unsent, SetIn
<1>9. FreshInv
  BY DEF Init, FreshInv, WaitsForNews, NothingOldIsLeft, RefreshIsFresh, Signals
<1> QED
  BY <1>4, <1>5, <1>6, <1>7, <1>8, <1>9 DEF IInv

LEMMA NextIInv == IInv /\ [Next]_vars => IInv'
<1> SUFFICES ASSUME IInv, [Next]_vars PROVE IInv'
  OBVIOUS
<1>1. TypeOK'
  BY TypeStep DEF IInv
<1>2. LinkInv'
  BY LinkStep, AddressedStep DEF IInv, LinkInv
<1>3. HandlerInv' /\ CommandInv' /\ VersionsAreEvents'
  BY HandlerStep, CommandStep, VersionsStep DEF IInv
<1>4. FreshInv'
  BY FreshStep DEF IInv
<1> QED
  BY <1>1, <1>2, <1>3, <1>4 DEF IInv

LEMMA Invariant == Spec => []IInv
  BY InitIInv, NextIInv, PTL DEF Spec

\* Every variable keeps its type: the bounds leave a RefreshState and a state of the
\* server for whatever comes, and no callback meets a RefreshState that was freed
\* (pulseaudio_backend.hpp:100-111, 221-228).
THEOREM TypeCorrect == Spec => []TypeOK
<1>1. IInv => TypeOK
  BY DEF IInv
<1> QED
  BY <1>1, Invariant, PTL

\* No callback writes to the stack of a handler that has returned
\* (pulseaudio_backend.hpp:49-54, 85-88, 344-346).
THEOREM FramesOutlive == Spec => []FramesOutliveCallbacks
<1>1. IInv => FramesOutliveCallbacks
  <2> SUFFICES ASSUME IInv PROVE FramesOutliveCallbacks
    OBVIOUS
  <2>1. ASSUME NEW m \in ToSet(requests) \cup ToSet(replies), m.kind = "set"
        PROVE  worker = "operation"
    <3>1. SetIn(requests) \/ SetIn(replies)
      BY <2>1 DEF ToSet, SetIn, IInv, TypeOK
    <3> QED
      BY <3>1 DEF IInv, CommandInv
  <2> QED
    BY <2>1 DEF FramesOutliveCallbacks, IInv, HandlerInv
<1> QED
  BY <1>1, Invariant, PTL

\* A refresh returns a report all three parts of which were answered after it was asked
\* for, each with what the server had then or with an error, however many refreshes that
\* events began are under way (pulseaudio_backend.hpp:82-90, 221-241, 271-275).
THEOREM ReportsAreFresh == Spec => []RefreshIsFresh
<1>1. IInv => RefreshIsFresh
  BY DEF IInv, FreshInv
<1> QED
  BY <1>1, Invariant, PTL

\* A command that returns Ok was carried out by the server after its handler began,
\* whatever other clients did since and whenever the server died
\* (pulseaudio_backend.hpp:344-351).
THEOREM OkIsTrue == Spec => OkMeansExecuted
<1>1. IInv /\ [Next]_vars =>
        [worker = "operation" /\ worker' = "idle" /\ result' = "Ok" =>
           \E v \in since..Len(server) :
             /\ server[v].devices[command.name] # Absent
             /\ server[v] = Executed(server[v], command)]_vars
  <2> SUFFICES ASSUME IInv, [Next]_vars, worker = "operation", worker' = "idle", result' = "Ok"
               PROVE  Carried
    BY DEF Carried
  <2>1. WaitReturns
    BY DEF Next, Constructor, Worker, WorkerWakes, SpuriousWakeup, Mainloop, Server, Gone, vars,
       handlerVars, InitWaits, InitSubscribes, HandleRefresh, NextRequest, SendCommand, Destroy,
       LookupDevice, SubscribeCallback, ServerInfoCallback, SinkInfoCallback, SourceInfoCallback,
       ListCallback, SuccessCallback, ServerNotifies, ServerAnswers, ServerChanges, ServerAccepts,
       ServerDies
  <2>2. op = "done" /\ success
    BY <2>1 DEF WaitReturns, CommandStatus
  <2> QED
    BY <2>2 DEF IInv, CommandInv
<1> QED
  BY <1>1, Invariant, PTL DEF Spec, OkMeansExecuted

--------------------------------------------------------------------------------
(* The report of a server that is settled *)

EventIn(queue) == \E i \in 1..Len(queue) : queue[i].kind = "event"

Subscribes(queue) == queue # <<>> /\ queue[1].kind = "subscribe"
OnlyFirst(queue) == \A i \in 2..Len(queue) : queue[i].kind # "subscribe"

\* The server is asked to subscribe the client before anything else, and answers nothing
\* before; it may have refused.
Subscribing ==
  /\ life \in {"connect", "subscribe"} =>
       /\ requests = <<>> /\ replies = <<>> /\ ~subscribed
       /\ asked = 0 /\ worker = "idle" /\ \A r \in Refreshes : refresh[r] = None
  /\ context = "connecting" => life = "connect"
  /\ unannounced => subscribed
  /\ OnlyFirst(requests)
  /\ life = "running" /\ context = "ready" /\ Subscribes(requests) =>
       /\ replies = <<>> /\ ~subscribed
       /\ asked > 0 => \E r \in Refreshes : refresh[r] # None
       /\ \A r \in Refreshes : refresh[r] # None => refresh[r].info = 0

\* Nothing is read from a state that is still to come.
KnownStates ==
  /\ \A r \in Refreshes : refresh[r] # None =>
       /\ refresh[r].info <= Len(server) /\ refresh[r].sinks <= Len(server)
       /\ refresh[r].sources <= Len(server)
  /\ report # None =>
       /\ report.info <= Len(server) /\ report.sinks <= Len(server)
       /\ report.sources <= Len(server)

\* The server's state has been the same since version s, and what is reported next, or
\* was reported last, was read since.
Current(s) == \A v \in s..Len(server) : server[v] = server[Len(server)]
Catches(s) ==
  \/ \E r \in Refreshes : refresh[r] # None /\ News(r, s)
  \/ NothingOld(s) /\ ReportSince(s)

\* A live server owes an event, or it is on its way, or the refresh it began is.
ChangesAreCaught ==
  life = "running" /\ context = "ready" /\ subscribed /\ asked > 0 =>
    unannounced \/ EventIn(replies) \/ \E s \in 1..Len(server) : Current(s) /\ Catches(s)

SettleInv == Subscribing /\ KnownStates /\ ChangesAreCaught

LEMMA FirstLemma ==
  ASSUME NEW q \in Seq(Message), NEW m \in Message, OnlyFirst(q)
  PROVE  /\ m.kind # "subscribe" =>
              /\ Append(q, m) \in Seq(Message) /\ OnlyFirst(Append(q, m))
              /\ Subscribes(Append(q, m)) => Subscribes(q)
         /\ q # <<>> => OnlyFirst(Tail(q)) /\ ~Subscribes(Tail(q))
<1>1. ASSUME m.kind # "subscribe"
      PROVE  OnlyFirst(Append(q, m)) /\ (Subscribes(Append(q, m)) => Subscribes(q))
  <2>1. ASSUME NEW i \in 2..Len(Append(q, m)) PROVE Append(q, m)[i].kind # "subscribe"
    <3>1. CASE i = Len(q) + 1
      BY <1>1, <3>1, AppendLemma
    <3>2. CASE i # Len(q) + 1
      <4>1. i \in 2..Len(q) /\ Append(q, m)[i] = q[i]
        BY <3>2, AppendLemma
      <4> QED
        BY <4>1 DEF OnlyFirst
    <3> QED
      BY <3>1, <3>2
  <2>2. CASE q = <<>>
    <3>1. Len(q) = 0 /\ Append(q, m)[1] = m
      BY <2>2
    <3> QED
      BY <1>1, <2>1, <3>1 DEF Subscribes, OnlyFirst
  <2>3. CASE q # <<>>
    <3>1. Append(q, m)[1] = q[1]
      BY <2>3, AppendLemma, TailLemma
    <3> QED
      BY <2>1, <2>3, <3>1 DEF Subscribes, OnlyFirst
  <2> QED
    BY <2>2, <2>3
<1>2. ASSUME q # <<>> PROVE OnlyFirst(Tail(q)) /\ ~Subscribes(Tail(q))
  <2>1. ASSUME NEW i \in 1..Len(Tail(q)) PROVE Tail(q)[i].kind # "subscribe"
    <3>1. i + 1 \in 2..Len(q) /\ Tail(q)[i] = q[i + 1]
      BY <1>2, TailLemma
    <3> QED
      BY <3>1 DEF OnlyFirst
  <2>2. Tail(q) # <<>> => 1 \in 1..Len(Tail(q))
    BY <1>2, TailLemma
  <2> QED
    BY <2>1, <2>2 DEF OnlyFirst, Subscribes
<1> QED
  BY <1>1, <1>2, AppendLemma

\* Only the constructor asks for the subscription.
LEMMA FirstStep ==
  ASSUME TypeOK, LinkInv, CommandInv, Subscribing, [Next]_vars
  PROVE  /\ OnlyFirst(requests')
         /\ ServerAnswers => ~Subscribes(requests')
         /\ InitSubscribes \/ (Subscribes(requests') => Subscribes(requests))
<1>1. requests \in Seq(Message) /\ OnlyFirst(requests)
  BY DEF TypeOK, Subscribing
<1>2. CASE ServerAnswers
  <2>1. requests # <<>> /\ requests' = Tail(requests)
    BY <1>2, Replied
  <2>2. PICK m \in Message : m = Head(requests)
    BY <1>1, <2>1, TailLemma
  <2>3. OnlyFirst(requests') /\ ~Subscribes(requests')
    BY <1>1, <2>1, <2>2, FirstLemma
  <2> QED
    BY <2>3
<1>3. SUFFICES ASSUME ~ServerAnswers
               PROVE  /\ OnlyFirst(requests')
                      /\ InitSubscribes \/ (Subscribes(requests') => Subscribes(requests))
  BY <1>2
<1>4. CASE UNCHANGED requests
  BY <1>1, <1>4
<1>5. \A m \in Message : m.kind # "subscribe" =>
        /\ Append(requests, m) \in Seq(Message) /\ OnlyFirst(Append(requests, m))
        /\ Subscribes(Append(requests, m)) => Subscribes(requests)
  BY <1>1, FirstLemma
<1>6. \A kind \in Parts, r \in Refreshes :
        Request(kind, r) \in Message /\ Request(kind, r).kind # "subscribe"
  BY Bounds DEF Message, Request, Msg, Parts
<1>7. ASSUME NEW signal, RefreshDevices(signal)
      PROVE  OnlyFirst(requests') /\ (Subscribes(requests') => Subscribes(requests))
  <2>1. CASE context = "ready"
    <3>1. PICK r \in Refreshes : requests' = Append(requests, Request("info", r))
      BY <1>7, <2>1 DEF RefreshDevices, Free
    <3> QED
      BY <1>5, <1>6, <3>1 DEF Parts
  <2>2. CASE context # "ready"
    BY <1>1, <1>7, <2>2 DEF RefreshDevices
  <2> QED
    BY <2>1, <2>2
<1>8. CASE InitSubscribes
  <2>1. requests = <<>>
    BY <1>8 DEF InitSubscribes, Subscribing
  <2>2. requests' = <<>> \/ requests' = <<Request("subscribe", None)>>
    BY <1>8, <2>1 DEF InitSubscribes
  <2> QED
    BY <1>8, <2>2 DEF OnlyFirst
<1>9. CASE SendCommand /\ context = "ready"
  <2>1. /\ Request("set", command) \in Message /\ Request("set", command).kind # "subscribe"
        /\ requests' = Append(requests, Request("set", command))
    BY <1>9, Bounds DEF SendCommand, CommandInv, Message, Request, Msg
  <2> QED
    BY <1>5, <2>1
<1>10. CASE ServerInfoCallback
  <2>1. PICK r \in Refreshes :
          requests' = Append(Append(requests, Request("sinks", r)), Request("sources", r))
    BY <1>10, InfoComes
  <2>2. PICK q \in Seq(Message) : /\ q = Append(requests, Request("sinks", r)) /\ OnlyFirst(q)
                                  /\ Subscribes(q) => Subscribes(requests)
    BY <1>5, <1>6 DEF Parts
  <2>3. OnlyFirst(requests') /\ (Subscribes(requests') => Subscribes(q))
    BY <1>6, <2>1, <2>2, FirstLemma DEF Parts
  <2> QED
    BY <2>2, <2>3
<1>11. ASSUME NEW state, ContextEnds(state)
       PROVE  OnlyFirst(requests') /\ ~Subscribes(requests')
  BY <1>11 DEF ContextEnds, OnlyFirst, Subscribes
<1>12. CASE Next
  <2> USE <1>4
  <2>1. CASE Constructor
    BY <2>1, <1>8 DEF Constructor, InitWaits, linkVars
  <2>2. CASE Worker \/ SpuriousWakeup
    BY <2>2, <1>9 DEF Worker, WorkerWakes, SpuriousWakeup, SendCommand, WaitReturns, linkVars
  <2>3. CASE HandleRefresh
    BY <2>3, <1>7 DEF HandleRefresh
  <2>4. CASE Destroy \/ ServerDies
    BY <2>4, <1>11 DEF Destroy, ServerDies
  <2>5. CASE \E c \in Command : LookupDevice(c)
    BY <2>5 DEF LookupDevice, linkVars
  <2>6. CASE Mainloop
    BY <2>6, <1>7, <1>10 DEF Mainloop, SubscribeCallback, SinkInfoCallback, SourceInfoCallback,
       ListCallback, SuccessCallback
  <2>7. CASE Server \/ ServerAccepts \/ ServerChanges \/ Gone
    BY <2>7, <1>3 DEF Server, ServerNotifies, ServerAccepts, ServerChanges, Gone, linkVars, vars
  <2> QED
    BY <1>12, <2>1, <2>2, <2>3, <2>4, <2>5, <2>6, <2>7 DEF Next
<1> QED
  BY <1>4, <1>12 DEF vars, linkVars

LEMMA SubscribingStep ==
  ASSUME TypeOK, LinkInv, CommandInv, Subscribing, [Next]_vars
  PROVE  Subscribing'
<1>1. /\ OnlyFirst(requests')
      /\ ServerAnswers => ~Subscribes(requests')
      /\ InitSubscribes \/ (Subscribes(requests') => Subscribes(requests))
  BY FirstStep
<1>2. CASE UNCHANGED <<life, requests, replies, subscribed, asked, refresh, context, unannounced>>
           /\ (life \in {"connect", "subscribe"} => UNCHANGED worker)
  BY <1>2 DEF Subscribing
<1>3. CASE InitWaits
  BY <1>3 DEF InitWaits, Subscribing, serverVars, linkVars, handlerVars
<1>4. CASE InitSubscribes
  <2>1. /\ life = "subscribe" /\ life' = "running" /\ UNCHANGED <<replies, subscribed, asked, refresh,
           context, unannounced>>
        /\ requests = <<>> /\ replies = <<>> /\ asked = 0 /\ \A r \in Refreshes : refresh[r] = None
    BY <1>4 DEF InitSubscribes, Subscribing, serverVars, handlerVars
  <2> QED
    BY <1>1, <2>1 DEF Subscribing
<1>5. ASSUME NEW state \in {"failed", "terminated"}, ContextEnds(state),
             UNCHANGED asked, life' = life \/ life' = "destroyed",
             life \in {"connect", "subscribe"} => UNCHANGED worker
      PROVE  Subscribing'
  BY <1>1, <1>5 DEF ContextEnds, Subscribing
<1>6. CASE HandleRefresh
  <2>1. /\ life = "running" /\ asked' = asked + 1 /\ RefreshDevices(TRUE) /\ ~InitSubscribes
        /\ UNCHANGED <<life, replies, subscribed, context, unannounced>>
    BY <1>6 DEF HandleRefresh, NextRequest, InitSubscribes, serverVars
  <2>2. CASE context = "ready"
    <3>1. PICK n \in Refreshes :
            /\ refresh'[n] # None
            /\ refresh'[n] = [pending |-> 2, info |-> 0, sinks |-> 0, sources |-> 0, failed |-> {}, signal |-> TRUE]
            /\ \A q \in Refreshes \ {n} : refresh'[q] = refresh[q]
      BY <2>1, <2>2, BeginsOne
    <3>2. Subscribes(requests) => \A r \in Refreshes : refresh'[r] # None => refresh'[r].info = 0
      BY <2>1, <2>2, <3>1 DEF Subscribing
    <3> QED
      BY <1>1, <2>1, <2>2, <3>1, <3>2 DEF Subscribing
  <2>3. CASE context # "ready"
    BY <1>1, <2>1, <2>3 DEF Subscribing
  <2> QED
    BY <2>2, <2>3
<1>7. CASE SendCommand
  <2>1. /\ life \notin {"connect", "subscribe"} /\ ~InitSubscribes
        /\ UNCHANGED <<life, replies, subscribed, context, unannounced, asked, refresh>>
    BY <1>7 DEF SendCommand, serverVars, Subscribing, InitSubscribes, handlerVars
  <2> QED
    BY <1>1, <2>1 DEF Subscribing
<1>8. ASSUME NEW c, LookupDevice(c) PROVE Subscribing'
  <2>1. /\ life = "running" /\ asked > 0
        /\ UNCHANGED <<life, requests, replies, subscribed, refresh, context, unannounced>>
    BY <1>8 DEF LookupDevice, NextRequest, serverVars, linkVars
  <2> QED
    BY <2>1 DEF Subscribing
<1>9. CASE Mainloop
  <2>1. replies # <<>> /\ UNCHANGED <<life, subscribed, context, unannounced>>
    BY <1>9 DEF Mainloop, SubscribeCallback, ServerInfoCallback, SinkInfoCallback, SourceInfoCallback,
       ListCallback, SuccessCallback, Dispatch, serverVars
  <2>2. ~InitSubscribes
    BY <2>1 DEF InitSubscribes, Subscribing
  <2> QED
    BY <1>1, <2>1, <2>2 DEF Subscribing
<1>10. CASE ServerAnswers
  <2>1. requests # <<>> /\ UNCHANGED <<life, context, asked, refresh>>
    BY <1>10 DEF ServerAnswers, handlerVars
  <2>2. unannounced' => subscribed'
    <3>1. CASE UNCHANGED unannounced /\ (subscribed => subscribed')
      BY <3>1 DEF Subscribing
    <3>2. CASE UNCHANGED subscribed /\ \E state : Enter(state)
      BY <3>2 DEF Subscribing, Enter
    <3> QED
      BY <1>10, <3>1, <3>2, Replied
  <2> QED
    BY <1>1, <1>10, <2>1, <2>2 DEF Subscribing
<1>11. CASE ServerChanges
  <2>1. /\ UNCHANGED <<life, requests, replies, subscribed, asked, refresh, context, worker>>
        /\ unannounced' => unannounced \/ subscribed
    BY <1>11 DEF ServerChanges, Enter, linkVars, handlerVars
  <2> QED
    BY <2>1 DEF Subscribing
<1>12. CASE ServerNotifies
  <2>1. unannounced /\ ~unannounced'
        /\ UNCHANGED <<life, requests, subscribed, asked, refresh, context, worker>>
    BY <1>12 DEF ServerNotifies, handlerVars
  <2>2. subscribed /\ life \notin {"connect", "subscribe"}
    BY <2>1 DEF Subscribing
  <2> QED
    BY <2>1, <2>2 DEF Subscribing
<1>13. CASE ServerAccepts
  <2>1. /\ context = "connecting" /\ context' = "ready"
        /\ UNCHANGED <<life, requests, replies, subscribed, asked, refresh, unannounced, worker>>
    BY <1>13 DEF ServerAccepts, serverVars, linkVars, handlerVars
  <2> QED
    BY <2>1 DEF Subscribing
<1>14. CASE WaitReturns
  <2>1. /\ UNCHANGED <<life, requests, replies, subscribed, asked, refresh, context, unannounced>>
        /\ life \notin {"connect", "subscribe"}
    BY <1>14 DEF WaitReturns, serverVars, linkVars, Subscribing
  <2> QED
    BY <1>2, <2>1
<1>15. CASE Destroy \/ ServerDies
  BY <1>5, <1>15 DEF Destroy, ServerDies, handlerVars
<1>16. CASE UNCHANGED vars
  BY <1>2, <1>16 DEF vars, serverVars, linkVars, handlerVars
<1> QED
  BY <1>3, <1>4, <1>6, <1>7, <1>8, <1>9, <1>10, <1>11, <1>12, <1>13, <1>14, <1>15, <1>16
  DEF Next, Constructor, Worker, WorkerWakes, SpuriousWakeup, Server, Gone

LEMMA KnownStatesStep ==
  ASSUME TypeOK, LinkInv, CommandInv, KnownStates, [Next]_vars
  PROVE  KnownStates'
<1>1. Len(server) \in Nat /\ Len(server') \in Nat /\ Len(server) <= Len(server')
  BY Grows
<1>2. \A r \in Refreshes : refresh[r] # None => refresh[r] \in RefreshState
  BY DEF TypeOK
<1>3. report # None => report \in Report
  BY DEF TypeOK
<1>4. \A s \in RefreshState : s.info \in Nat /\ s.sinks \in Nat /\ s.sources \in Nat
  BY Bounds DEF RefreshState
<1>5. report \in Report => report.info \in Nat /\ report.sinks \in Nat /\ report.sources \in Nat
  BY Bounds DEF Report
<1>6. /\ \A r \in Refreshes : refresh[r] # None =>
           /\ refresh[r].info <= Len(server') /\ refresh[r].sinks <= Len(server')
           /\ refresh[r].sources <= Len(server')
      /\ report # None =>
           /\ report.info <= Len(server') /\ report.sinks <= Len(server')
           /\ report.sources <= Len(server')
  BY <1>1, <1>2, <1>3, <1>4, <1>5 DEF KnownStates
<1>7. CASE UNCHANGED <<refresh, report>>
  BY <1>6, <1>7 DEF KnownStates
<1>8. ASSUME NEW signal \in BOOLEAN, RefreshDevices(signal), UNCHANGED report PROVE KnownStates'
  <2>1. CASE context = "ready"
    <3>1. PICK r \in Refreshes :
            /\ refresh'[r] = [pending |-> 2, info |-> 0, sinks |-> 0, sources |-> 0, failed |-> {}, signal |-> signal]
            /\ \A q \in Refreshes \ {r} : refresh'[q] = refresh[q]
      BY <1>8, <2>1, BeginsOne
    <3> QED
      BY <1>1, <1>6, <1>8, <3>1 DEF KnownStates
  <2>2. CASE context # "ready"
    BY <1>7, <1>8, <2>2 DEF RefreshDevices
  <2> QED
    BY <2>1, <2>2
<1>9. CASE ServerInfoCallback
  <2>1. PICK r \in Refreshes, v \in 1..Len(server) :
          /\ InfoPhase(r) /\ refresh[r] \in RefreshState
          /\ refresh'[r].info = v
          /\ refresh'[r].sinks = refresh[r].sinks /\ refresh'[r].sources = refresh[r].sources
          /\ \A q \in Refreshes \ {r} : refresh'[q] = refresh[q]
    BY <1>9, InfoComes
  <2>2. refresh'[r].info = v /\ refresh'[r].sinks = 0 /\ refresh'[r].sources = 0
    BY <2>1 DEF InfoPhase
  <2>3. UNCHANGED report
    BY <1>9 DEF ServerInfoCallback
  <2>4. v <= Len(server') /\ 0 <= Len(server')
    BY <1>1
  <2>5. \A q \in Refreshes : refresh'[q] # None =>
          /\ refresh'[q].info <= Len(server') /\ refresh'[q].sinks <= Len(server')
          /\ refresh'[q].sources <= Len(server')
    <3>1. \A q \in Refreshes \ {r} : refresh'[q] = refresh[q]
      BY <2>1
    <3> QED
      BY <1>6, <2>2, <2>4, <3>1
  <2> QED
    BY <1>6, <2>3, <2>5 DEF KnownStates
<1>10. ASSUME NEW kind \in ListKinds, NEW type, ListCallback(kind, type) PROVE KnownStates'
  <2>1. PICK r \in Refreshes, v \in 1..Len(server), state \in RefreshState :
          /\ refresh[r] # None /\ state.info = refresh[r].info
          /\ state.sinks   = IF kind = "sinks" THEN v ELSE refresh[r].sinks
          /\ state.sources = IF kind = "sources" THEN v ELSE refresh[r].sources
          /\ \A q \in Refreshes \ {r} : refresh'[q] = refresh[q]
          /\ \/ /\ refresh'[r].info = state.info /\ refresh'[r].sinks = state.sinks
                /\ refresh'[r].sources = state.sources /\ UNCHANGED report
             \/ /\ refresh'[r] = None
                /\ report' = ReportOf(state)
    BY <1>10, ListComes
  <2>2. state.info <= Len(server') /\ state.sinks <= Len(server') /\ state.sources <= Len(server')
    BY <1>1, <1>6, <2>1
  <2> QED
    BY <1>6, <2>1, <2>2 DEF KnownStates, ReportOf
<1>11. ASSUME NEW state, ContextEnds(state), UNCHANGED report PROVE KnownStates'
  BY <1>6, <1>11 DEF ContextEnds, KnownStates
<1>12. CASE Next
  <2>1. CASE Constructor \/ Worker \/ SpuriousWakeup
    BY <2>1, <1>7 DEF Constructor, InitWaits, InitSubscribes, Worker, WorkerWakes, SpuriousWakeup,
       SendCommand, WaitReturns
  <2>2. CASE HandleRefresh
    BY <2>2, <1>8 DEF HandleRefresh
  <2>3. CASE Destroy \/ ServerDies
    BY <2>3, <1>11 DEF Destroy, ServerDies
  <2>4. CASE Mainloop
    BY <2>4, <1>7, <1>8, <1>9, <1>10 DEF Mainloop, SubscribeCallback, SinkInfoCallback,
       SourceInfoCallback, ListKinds, SuccessCallback
  <2>5. CASE Server \/ ServerAccepts \/ ServerChanges \/ Gone
    BY <2>5, <1>7 DEF Server, ServerNotifies, ServerAnswers, ServerAccepts, ServerChanges, Gone, vars
  <2>6. CASE \E c \in Command : LookupDevice(c)
    BY <2>6, <1>7 DEF LookupDevice
  <2> QED
    BY <1>12, <2>1, <2>2, <2>3, <2>4, <2>5, <2>6 DEF Next
<1> QED
  BY <1>7, <1>12 DEF vars

\* The server's state stays what it is: its log grows by the same state if at all.
LEMMA StaysCurrent ==
  ASSUME TypeOK, CommandInv, [Next]_vars, subscribed, ~unannounced, ~unannounced', ~ServerNotifies, ~Ends,
         NEW s \in 1..Len(server), Current(s)
  PROVE  s \in 1..Len(server') /\ Current(s)'
<1>1. /\ Len(server) \in Nat /\ s \in 1..Len(server')
      /\ \A v \in 1..Len(server) : server'[v] = server[v]
  BY Grows
<1>2. CASE server' = server
  BY <1>1, <1>2 DEF Current
<1>3. CASE server' # server
  <2>1. PICK state : Enter(state)
    BY <1>3, Replied DEF Next, Constructor, Worker, WorkerWakes, SpuriousWakeup, Mainloop, Server, Gone, vars,
       serverVars, InitWaits, InitSubscribes, HandleRefresh, SendCommand, WaitReturns, Destroy,
       LookupDevice, SubscribeCallback, ServerInfoCallback, SinkInfoCallback, SourceInfoCallback,
       ListCallback, SuccessCallback, ServerNotifies, ServerChanges, ServerAccepts, ServerDies
  <2>2. server' = Append(server, state) /\ state = Last(server)
    BY <2>1 DEF Enter, MaskMatches
  <2>3. /\ server \in Seq(ServerState) /\ Len(server) >= 1 /\ state = server[Len(server)]
        /\ state \in ServerState
    BY <2>2 DEF TypeOK, Last
  <2>4. Len(server') = Len(server) + 1 /\ server'[Len(server) + 1] = server[Len(server)]
    BY <2>2, <2>3, EnterLemma
  <2>5. ASSUME NEW v \in s..Len(server') PROVE server'[v] = server[Len(server)]
    <3>1. CASE v = Len(server) + 1
      BY <2>4, <3>1
    <3>2. CASE v # Len(server) + 1
      <4>1. v \in s..Len(server) /\ v \in 1..Len(server)
        BY <1>1, <2>4, <3>2
      <4> QED
        BY <1>1, <4>1 DEF Current
    <3> QED
      BY <3>1, <3>2
  <2> QED
    BY <1>1, <2>4, <2>5 DEF Current
<1> QED
  BY <1>2, <1>3

LEMMA CaughtStep ==
  ASSUME TypeOK, LinkInv, CommandInv, Subscribing, ChangesAreCaught, [Next]_vars
  PROVE  ChangesAreCaught'
<1> SUFFICES ASSUME life' = "running", context' = "ready", subscribed', asked' > 0,
                    ~unannounced', ~EventIn(replies')
             PROVE  \E s \in 1..Len(server') : Current(s)' /\ Catches(s)'
  BY DEF ChangesAreCaught
<1>1. /\ server \in Seq(ServerState) /\ Len(server) \in Nat /\ Len(server) \in 1..Len(server)
      /\ requests \in Seq(Message) /\ replies \in Seq(Message) /\ asked \in Nat
  BY Bounds DEF TypeOK
<1>2. ~Ends
  BY DEF Ends, ServerDies, Destroy, ContextEnds
<1>3. ASSUME NEW signal \in BOOLEAN, context = "ready", RefreshDevices(signal),
             UNCHANGED replies \/ (replies # <<>> /\ replies' = Tail(replies)), UNCHANGED server
      PROVE  \E s \in 1..Len(server') : Current(s)' /\ Catches(s)'
  <2>1. PICK s \in 1..Len(server) : s = Len(server)
    BY <1>1
  <2>2. s \in 1..Len(server') /\ Current(s)'
    BY <1>1, <1>3, <2>1 DEF Current
  <2>3. \E r \in Refreshes : refresh'[r] # None /\ News(r, s)'
    BY <1>3, NewsBegin
  <2> QED
    BY <2>2, <2>3 DEF Catches
<1>4. context = "ready" /\ life = "running"
  <2>1. ~ServerAccepts /\ ~InitWaits
    BY DEF ServerAccepts, InitWaits, Subscribing
  <2>2. ~InitSubscribes
    BY DEF InitSubscribes, Subscribing, handlerVars
  <2> QED
    BY <1>2, <2>1, <2>2 DEF Ends, Next, Constructor, Worker, WorkerWakes, SpuriousWakeup, Mainloop, Server,
       Gone, vars, HandleRefresh, SendCommand, WaitReturns,
       LookupDevice, SubscribeCallback, ServerInfoCallback, SinkInfoCallback, SourceInfoCallback,
       ListCallback, SuccessCallback, ServerNotifies, ServerAnswers, ServerChanges
<1>5. CASE HandleRefresh
  <2>1. RefreshDevices(TRUE) /\ UNCHANGED <<replies, server>>
    BY <1>5 DEF HandleRefresh, serverVars
  <2> QED
    BY <1>3, <1>4, <2>1
<1>6. CASE SubscribeCallback
  <2>1. RefreshDevices(FALSE) /\ replies # <<>> /\ replies' = Tail(replies) /\ UNCHANGED server
    BY <1>6 DEF SubscribeCallback, Dispatch, serverVars
  <2> QED
    BY <1>3, <1>4, <2>1
<1>7. CASE ServerAnswers /\ ~subscribed
  <2>1. /\ Subscribes(requests) /\ asked > 0 /\ UNCHANGED <<server, replies, refresh>>
    BY <1>7, Replied DEF ServerAnswers, handlerVars, Subscribes
  <2>2. PICK r \in Refreshes : refresh[r] # None /\ refresh[r].info = 0 /\ replies = <<>>
    BY <1>4, <2>1 DEF Subscribing
  <2>3. InfoPhase(r)
    BY <2>2 DEF LinkInv, WaitsForWhatComes, ListPhase
  <2>4. PICK s \in 1..Len(server) : s = Len(server)
    BY <1>1
  <2>5. s \in 1..Len(server') /\ Current(s)'
    BY <1>1, <2>1, <2>4 DEF Current
  <2>6. ~Tainted(r, s)'
    BY <2>1, <2>2, <2>3 DEF Tainted, Old, OldList, InfoPhase
  <2>7. News(r, s)'
    BY <2>1, <2>2, <2>6 DEF News, InfosBefore, OldInfos
  <2> QED
    BY <2>1, <2>2, <2>5, <2>7 DEF Catches
<1>8. CASE ~HandleRefresh /\ ~SubscribeCallback /\ (subscribed \/ ~ServerAnswers)
  <2>1. ~ServerNotifies
    <3> SUFFICES ASSUME ServerNotifies PROVE FALSE
      OBVIOUS
    <3> DEFINE m == Request("event", None)
    <3>1. m \in Message /\ m.kind = "event" /\ replies' = Append(replies, m)
      BY Bounds DEF ServerNotifies, Message, Request, Msg
    <3> HIDE DEF m
    <3>2. Len(replies) + 1 \in 1..Len(replies') /\ replies'[Len(replies) + 1] = m
      BY <1>1, <3>1, AppendLemma
    <3> QED
      BY <3>1, <3>2 DEF EventIn
  <2>2. subscribed
    BY <1>2, <1>8 DEF Ends, Next, Constructor, Worker, WorkerWakes, SpuriousWakeup, Mainloop, Server, Gone,
       vars, serverVars, InitWaits, InitSubscribes, SendCommand, WaitReturns,
       LookupDevice, ServerInfoCallback, SinkInfoCallback, SourceInfoCallback,
       ListCallback, SuccessCallback, ServerNotifies, ServerChanges, ServerAccepts
  <2>3. asked > 0
    BY <1>2, <1>8 DEF Ends, Next, Constructor, Worker, WorkerWakes, SpuriousWakeup, Mainloop, Server, Gone,
       vars, handlerVars, InitWaits, InitSubscribes, SendCommand, WaitReturns,
       LookupDevice, ServerInfoCallback, SinkInfoCallback, SourceInfoCallback,
       ListCallback, SuccessCallback, ServerNotifies, ServerAnswers, ServerChanges, ServerAccepts
  <2>4. ~unannounced
    BY <1>2, <1>8, <2>1, Replied DEF Ends, Next, Constructor, Worker, WorkerWakes, SpuriousWakeup, Mainloop, Server,
       Gone, vars, serverVars, InitWaits, InitSubscribes, SendCommand, WaitReturns,
       LookupDevice, ServerInfoCallback, SinkInfoCallback, SourceInfoCallback,
       ListCallback, SuccessCallback, ServerChanges, ServerAccepts, Enter
  <2>5. ~EventIn(replies)
    <3>1. \/ replies' = replies
          \/ \E m : replies' = Append(replies, m)
          \/ replies # <<>> /\ replies' = Tail(replies) /\ Head(replies).kind # "event"
      BY <1>2, <1>8, Replied DEF Ends, Next, Constructor, Worker, WorkerWakes, SpuriousWakeup, Mainloop, Server, Gone,
         vars, linkVars, InitWaits, InitSubscribes, SendCommand, WaitReturns,
         LookupDevice, ServerInfoCallback, SinkInfoCallback, SourceInfoCallback,
         ListCallback, SuccessCallback, ServerNotifies, ServerChanges, ServerAccepts, Dispatch
    <3>2. ASSUME NEW i \in 1..Len(replies), replies[i].kind = "event" PROVE FALSE
      <4>1. CASE replies' = replies
        BY <3>2, <4>1 DEF EventIn
      <4>2. CASE \E m : replies' = Append(replies, m)
        <5>1. i \in 1..Len(replies') /\ replies'[i] = replies[i]
          BY <1>1, <4>2
        <5> QED
          BY <3>2, <5>1 DEF EventIn
      <4>3. CASE replies # <<>> /\ replies' = Tail(replies) /\ Head(replies).kind # "event"
        <5>1. i # 1 /\ i - 1 \in 1..(Len(replies) - 1) /\ (i - 1) + 1 = i
          BY <1>1, <3>2, <4>3, TailLemma
        <5>2. i - 1 \in 1..Len(replies') /\ replies'[i - 1] = replies[i]
          BY <1>1, <4>3, <5>1, TailLemma
        <5> QED
          BY <3>2, <5>2 DEF EventIn
      <4> QED
        BY <3>1, <4>1, <4>2, <4>3
    <3> QED
      BY <3>2 DEF EventIn
  <2>6. PICK s \in 1..Len(server) : Current(s) /\ Catches(s)
    BY <1>4, <2>2, <2>3, <2>4, <2>5 DEF ChangesAreCaught
  <2>7. s \in 1..Len(server') /\ Current(s)'
    BY <1>2, <2>1, <2>2, <2>4, <2>6, StaysCurrent
  <2>8. /\ NothingOld(s) => NothingOld(s)' /\ (UNCHANGED report \/ ReportSince(s)')
        /\ \A r \in Refreshes : refresh[r] # None /\ News(r, s) =>
             \/ refresh'[r] # None /\ News(r, s)'
             \/ refresh'[r] = None /\ NothingOld(s)' /\ ReportSince(s)'
    BY <1>2, NewsStay
  <2>9. UNCHANGED report /\ ReportSince(s) => ReportSince(s)'
    BY DEF ReportSince
  <2>10. Catches(s)'
    BY <2>6, <2>8, <2>9 DEF Catches
  <2> QED
    BY <2>7, <2>10
<1> QED
  BY <1>5, <1>6, <1>7, <1>8

LEMMA Settles == Spec => []SettleInv
<1>1. Init => SettleInv
  <2> SUFFICES ASSUME Init PROVE SettleInv
    OBVIOUS
  <2>1. OnlyFirst(requests) /\ ~Subscribes(requests)
    BY DEF Init, OnlyFirst, Subscribes
  <2> QED
    BY <2>1 DEF Init, SettleInv, Subscribing, KnownStates, ChangesAreCaught
<1>2. IInv /\ SettleInv /\ [Next]_vars => SettleInv'
  BY SubscribingStep, KnownStatesStep, CaughtStep DEF IInv, SettleInv
<1> QED
  BY <1>1, <1>2, Invariant, PTL DEF Spec

\* The safety core of ReportsCatchUp: when nothing is on its way and no event is owed,
\* the last report shows what the server has now, but for the parts its own answers
\* refused, whatever changed meanwhile and however many refreshes overlapped, if the
\* server accepted the subscription (pulseaudio_backend.hpp:142-147, 208-211, 231-241).
THEOREM ReportsSettle == Spec => []SettledReportIsCurrent
<1>1. IInv /\ SettleInv => SettledReportIsCurrent
  <2> SUFFICES ASSUME IInv, SettleInv, life = "running", context = "ready", asked > 0, subscribed,
                      ~unannounced, requests = <<>>, replies = <<>>
               PROVE  report # None /\ Shown(report) = Shown(Latest(report.failed))
    BY DEF SettledReportIsCurrent
  <2>1. ~EventIn(replies)
    BY DEF EventIn
  <2>2. PICK s \in 1..Len(server) : Current(s) /\ Catches(s)
    BY <2>1 DEF SettleInv, ChangesAreCaught
  <2>3. \A r \in Refreshes : refresh[r] = None
    BY DEF IInv, LinkInv, WaitsForWhatComes, InfoPhase, ListPhase, Out, OnTheWay, In
  <2>4. ReportSince(s)
    BY <2>2, <2>3 DEF Catches
  <2>5. /\ report.info \in s..Len(server) /\ report.sinks \in s..Len(server)
        /\ report.sources \in s..Len(server)
    <3>1. report \in Report /\ report # None /\ Len(server) \in Nat
      BY <2>4 DEF IInv, TypeOK, ReportSince
    <3>2. report.info \in Nat /\ report.sinks \in Nat /\ report.sources \in Nat
      BY <3>1, Bounds DEF Report
    <3> QED
      BY <2>4, <3>1, <3>2 DEF ReportSince, SettleInv, KnownStates
  <2>6. /\ server[report.info] = server[Len(server)] /\ server[report.sinks] = server[Len(server)]
        /\ server[report.sources] = server[Len(server)]
    BY <2>2, <2>5 DEF Current
  <2>7. PICK last : last = Latest(report.failed)
    OBVIOUS
  <2>8. /\ last.info = Len(server) /\ last.sinks = Len(server) /\ last.sources = Len(server)
        /\ last.failed = report.failed
    BY <2>7 DEF Latest
  <2>9. Shown(report) = Shown(last)
    BY <2>6, <2>8 DEF Shown, DevicesOf
  <2> QED
    BY <2>4, <2>7, <2>9 DEF ReportSince
<1> QED
  BY <1>1, Invariant, Settles, PTL

--------------------------------------------------------------------------------
(* Nobody waits in vain *)

\* Who is in mainloop_wait_() has been signalled, or what it waits for is on its way.  Only
\* a refresh without a connection waits for what will not come.
NobodyWaitsInVain ==
  /\ life = "connect" => context = "connecting" \/ woken
  /\ worker = "operation" => IF op = "running" THEN SetIn(requests) \/ SetIn(replies) ELSE woken
  /\ worker = "refresh" =>
       IF done THEN woken
               ELSE context = "ready" =>
                      \E r \in Refreshes : Signals(r) /\ \E kind \in Parts : Out(kind, r)

AwakeInv ==
  /\ life = "connect" => context = "connecting" \/ woken
  /\ worker = "operation" => IF op = "running" THEN SetIn(requests) \/ SetIn(replies) ELSE woken
  /\ worker = "refresh" =>
       IF done THEN woken ELSE context = "ready" => \E r \in Refreshes : Signals(r)

\* A command is in the connection until its callback has run.
LEMMA SetsStay ==
  ASSUME TypeOK, LinkInv, [Next]_vars, ~Ends, ~SuccessCallback
  PROVE  SetIn(requests) \/ SetIn(replies) => SetIn(requests') \/ SetIn(replies')
<1>1. requests \in Seq(Message) /\ replies \in Seq(Message)
  BY DEF TypeOK
<1>2. ASSUME NEW q \in Seq(Message), NEW m, SetIn(q) PROVE SetIn(Append(q, m))
  <2>1. \A i \in 1..Len(q) : i \in 1..Len(Append(q, m)) /\ Append(q, m)[i] = q[i]
    OBVIOUS
  <2> QED
    BY <1>2, <2>1 DEF SetIn
<1>3. ASSUME NEW q \in Seq(Message), q # <<>>, Head(q).kind # "set", SetIn(q) PROVE SetIn(Tail(q))
  <2>1. PICK i \in 1..Len(q) : q[i].kind = "set"
    BY <1>3 DEF SetIn
  <2>2. i # 1 /\ i - 1 \in 1..(Len(q) - 1) /\ (i - 1) + 1 = i
    BY <1>3, <2>1, TailLemma
  <2>3. i - 1 \in 1..Len(Tail(q)) /\ Tail(q)[i - 1] = q[i]
    BY <1>3, <2>2, TailLemma
  <2> QED
    BY <2>1, <2>3 DEF SetIn
<1>4. \A m, n : SetIn(requests) => SetIn(Append(requests, m)) /\ SetIn(Append(Append(requests, m), n))
  <2> SUFFICES ASSUME NEW m, NEW n, SetIn(requests)
               PROVE  SetIn(Append(requests, m)) /\ SetIn(Append(Append(requests, m), n))
    OBVIOUS
  <2>1. PICK i \in 1..Len(requests) : requests[i].kind = "set"
    BY DEF SetIn
  <2>2. /\ i \in 1..Len(Append(requests, m)) /\ Append(requests, m)[i] = requests[i]
        /\ i \in 1..Len(Append(Append(requests, m), n)) /\ Append(Append(requests, m), n)[i] = requests[i]
    BY <1>1
  <2> QED
    BY <2>1, <2>2 DEF SetIn
<1>5. CASE UNCHANGED <<requests, replies>>
  BY <1>5
<1>6. ASSUME NEW m, requests' = Append(requests, m), UNCHANGED replies \/ (SetIn(replies) => SetIn(replies'))
      PROVE  SetIn(requests) \/ SetIn(replies) => SetIn(requests') \/ SetIn(replies')
  BY <1>4, <1>6
<1>7. ASSUME NEW kind, kind # "set", Dispatch(kind)
      PROVE  SetIn(replies) => SetIn(replies')
  BY <1>1, <1>3, <1>7 DEF Dispatch
<1>8. ASSUME NEW signal \in BOOLEAN, RefreshDevices(signal)
      PROVE  SetIn(requests) => SetIn(requests')
  BY <1>4, <1>8 DEF RefreshDevices
<1>9. CASE ServerInfoCallback
  <2>1. PICK r \in Refreshes : requests' = Append(Append(requests, Request("sinks", r)), Request("sources", r))
    BY <1>9, InfoComes
  <2>2. SetIn(replies) => SetIn(replies')
    BY <1>7, <1>9 DEF ServerInfoCallback
  <2> QED
    BY <1>4, <2>1, <2>2
<1>10. CASE ServerAnswers
  <2>1. requests # <<>> /\ requests' = Tail(requests)
    BY <1>10, Replied
  <2>2. SetIn(replies) => SetIn(replies')
    BY <1>1, <1>2, <1>10, Replied
  <2>3. CASE Head(requests).kind = "set"
    <3>1. PICK m : replies' = Append(replies, m) /\ m.kind = "set"
      BY <1>10, <2>3, Replied
    <3>2. Len(replies) + 1 \in 1..Len(replies') /\ replies'[Len(replies) + 1] = m
      BY <1>1, <3>1
    <3> QED
      BY <3>1, <3>2 DEF SetIn
  <2>4. CASE Head(requests).kind # "set"
    BY <1>1, <1>3, <2>1, <2>2, <2>4
  <2> QED
    BY <2>3, <2>4
<1>11. CASE Next
  <2>1. CASE Constructor
    BY <2>1, <1>5, <1>6 DEF Constructor, InitWaits, InitSubscribes, linkVars
  <2>2. CASE Worker \/ SpuriousWakeup
    BY <2>2, <1>5, <1>6 DEF Worker, WorkerWakes, SpuriousWakeup, SendCommand, WaitReturns, linkVars
  <2>3. CASE HandleRefresh
    BY <2>3, <1>8 DEF HandleRefresh
  <2>4. CASE \E c \in Command : LookupDevice(c)
    BY <2>4, <1>5 DEF LookupDevice, linkVars
  <2>5. CASE Mainloop
    BY <2>5, <1>7, <1>8, <1>9 DEF Mainloop, SubscribeCallback, SinkInfoCallback, SourceInfoCallback,
       ListCallback
  <2>6. CASE Server \/ ServerAccepts \/ ServerChanges \/ Gone
    BY <2>6, <1>1, <1>2, <1>5, <1>10 DEF Server, ServerNotifies, ServerAccepts, ServerChanges, Gone, linkVars, vars
  <2> QED
    BY <1>11, <2>1, <2>2, <2>3, <2>4, <2>5, <2>6 DEF Next, Ends
<1> QED
  BY <1>5, <1>11 DEF vars, linkVars

\* A refresh that signals is there until it has signalled.
LEMMA SignalsStay ==
  ASSUME TypeOK, LinkInv, [Next]_vars, ~Ends, NEW r \in Refreshes, Signals(r)
  PROVE  Signals(r)' \/ (done' /\ woken')
<1>1. CASE UNCHANGED refresh
  BY <1>1 DEF Signals
<1>2. ASSUME NEW signal \in BOOLEAN, RefreshDevices(signal) PROVE Signals(r)'
  <2>1. CASE context = "ready"
    <3>1. PICK n \in Refreshes : refresh[n] = None /\ \A q \in Refreshes \ {n} : refresh'[q] = refresh[q]
      BY <1>2, <2>1, BeginsOne
    <3> QED
      BY <3>1 DEF Signals
  <2>2. CASE context # "ready"
    BY <1>2, <2>2 DEF RefreshDevices, Signals
  <2> QED
    BY <2>1, <2>2
<1>3. CASE ServerInfoCallback
  <2>1. PICK n \in Refreshes, v \in 1..Len(server) :
          /\ refresh'[n] # None /\ refresh'[n].signal = refresh[n].signal
          /\ \A q \in Refreshes \ {n} : refresh'[q] = refresh[q]
    BY <1>3, InfoComes
  <2> QED
    BY <2>1 DEF Signals
<1>4. ASSUME NEW kind \in ListKinds, NEW type, ListCallback(kind, type)
      PROVE  Signals(r)' \/ (done' /\ woken')
  <2>1. PICK n \in Refreshes, v \in 1..Len(server), state \in RefreshState :
          /\ refresh[n] # None /\ state.signal = refresh[n].signal
          /\ \A q \in Refreshes \ {n} : refresh'[q] = refresh[q]
          /\ \/ refresh'[n] # None /\ refresh'[n].signal = state.signal
             \/ done' = (done \/ state.signal) /\ woken' = (woken \/ state.signal)
    BY <1>4, ListComes
  <2> QED
    BY <2>1 DEF Signals
<1>5. CASE Next
  <2>1. CASE Constructor \/ Worker \/ SpuriousWakeup
    BY <2>1, <1>1 DEF Constructor, InitWaits, InitSubscribes, Worker, WorkerWakes, SpuriousWakeup,
       SendCommand, WaitReturns
  <2>2. CASE HandleRefresh
    BY <2>2, <1>2 DEF HandleRefresh
  <2>3. CASE \E c \in Command : LookupDevice(c)
    BY <2>3, <1>1 DEF LookupDevice
  <2>4. CASE Mainloop
    BY <2>4, <1>1, <1>2, <1>3, <1>4 DEF Mainloop, SubscribeCallback, SinkInfoCallback,
       SourceInfoCallback, ListKinds, SuccessCallback
  <2>5. CASE Server \/ ServerAccepts \/ ServerChanges \/ Gone
    BY <2>5, <1>1 DEF Server, ServerNotifies, ServerAnswers, ServerAccepts, ServerChanges, Gone, vars
  <2> QED
    BY <1>5, <2>1, <2>2, <2>3, <2>4, <2>5 DEF Next, Ends
<1> QED
  BY <1>1, <1>5 DEF vars

\* mainloop_wait_() takes the signal; all others leave it where it is or give it.
LEMMA WokenStays ==
  ASSUME TypeOK, LinkInv, [Next]_vars, ~Ends, woken, ~InitWaits, ~HandleRefresh, ~SendCommand, ~WaitReturns
  PROVE  woken'
<1>1. ASSUME NEW kind \in ListKinds, NEW type, ListCallback(kind, type) PROVE woken'
  BY <1>1, ListComes
<1> QED
  BY <1>1 DEF Ends, Next, Constructor, Worker, WorkerWakes, SpuriousWakeup, Mainloop, Server, Gone, vars,
     waitVars, InitSubscribes, LookupDevice, SubscribeCallback, ServerInfoCallback, SinkInfoCallback,
     SourceInfoCallback, ListKinds, SuccessCallback, ServerNotifies, ServerAnswers, ServerChanges, ServerAccepts

\* Only the handler takes its flag from its stack.
LEMMA DoneStays ==
  ASSUME TypeOK, LinkInv, [Next]_vars, done, ~HandleRefresh, ~WaitReturns
  PROVE  done'
<1>1. ASSUME NEW kind \in ListKinds, NEW type, ListCallback(kind, type) PROVE done'
  BY <1>1, ListComes
<1> QED
  BY <1>1 DEF Next, Constructor, Worker, WorkerWakes, SpuriousWakeup, Mainloop, Server, Gone, vars,
     waitVars, InitWaits, InitSubscribes, SendCommand, Destroy, LookupDevice, SubscribeCallback,
     ServerInfoCallback, SinkInfoCallback, SourceInfoCallback, ListKinds, SuccessCallback, ServerNotifies,
     ServerAnswers, ServerChanges, ServerAccepts, ServerDies

LEMMA AwakeStep ==
  ASSUME IInv, Subscribing, AwakeInv, [Next]_vars
  PROVE  AwakeInv'
<1>1. TypeOK /\ LinkInv /\ HandlerInv /\ CommandInv
  BY DEF IInv
<1>2. CASE Ends
  <2>1. context' \notin {"connecting", "ready"} /\ UNCHANGED <<worker, done>>
    BY <1>2 DEF Ends, ServerDies, Destroy, ContextEnds, handlerVars
  <2>2. CASE ServerDies
    <3>1. /\ op' # "running" /\ UNCHANGED life
          /\ woken' = (life = "connect" \/ worker \in {"operation", "refresh"})
      BY <2>2 DEF ServerDies, ContextEnds, SomebodyWaits
    <3> QED
      BY <2>1, <3>1 DEF AwakeInv
  <2>3. CASE Destroy
    <3>1. worker = "idle" /\ life' = "destroyed"
      BY <2>3 DEF Destroy
    <3> QED
      BY <2>1, <3>1 DEF AwakeInv
  <2> QED
    BY <1>2, <2>2, <2>3 DEF Ends
<1>3. CASE InitWaits
  <2>1. worker = "idle" /\ UNCHANGED worker /\ life' # "connect"
    BY <1>3 DEF InitWaits, Subscribing, handlerVars
  <2> QED
    BY <2>1 DEF AwakeInv
<1>4. CASE HandleRefresh
  <2>1. life' = "running" /\ worker' = "refresh" /\ ~done' /\ RefreshDevices(TRUE) /\ UNCHANGED context
    BY <1>4 DEF HandleRefresh, NextRequest
  <2>2. ASSUME context = "ready" PROVE \E r \in Refreshes : Signals(r)'
    <3>1. PICK r \in Refreshes :
            /\ refresh'[r] # None
            /\ refresh'[r] = [pending |-> 2, info |-> 0, sinks |-> 0, sources |-> 0, failed |-> {}, signal |-> TRUE]
      BY <1>1, <2>1, <2>2, BeginsOne
    <3> QED
      BY <3>1 DEF Signals
  <2> QED
    BY <2>1, <2>2 DEF AwakeInv
<1>5. CASE SendCommand
  <2>1. life # "connect" /\ UNCHANGED <<life, replies>>
    BY <1>5 DEF SendCommand, Subscribing
  <2>2. CASE context = "ready"
    <3> DEFINE m == Request("set", command)
    <3>1. m.kind = "set" /\ requests' = Append(requests, m) /\ worker' = "operation" /\ op' = "running"
      BY <1>5, <2>2 DEF SendCommand, Request, Msg
    <3> HIDE DEF m
    <3>2. Len(requests) + 1 \in 1..Len(requests') /\ requests'[Len(requests) + 1] = m
      BY <1>1, <3>1 DEF TypeOK
    <3>3. SetIn(requests')
      BY <3>1, <3>2 DEF SetIn
    <3> QED
      BY <2>1, <3>1, <3>3 DEF AwakeInv
  <2>3. CASE context # "ready"
    <3>1. worker' = "idle"
      BY <1>5, <2>3 DEF SendCommand
    <3> QED
      BY <2>1, <3>1 DEF AwakeInv
  <2> QED
    BY <2>2, <2>3
<1>6. CASE WaitReturns
  <2>1. life # "connect" /\ UNCHANGED <<life, requests, replies, refresh, context>>
    BY <1>6 DEF WaitReturns, Subscribing, linkVars
  <2>2. CASE KeepsWaiting
    <3>1. UNCHANGED <<worker, op, done>>
      BY <1>6, <2>2 DEF WaitReturns
    <3>2. (worker = "refresh" => ~done) /\ (worker = "operation" => op = "running")
      BY <2>2 DEF KeepsWaiting
    <3> QED
      BY <2>1, <3>1, <3>2 DEF AwakeInv, Signals
  <2>3. CASE ~KeepsWaiting
    <3>1. worker' = "idle"
      BY <1>6, <2>3 DEF WaitReturns
    <3> QED
      BY <2>1, <3>1 DEF AwakeInv
  <2> QED
    BY <2>2, <2>3
<1>7. CASE ~Ends /\ ~InitWaits /\ ~HandleRefresh /\ ~SendCommand /\ ~WaitReturns
  <2>1. woken => woken'
    BY <1>1, <1>7, WokenStays
  <2>2. worker' = worker \/ worker' = "found"
    BY <1>7 DEF Ends, Next, Constructor, Worker, WorkerWakes, SpuriousWakeup, Mainloop, Server, Gone, vars,
       handlerVars, InitSubscribes, LookupDevice, SubscribeCallback, ServerInfoCallback, SinkInfoCallback,
       SourceInfoCallback, ListCallback, SuccessCallback, ServerNotifies, ServerAnswers, ServerChanges,
       ServerAccepts
  <2>3. (life' = "connect" => life = "connect") /\ (UNCHANGED context \/ (context = "connecting" /\ woken'))
    BY <1>7 DEF Ends, Next, Constructor, Worker, WorkerWakes, SpuriousWakeup, Mainloop, Server, Gone, vars,
       InitSubscribes, LookupDevice, SubscribeCallback, ServerInfoCallback, SinkInfoCallback,
       SourceInfoCallback, ListCallback, SuccessCallback, ServerNotifies, ServerAnswers, ServerChanges,
       ServerAccepts
  <2>4. UNCHANGED op \/ (SuccessCallback /\ op' = "done" /\ woken')
    BY <1>7 DEF Ends, Next, Constructor, Worker, WorkerWakes, SpuriousWakeup, Mainloop, Server, Gone, vars,
       waitVars, InitSubscribes, LookupDevice, SubscribeCallback, ServerInfoCallback, SinkInfoCallback,
       SourceInfoCallback, ListCallback, SuccessCallback, ServerNotifies, ServerAnswers, ServerChanges,
       ServerAccepts
  <2>5. ~SuccessCallback => (SetIn(requests) \/ SetIn(replies) => SetIn(requests') \/ SetIn(replies'))
    BY <1>1, <1>7, SetsStay
  <2>6. SuccessCallback => op' = "done" /\ woken'
    BY DEF SuccessCallback
  <2>7. worker' = "operation" => IF op' = "running" THEN SetIn(requests') \/ SetIn(replies') ELSE woken'
    BY <2>1, <2>2, <2>4, <2>5, <2>6 DEF AwakeInv
  <2>8. life' = "connect" => context' = "connecting" \/ woken'
    BY <2>1, <2>3 DEF AwakeInv
  <2>9. ASSUME worker' = "refresh" 
        PROVE  IF done' THEN woken' ELSE context' = "ready" => \E r \in Refreshes : Signals(r)'
    <3>1. worker = "refresh" /\ UNCHANGED context
      BY <2>2, <2>3, <2>9 DEF Subscribing
    <3>2. done' => done \/ \E r \in Refreshes : Signals(r) /\ refresh'[r] = None
      BY <1>1, <1>7, SignalsStep
    <3>3. \A r \in Refreshes : Signals(r) => Signals(r)' \/ (done' /\ woken')
      BY <1>1, <1>7, SignalsStay
    <3>4. done' => woken'
      <4>1. CASE done
        BY <2>1, <3>1, <4>1 DEF AwakeInv
      <4>2. CASE ~done
        BY <3>2, <3>3, <4>2 DEF Signals
      <4> QED
        BY <4>1, <4>2
    <3>5. ASSUME ~done', context' = "ready" PROVE \E r \in Refreshes : Signals(r)'
      <4>1. ~done
        BY <1>1, <1>7, <3>5, DoneStays
      <4> QED
        BY <3>1, <3>3, <3>5, <4>1 DEF AwakeInv
    <3> QED
      BY <3>4, <3>5
  <2> QED
    BY <2>7, <2>8, <2>9 DEF AwakeInv
<1> QED
  BY <1>2, <1>3, <1>4, <1>5, <1>6, <1>7

\* The safety core of HandlersReturn: a handler or a constructor that waits has been
\* signalled, or the message whose callback will signal it is in the connection
\* (pulseaudio_backend.hpp:46-60, 85-88, 203-206, 344-349).
THEOREM SomethingWakesWhoWaits == Spec => []NobodyWaitsInVain
<1>1. Init => AwakeInv
  BY DEF Init, AwakeInv
<1>2. IInv /\ SettleInv /\ AwakeInv /\ [Next]_vars => AwakeInv'
  BY AwakeStep DEF SettleInv
<1>3. IInv /\ AwakeInv => NobodyWaitsInVain
  <2> SUFFICES ASSUME IInv, AwakeInv PROVE NobodyWaitsInVain
    OBVIOUS
  <2>1. ASSUME NEW r \in Refreshes, Signals(r) PROVE \E kind \in Parts : Out(kind, r)
    BY <2>1 DEF Signals, IInv, LinkInv, WaitsForWhatComes, InfoPhase, ListPhase, Parts
  <2> QED
    BY <2>1 DEF AwakeInv, NobodyWaitsInVain
<1> QED
  BY <1>1, <1>2, <1>3, Invariant, Settles, PTL DEF Spec

================================================================================

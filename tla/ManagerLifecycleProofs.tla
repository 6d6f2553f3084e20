------------------------- MODULE ManagerLifecycleProofs -------------------------
(***************************************************************************)
(* What TLAPS proves of an AudioDeviceManager, for any number of backends  *)
(* and calls: first of refresh_async() alone (the types, that the          *)
(* acknowledgements are not confused, that a call which starts a refresh   *)
(* gets fresh reports, that callbacks run once), then of its destruction:  *)
(* a manager that is destroyed on the way does nothing that Refresh does   *)
(* not, so that the same holds of it, nobody's answer is forgotten, and a  *)
(* program that has waited for its calls is safe.                          *)
(***************************************************************************)
EXTENDS ManagerLifecycle, Integers, TLAPS

--------------------------------------------------------------------------------
(* Lists of calls *)

\* The elements of a non-empty list are its head and the elements of its tail.
LEMMA ElementsOfTail ==
  ASSUME NEW S, NEW s \in Seq(S), s # <<>>
  PROVE  /\ Head(s) \in S /\ Tail(s) \in Seq(S)
         /\ ToSet(s) = {Head(s)} \cup ToSet(Tail(s))
<1>1. /\ 1 \in DOMAIN s /\ s[1] = Head(s)
      /\ \A i \in DOMAIN Tail(s) : i + 1 \in DOMAIN s /\ Tail(s)[i] = s[i + 1]
  OBVIOUS
<1>2. ASSUME NEW i \in DOMAIN s, i # 1
      PROVE  i - 1 \in DOMAIN Tail(s) /\ Tail(s)[i - 1] = s[i]
  <2>1. i \in 1..Len(s) /\ Len(s) \in Nat OBVIOUS
  <2>2. i - 1 \in 1..(Len(s) - 1) BY <2>1, <1>2
  <2>3. DOMAIN Tail(s) = 1..(Len(s) - 1) OBVIOUS
  <2>4. Tail(s)[i - 1] = s[(i - 1) + 1] BY <2>2
  <2> QED BY <2>1, <2>2, <2>3, <2>4
<1>3. ASSUME NEW x \in ToSet(s) PROVE x = Head(s) \/ x \in ToSet(Tail(s))
  <2>1. PICK i \in DOMAIN s : s[i] = x BY DEF ToSet
  <2>2. CASE i = 1 BY <1>1, <2>1, <2>2
  <2>3. CASE i # 1
    <3>1. i - 1 \in DOMAIN Tail(s) /\ Tail(s)[i - 1] = x BY <1>2, <2>1, <2>3
    <3> QED BY <3>1 DEF ToSet
  <2> QED BY <2>2, <2>3
<1>4. ASSUME NEW x \in ToSet(Tail(s)) PROVE x \in ToSet(s)
  <2>1. PICK i \in DOMAIN Tail(s) : Tail(s)[i] = x BY DEF ToSet
  <2>2. i + 1 \in DOMAIN s /\ s[i + 1] = x BY <1>1, <2>1
  <2> QED BY <2>2 DEF ToSet
<1>5. Head(s) \in ToSet(s) BY <1>1 DEF ToSet
<1>6. Head(s) \in S /\ Tail(s) \in Seq(S) OBVIOUS
<1> QED BY <1>3, <1>4, <1>5, <1>6

\* Appending adds one element at the end, and leaves the first one in its place.
LEMMA ElementsOfAppend ==
  ASSUME NEW S, NEW s \in Seq(S), NEW e \in S
  PROVE  /\ Append(s, e) \in Seq(S)
         /\ ToSet(Append(s, e)) = ToSet(s) \cup {e}
         /\ Append(s, e) # <<>>
         /\ s # <<>> => Append(s, e)[1] = s[1]
<1>1. /\ Len(s) + 1 \in DOMAIN Append(s, e) /\ Append(s, e)[Len(s) + 1] = e
      /\ \A i \in DOMAIN s : i \in DOMAIN Append(s, e) /\ Append(s, e)[i] = s[i]
      /\ \A i \in DOMAIN Append(s, e) : i = Len(s) + 1 \/ i \in DOMAIN s
  OBVIOUS
<1>2. ToSet(Append(s, e)) = ToSet(s) \cup {e}
  BY <1>1 DEF ToSet
<1>3. Append(s, e) \in Seq(S)
  OBVIOUS
<1>5. Append(s, e) # <<>>
  <2>1. DOMAIN Append(s, e) # {} BY <1>1
  <2> QED BY <2>1
<1>4. s # <<>> => Append(s, e)[1] = s[1]
  OBVIOUS
<1> QED BY <1>2, <1>3, <1>4, <1>5

\* A list of calls holds calls, and its first element if it has one.
LEMMA ElementsOfList ==
  ASSUME NEW S, NEW s \in Seq(S)
  PROVE  /\ ToSet(s) \subseteq S
         /\ s = <<>> => ToSet(s) = {}
         /\ s # <<>> => s[1] \in S /\ s[1] \in ToSet(s)
  BY DEF ToSet

--------------------------------------------------------------------------------
(* Types *)

\* A call resolves only after its callback was entered because complete() has
\* entered every callback it no longer has to run.
TypeInv ==
  /\ TypeOK
  /\ \A b \in Backends : promises[b] \subseteq calledBack \cup ToSet(callbacks[b])
  /\ \A c \in Calls : stage[c] = "exiting" => c \in calledBack
  /\ pending # None => pending.calls # <<>>

\* The parts of TypeInv that a step leaves alone.
LEMMA InvokeTypes ==
  ASSUME TypeInv, NEW c \in Calls, NEW x \in Backends \cup Calls \cup {App}, Invoke(c, x)
  PROVE  TypeInv'
  BY DEF TypeInv, TypeOK, Invoke, workerVars

\* The inductive step, one step of the proof per action.
LEMMA TypeInductive == TypeInv /\ [Next]_vars => TypeInv'
<1> SUFFICES ASSUME TypeInv, [Next]_vars PROVE TypeInv'
  OBVIOUS
<1> USE DEF TypeInv, TypeOK, Pending, callVars, workerVars, history
<1>1. ASSUME NEW c \in Calls, Call(c) PROVE TypeInv'
  BY <1>1, InvokeTypes DEF Call
<1>2. ASSUME NEW c \in Calls, EarlyExit(c) PROVE TypeInv'
  BY <1>2 DEF EarlyExit
<1>3. ASSUME NEW c \in Calls, EarlyExitReturns(c) PROVE TypeInv'
  BY <1>3 DEF EarlyExitReturns, Answered
<1>4. ASSUME NEW c \in Calls, StartRefresh(c) PROVE TypeInv'
  <2>1. pending' \in Pending /\ pending'.calls # <<>>
    BY <1>4 DEF StartRefresh, AllBackends
  <2> QED BY <1>4, <2>1 DEF StartRefresh
<1>5. ASSUME NEW c \in Calls, JoinRefresh(c) PROVE TypeInv'
  <2>1. pending \in Pending BY <1>5 DEF JoinRefresh
  <2>2. pending' \in Pending /\ pending'.calls # <<>>
    BY <1>5, <2>1, ElementsOfAppend DEF JoinRefresh
  <2> QED BY <1>5, <2>2 DEF JoinRefresh, NothingToRequest
<1>6. ASSUME NEW c \in Calls, NEW b \in Backends, RequestRefresh(c, b) PROVE TypeInv'
  <2>1. queue' \in [Backends -> Seq(Calls)]
    BY <1>6, ElementsOfAppend DEF RequestRefresh
  <2> QED BY <1>6, <2>1 DEF RequestRefresh
<1>7. ASSUME NEW c \in Calls, NEW d \in Calls, EarlyExitCallbackCalls(c, d) PROVE TypeInv'
  BY <1>7, InvokeTypes DEF EarlyExitCallbackCalls
<1>8. ASSUME NEW b \in Backends, NEW c \in Calls, CallbackCalls(b, c) PROVE TypeInv'
  BY <1>8, InvokeTypes DEF CallbackCalls
<1>9. ASSUME NEW b \in Backends, WorkerThread(b) PROVE TypeInv'
  <2>1. CASE TakeRequest(b)
    <3>1. Head(queue[b]) \in Calls /\ Tail(queue[b]) \in Seq(Calls)
      BY <2>1, ElementsOfTail DEF TakeRequest
    <3> QED BY <2>1, <3>1 DEF TakeRequest
  <2>2. CASE HandleRefresh(b) BY <2>2 DEF HandleRefresh
  <2>3. CASE Acknowledge(b)
    <3>1. pending' \in Pending \cup {None} /\ (pending' # None => pending'.calls # <<>>)
      BY <2>3 DEF Acknowledge, StillPending
    <3> QED BY <2>3, <3>1 DEF Acknowledge
  <2>4. CASE AcknowledgeLast(b)
    <3>1. pending.calls \in Seq(Calls) BY <2>4 DEF AcknowledgeLast
    <3>2. ToSet(pending.calls) \subseteq Calls BY <3>1, ElementsOfList
    <3> QED BY <2>4, <3>1, <3>2 DEF AcknowledgeLast, SlotCleared
  <2>5. CASE CallBack(b)
    <3>1. /\ Head(callbacks[b]) \in Calls /\ Tail(callbacks[b]) \in Seq(Calls)
          /\ ToSet(callbacks[b]) = {Head(callbacks[b])} \cup ToSet(Tail(callbacks[b]))
      BY <2>5, ElementsOfTail DEF CallBack
    <3> QED BY <2>5, <3>1 DEF CallBack
  <2>6. CASE CallbackReturns(b) BY <2>6 DEF CallbackReturns
  <2>7. CASE ResolvePromises(b)
    <3>1. promises[b] \subseteq calledBack
      BY <2>7, ElementsOfList DEF ResolvePromises, CallbacksDone
    <3> QED BY <2>7, <3>1 DEF ResolvePromises
  <2> QED BY <1>9, <2>1, <2>2, <2>3, <2>4, <2>5, <2>6, <2>7 DEF WorkerThread
<1>10. ASSUME NEW b \in Backends, RegisterBackend(b) PROVE TypeInv'
  BY <1>10 DEF RegisterBackend
<1>11. CASE AllAnswered \/ UNCHANGED vars BY <1>11 DEF AllAnswered, vars
<1> QED BY <1>1, <1>2, <1>3, <1>4, <1>5, <1>6, <1>7, <1>8, <1>9, <1>10, <1>11
        DEF Next, CallingThread

\* Each step of refresh_async(), of the workers and of the callbacks keeps the
\* types, and answers only calls whose callback has been run
\* (audio_device_manager.hpp:159-227).
THEOREM TypeCorrect == Spec => []TypeInv
<1>1. Init => TypeInv
  BY ElementsOfList DEF Init, TypeInv, TypeOK
<1> QED BY <1>1, TypeInductive, PTL DEF Spec

\* TypeOK, the type invariant the runs check, for every value of the constants.
THEOREM TypeSafe == Spec => []TypeOK
<1>1. TypeInv => TypeOK BY DEF TypeInv
<1> QED BY <1>1, TypeCorrect, PTL

--------------------------------------------------------------------------------
(* Acknowledgements *)

\* The call that started the pending refresh.
Starter == pending.calls[1]

\* Neither the loop of refresh_async(), the queue nor the worker of b holds a
\* request that is going to be acknowledged.
Silent(b) == queue[b] = <<>> /\ wpc[b] \notin {"handle", "ack"}

\* Exactly one of the three holds one, and it is the request of call c.
AckDue(b, c) ==
  \/ b \in todo[c] /\ Silent(b)
  \/ b \notin todo[c] /\ queue[b] = <<c>> /\ wpc[b] \notin {"handle", "ack"}
  \/ b \notin todo[c] /\ queue[b] = <<>> /\ wpc[b] \in {"handle", "ack"} /\ job[b] = c

\* Only the starter of the pending refresh sends requests.
OnlyStarterRequests ==
  \A c \in Calls : todo[c] # {} => pending # None /\ c = Starter

\* The inductive invariant: the pending refresh waits for the backends that owe
\* it one acknowledgement, and no other acknowledgement is under way.
AckInv ==
  /\ OnlyStarterRequests
  /\ pending = None => \A b \in Backends : Silent(b)
  /\ pending # None =>
       /\ stage[Starter] \in {"posting", "returned"}
       /\ pending.backends # {}
       /\ \A b \in Backends :
            IF b \in pending.backends
            THEN AckDue(b, Starter)
            ELSE Silent(b) /\ b \notin todo[Starter]

\* A refresh record is not None.
LEMMA RefreshIsSome ==
  ASSUME NEW bs \in SUBSET Backends, NEW cs \in Seq(Calls)
  PROVE  [backends |-> bs, calls |-> cs] # None
<1>1. [backends |-> bs, calls |-> cs] \in [backends : SUBSET Backends, calls : Seq(Calls)]
  OBVIOUS
<1> QED BY <1>1, DistinctAssumption

\* A step that leaves the pending refresh and the requests where they are.
LEMMA AckUnchanged ==
  ASSUME TypeInv, AckInv,
         UNCHANGED <<pending, todo, queue, job>>,
         \A c \in Calls : stage[c] \in {"posting", "returned"} => stage'[c] = stage[c],
         \A b \in Backends : wpc'[b] \in {"handle", "ack"} <=> wpc[b] \in {"handle", "ack"}
  PROVE  AckInv'
<1>1. pending # None => Starter \in Calls
  BY ElementsOfList DEF Starter, TypeInv, TypeOK, Pending
<1> QED BY <1>1 DEF AckInv, OnlyStarterRequests, Silent, AckDue, Starter

\* A call that is made is neither posting nor has it returned.
LEMMA InvokeKeepsAcks ==
  ASSUME TypeInv, AckInv, NEW c \in Calls, NEW x, Invoke(c, x)
  PROVE  AckInv'
  BY AckUnchanged DEF Invoke, workerVars, TypeInv, TypeOK

\* The inductive step, one step of the proof per action.
LEMMA AckInductive == TypeInv /\ AckInv /\ [Next]_vars => AckInv'
<1> SUFFICES ASSUME TypeInv, AckInv, [Next]_vars PROVE AckInv'
  OBVIOUS
<1> USE DEF callVars, workerVars, history
<1>0. pending # None => /\ Starter \in Calls
                        /\ pending.calls \in Seq(Calls) /\ pending.calls # <<>>
                        /\ pending.backends \subseteq Backends
  BY ElementsOfList DEF Starter, TypeInv, TypeOK, Pending
<1>1. ASSUME NEW c \in Calls, Call(c) PROVE AckInv'
  BY <1>1, InvokeKeepsAcks DEF Call
<1>2. ASSUME NEW c \in Calls, EarlyExit(c) \/ EarlyExitReturns(c) PROVE AckInv'
  BY <1>2, AckUnchanged DEF EarlyExit, EarlyExitReturns, TypeInv, TypeOK
<1>3. ASSUME NEW c \in Calls, StartRefresh(c) PROVE AckInv'
  <2>1. pending' = [backends |-> backends_, calls |-> <<c>>] /\ Starter' = c
    BY <1>3 DEF StartRefresh, AllBackends, Starter
  <2>5. pending' # None
    BY <2>1, RefreshIsSome, <<c>> \in Seq(Calls) DEF TypeInv, TypeOK
  <2>2. stage'[c] = "posting" /\ todo'[c] = backends_ /\ backends_ # {}
    BY <1>3 DEF StartRefresh, TypeInv, TypeOK
  <2>3. \A d \in Calls : d # c => todo'[d] = {}
    BY <1>3 DEF StartRefresh, TypeInv, TypeOK, AckInv, OnlyStarterRequests
  <2>4. \A b \in Backends : Silent(b)'
    BY <1>3 DEF StartRefresh, AckInv, Silent
  <2> QED BY <2>1, <2>2, <2>3, <2>4, <2>5 DEF AckInv, OnlyStarterRequests, AckDue
<1>4. ASSUME NEW c \in Calls, JoinRefresh(c) PROVE AckInv'
  <2>1. pending # None /\ pending' # None
    BY <1>4, <1>0, ElementsOfAppend, RefreshIsSome DEF JoinRefresh
  <2>2. Starter' = Starter /\ pending'.backends = pending.backends
    BY <1>4, <1>0, <2>1, ElementsOfAppend DEF JoinRefresh, Starter
  <2>3. c # Starter
    BY <1>4, <2>1 DEF JoinRefresh, AckInv
  <2>4. todo' = todo
    BY <1>4, <2>3 DEF JoinRefresh, NothingToRequest, TypeInv, TypeOK, AckInv, OnlyStarterRequests
  <2>5. stage'[Starter] = stage[Starter]
    BY <1>4, <1>0, <2>1, <2>3 DEF JoinRefresh, TypeInv, TypeOK
  <2>6. UNCHANGED <<queue, wpc, job>>
    BY <1>4 DEF JoinRefresh
  <2> QED BY <2>1, <2>2, <2>4, <2>5, <2>6 DEF AckInv, OnlyStarterRequests, AckDue, Silent
<1>5. ASSUME NEW c \in Calls, NEW b \in Backends, RequestRefresh(c, b) PROVE AckInv'
  <2>1. pending # None /\ c = Starter /\ b \in pending.backends
    BY <1>5 DEF RequestRefresh, AckInv, OnlyStarterRequests
  <2>2. Silent(b)
    BY <1>5, <2>1 DEF RequestRefresh, AckInv, AckDue, Silent
  <2>3. UNCHANGED <<pending, wpc, job, Starter>>
    BY <1>5 DEF RequestRefresh, Starter
  <2>4. queue'[b] = <<c>> /\ \A a \in Backends : a # b => queue'[a] = queue[a]
    BY <1>5, <2>2 DEF RequestRefresh, TypeInv, TypeOK, Silent
  <2>5. todo'[c] = todo[c] \ {b} /\ \A d \in Calls : d # c => todo'[d] = todo[d]
    BY <1>5 DEF RequestRefresh, TypeInv, TypeOK
  <2>6. stage'[c] \in {"posting", "returned"}
    BY <1>5 DEF RequestRefresh, TypeInv, TypeOK
  <2>7. AckDue(b, c)'
    BY <2>2, <2>3, <2>4, <2>5 DEF AckDue, Silent
  <2>8. \A a \in Backends : a # b => /\ AckDue(a, c) => AckDue(a, c)'
                                     /\ Silent(a) => Silent(a)'
    BY <2>3, <2>4, <2>5 DEF AckDue, Silent
  <2> QED BY <2>1, <2>3, <2>5, <2>6, <2>7, <2>8 DEF AckInv, OnlyStarterRequests
<1>6. ASSUME NEW c \in Calls, NEW d \in Calls, EarlyExitCallbackCalls(c, d) PROVE AckInv'
  BY <1>6, InvokeKeepsAcks DEF EarlyExitCallbackCalls
<1>7. ASSUME NEW b \in Backends, NEW c \in Calls, CallbackCalls(b, c) PROVE AckInv'
  BY <1>7, InvokeKeepsAcks DEF CallbackCalls
<1>8. ASSUME NEW b \in Backends, WorkerThread(b) PROVE AckInv'
  <2>1. CASE TakeRequest(b)
    <3>1. pending # None /\ b \in pending.backends /\ queue[b] = <<Starter>> /\ b \notin todo[Starter]
      BY <2>1 DEF TakeRequest, AckInv, AckDue, Silent
    <3>2. job'[b] = Starter /\ queue'[b] = <<>> /\ wpc'[b] = "handle"
      BY <2>1, <3>1 DEF TakeRequest, TypeInv, TypeOK
    <3>3. \A a \in Backends : a # b => /\ job'[a] = job[a] /\ queue'[a] = queue[a]
                                       /\ wpc'[a] = wpc[a]
      BY <2>1 DEF TakeRequest, TypeInv, TypeOK
    <3>4. UNCHANGED <<pending, todo, stage, Starter>>
      BY <2>1 DEF TakeRequest, Starter
    <3> QED BY <3>1, <3>2, <3>3, <3>4 DEF AckInv, OnlyStarterRequests, AckDue, Silent
  <2>2. CASE HandleRefresh(b)
    BY <2>2, AckUnchanged DEF HandleRefresh, TypeInv, TypeOK
  <2>3. CASE Acknowledge(b)
    <3>1. pending # None /\ b \in pending.backends /\ b \notin todo[Starter] /\ queue[b] = <<>>
      BY <2>3 DEF Acknowledge, AckInv, AckDue, Silent
    <3>2. /\ pending' = [backends |-> pending.backends \ {b}, calls |-> pending.calls]
          /\ pending'.backends # {} /\ pending' # None
          /\ Starter' = Starter
      BY <2>3, <3>1, <1>0, RefreshIsSome DEF Acknowledge, StillPending, Starter
    <3>3. Silent(b)'
      BY <2>3, <3>1 DEF Acknowledge, Silent, TypeInv, TypeOK
    <3>4. \A a \in Backends : a # b => job'[a] = job[a] /\ wpc'[a] = wpc[a]
      BY <2>3 DEF Acknowledge, TypeInv, TypeOK
    <3>5. UNCHANGED <<todo, stage, queue>>
      BY <2>3 DEF Acknowledge
    <3> QED BY <3>1, <3>2, <3>3, <3>4, <3>5 DEF AckInv, OnlyStarterRequests, AckDue, Silent
  <2>4. CASE AcknowledgeLast(b)
    <3>1. pending.backends = {b} /\ b \notin todo[Starter] /\ queue[b] = <<>>
      BY <2>4 DEF AcknowledgeLast, StillPending, AckInv, AckDue, Silent
    <3>2. \A a \in Backends : a # b => Silent(a) /\ a \notin todo[Starter]
      BY <2>4, <3>1 DEF AcknowledgeLast, AckInv
    <3>3. \A c \in Calls : todo[c] = {}
      BY <2>4, <3>1, <3>2 DEF AckInv, OnlyStarterRequests, TypeInv, TypeOK
    <3>4. pending' = None /\ UNCHANGED <<todo, queue>>
      BY <2>4 DEF AcknowledgeLast, SlotCleared
    <3>5. wpc'[b] = "complete" /\ \A a \in Backends : a # b => wpc'[a] = wpc[a]
      BY <2>4 DEF AcknowledgeLast, TypeInv, TypeOK
    <3> QED BY <3>1, <3>2, <3>3, <3>4, <3>5 DEF AckInv, OnlyStarterRequests, Silent
  <2>5. CASE CallBack(b) \/ CallbackReturns(b) \/ ResolvePromises(b)
    BY <2>5, AckUnchanged DEF CallBack, CallbackReturns, ResolvePromises, TypeInv, TypeOK
  <2> QED BY <1>8, <2>1, <2>2, <2>3, <2>4, <2>5 DEF WorkerThread
<1>9. ASSUME NEW b \in Backends, RegisterBackend(b) PROVE AckInv'
  BY <1>9, AckUnchanged DEF RegisterBackend
<1>10. CASE AllAnswered \/ UNCHANGED vars
  BY <1>10, AckUnchanged DEF AllAnswered, vars
<1> QED BY <1>1, <1>2, <1>3, <1>4, <1>5, <1>6, <1>7, <1>8, <1>9, <1>10 DEF Next, CallingThread

LEMMA AckInvariant == Spec => []AckInv
<1>1. Init => AckInv
  BY DEF Init, AckInv, OnlyStarterRequests, Silent
<1> QED BY <1>1, AckInductive, TypeCorrect, PTL DEF Spec

\* Every acknowledgement counts for the refresh that asked for it, though it
\* names only the backend's type (audio_device_manager.hpp:189-193, 217-225).
THEOREM AcksAreNeverConfused == Spec => []AcksAreNotConfused
<1>1. AckInv => AcksAreNotConfused
  BY DEF AckInv, AcksAreNotConfused, AckDue, Silent, Starter
<1> QED BY <1>1, AckInvariant, PTL

--------------------------------------------------------------------------------
(* Freshness *)

\* A call that has not got hold of the mutex is in nobody's list.
NotGathered ==
  \A c \in Calls : stage[c] \in {"unmade", "locking"} =>
    /\ c \notin starters \cup resolved
    /\ pending # None => c \notin ToSet(pending.calls)
    /\ \A b \in Backends : c \notin promises[b]

\* The strengthening of StarterIsFresh: a backend that has not been read since
\* the pending refresh began has not acknowledged it, and is not about to.
FreshInv ==
  /\ NotGathered
  /\ pending # None =>
       /\ Starter \notin resolved
       /\ \A b \in Backends : Starter \notin promises[b]
       /\ \A b \in unread[Starter] : b \in pending.backends /\ wpc[b] # "ack"
  /\ \A c \in starters : unread[c] = {} \/ (pending # None /\ c = Starter)

\* The inductive step of the freshness, on top of the acknowledgements.
LEMMA FreshInductive ==
  TypeInv /\ AckInv /\ FreshInv /\ [Next]_vars => FreshInv'
<1> SUFFICES ASSUME TypeInv, AckInv, FreshInv, [Next]_vars PROVE FreshInv'
  OBVIOUS
<1> USE DEF callVars, workerVars, history
<1>0. pending # None => /\ Starter \in Calls /\ Starter \in ToSet(pending.calls)
                        /\ stage[Starter] \in {"posting", "returned"}
                        /\ pending.calls \in Seq(Calls) /\ pending.calls # <<>>
                        /\ pending.backends \subseteq Backends
  BY ElementsOfList DEF Starter, TypeInv, TypeOK, Pending, AckInv
<1>a. ASSUME NEW c \in Calls, NEW x, Invoke(c, x) PROVE FreshInv'
  <2>1. UNCHANGED <<pending, Starter, wpc, promises, resolved, starters>>
    BY <1>a DEF Invoke, Starter
  <2>2. /\ stage[c] = "unmade"
        /\ \A d \in Calls : d # c => stage'[d] = stage[d] /\ unread'[d] = unread[d]
    BY <1>a DEF Invoke, TypeInv, TypeOK
  <2>3. NotGathered'
    BY <2>1, <2>2 DEF FreshInv, NotGathered
  <2>4. c \notin starters /\ (pending # None => Starter # c)
    BY <2>2, <1>0 DEF FreshInv, NotGathered
  <2>5. \A d \in starters : unread'[d] = unread[d]
    BY <2>2, <2>4 DEF TypeInv, TypeOK
  <2>6. pending # None => unread'[Starter] = unread[Starter]
    BY <2>2, <2>4, <1>0
  <2>7. pending' # None => /\ Starter' \notin resolved'
                           /\ \A b \in Backends : Starter' \notin promises'[b]
                           /\ \A b \in unread'[Starter'] : b \in pending'.backends /\ wpc'[b] # "ack"
    BY <2>1, <2>6 DEF FreshInv
  <2>8. \A d \in starters' : unread'[d] = {} \/ (pending' # None /\ d = Starter')
    BY <2>1, <2>5 DEF FreshInv
  <2> QED BY <2>3, <2>7, <2>8 DEF FreshInv
<1>1. ASSUME NEW c \in Calls, Call(c) PROVE FreshInv'
  BY <1>1, <1>a DEF Call
<1>2. ASSUME NEW c \in Calls, EarlyExit(c) \/ EarlyExitReturns(c) PROVE FreshInv'
  <2>1. UNCHANGED <<pending, Starter, wpc, promises, starters, unread>>
    BY <1>2 DEF EarlyExit, EarlyExitReturns, Starter
  <2>2. /\ stage[c] \in {"locking", "exiting"} /\ stage'[c] \in {"exiting", "returned"}
        /\ \A d \in Calls : d # c => stage'[d] = stage[d]
        /\ resolved' \subseteq resolved \cup {c}
    BY <1>2 DEF EarlyExit, EarlyExitReturns, Answered, TypeInv, TypeOK
  <2>3. NotGathered'
    BY <2>1, <2>2 DEF FreshInv, NotGathered
  <2>4. pending # None => Starter # c
    BY <2>2, <1>0
  <2> QED BY <2>1, <2>2, <2>3, <2>4 DEF FreshInv
<1>3. ASSUME NEW c \in Calls, StartRefresh(c) PROVE FreshInv'
  <2>1. pending' = [backends |-> backends_, calls |-> <<c>>] /\ Starter' = c
    BY <1>3 DEF StartRefresh, AllBackends, Starter
  <2>2. ToSet(pending'.calls) = {c}
    BY <2>1 DEF ToSet
  <2>3. /\ stage[c] = "locking" /\ stage'[c] = "posting" /\ pending = None
        /\ \A d \in Calls : d # c => stage'[d] = stage[d]
        /\ starters' = starters \cup {c}
        /\ UNCHANGED <<wpc, promises, resolved, unread>>
    BY <1>3 DEF StartRefresh, TypeInv, TypeOK
  <2>4. c \notin resolved /\ \A b \in Backends : c \notin promises[b]
    BY <2>3 DEF FreshInv, NotGathered
  <2>5. \A b \in unread[c] : b \in backends_ /\ wpc[b] # "ack"
    BY <2>3 DEF TypeInv, TypeOK, AckInv, Silent
  <2>6. pending' # None
    BY <2>1, RefreshIsSome, <<c>> \in Seq(Calls) DEF TypeInv, TypeOK
  <2>7. NotGathered'
    BY <2>2, <2>3 DEF FreshInv, NotGathered
  <2> QED BY <2>1, <2>3, <2>4, <2>5, <2>6, <2>7 DEF FreshInv
<1>4. ASSUME NEW c \in Calls, JoinRefresh(c) PROVE FreshInv'
  <2>1. /\ pending # None
        /\ pending' = [backends |-> pending.backends, calls |-> Append(pending.calls, c)]
        /\ UNCHANGED <<wpc, promises, resolved, starters, unread>>
    BY <1>4 DEF JoinRefresh
  <2>2. Starter' = Starter /\ ToSet(pending'.calls) = ToSet(pending.calls) \cup {c}
    BY <2>1, <1>0, ElementsOfAppend DEF Starter
  <2>3. /\ stage[c] = "locking" /\ stage'[c] = "returned"
        /\ \A d \in Calls : d # c => stage'[d] = stage[d]
    BY <1>4 DEF JoinRefresh, NothingToRequest, TypeInv, TypeOK
  <2>4. pending' # None
    BY <2>1, <1>0, ElementsOfAppend, RefreshIsSome
  <2>5. NotGathered'
    BY <2>1, <2>2, <2>3 DEF FreshInv, NotGathered
  <2> QED BY <2>1, <2>2, <2>4, <2>5 DEF FreshInv
<1>5. ASSUME NEW c \in Calls, NEW b \in Backends, RequestRefresh(c, b) PROVE FreshInv'
  <2>1. UNCHANGED <<pending, Starter, wpc, promises, resolved, starters, unread>>
    BY <1>5 DEF RequestRefresh, Starter
  <2>2. /\ stage'[c] \in {"posting", "returned"}
        /\ \A d \in Calls : d # c => stage'[d] = stage[d]
    BY <1>5 DEF RequestRefresh, TypeInv, TypeOK
  <2>3. NotGathered'
    BY <2>1, <2>2 DEF FreshInv, NotGathered
  <2> QED BY <2>1, <2>3 DEF FreshInv
<1>6. ASSUME NEW c \in Calls, NEW d \in Calls, EarlyExitCallbackCalls(c, d) PROVE FreshInv'
  BY <1>6, <1>a DEF EarlyExitCallbackCalls
<1>7. ASSUME NEW b \in Backends, NEW c \in Calls, CallbackCalls(b, c) PROVE FreshInv'
  BY <1>7, <1>a DEF CallbackCalls
<1>8. ASSUME NEW b \in Backends, WorkerThread(b) PROVE FreshInv'
  <2>1. CASE TakeRequest(b) \/ CallBack(b) \/ CallbackReturns(b)
    <3>1. UNCHANGED <<pending, Starter, stage, promises, resolved, starters, unread>>
      BY <2>1 DEF TakeRequest, CallBack, CallbackReturns, Starter
    <3>2. wpc'[b] # "ack" /\ \A a \in Backends : a # b => wpc'[a] = wpc[a]
      BY <2>1 DEF TakeRequest, CallBack, CallbackReturns, TypeInv, TypeOK
    <3>3. NotGathered'
      BY <3>1 DEF FreshInv, NotGathered
    <3>4. ASSUME pending # None, NEW a \in unread[Starter]
          PROVE  a \in pending.backends /\ wpc'[a] # "ack"
      <4>1. a \in Backends BY <3>4, <1>0 DEF TypeInv, TypeOK
      <4> QED BY <3>2, <3>4, <4>1 DEF FreshInv
    <3>5. pending' # None => /\ Starter' \notin resolved'
                             /\ \A a \in Backends : Starter' \notin promises'[a]
                             /\ \A a \in unread'[Starter'] : a \in pending'.backends /\ wpc'[a] # "ack"
      BY <3>1, <3>4 DEF FreshInv
    <3>6. \A d \in starters' : unread'[d] = {} \/ (pending' # None /\ d = Starter')
      BY <3>1 DEF FreshInv
    <3> QED BY <3>3, <3>5, <3>6 DEF FreshInv
  <2>2. CASE HandleRefresh(b)
    <3>1. UNCHANGED <<pending, Starter, stage, promises, resolved, starters>>
      BY <2>2 DEF HandleRefresh, Starter
    <3>2. \A c \in Calls : unread'[c] = unread[c] \ {b}
      BY <2>2 DEF HandleRefresh
    <3>3. \A a \in Backends : a # b => wpc'[a] = wpc[a]
      BY <2>2 DEF HandleRefresh, TypeInv, TypeOK
    <3> QED BY <3>1, <3>2, <3>3, <1>0 DEF FreshInv, NotGathered, TypeInv, TypeOK
  <2>3. CASE Acknowledge(b)
    <3>1. /\ pending # None
          /\ pending' = [backends |-> pending.backends \ {b}, calls |-> pending.calls]
      BY <2>3 DEF Acknowledge, StillPending, AckInv, Silent
    <3>2. /\ pending' # None /\ Starter' = Starter
          /\ UNCHANGED <<stage, promises, resolved, starters, unread>>
      BY <2>3, <3>1, <1>0, RefreshIsSome DEF Acknowledge, Starter
    <3>3. b \notin unread[Starter]
      BY <2>3, <3>1 DEF Acknowledge, FreshInv
    <3>4. wpc'[b] = "idle" /\ \A a \in Backends : a # b => wpc'[a] = wpc[a]
      BY <2>3 DEF Acknowledge, TypeInv, TypeOK
    <3>5. NotGathered'
      BY <3>1, <3>2 DEF FreshInv, NotGathered
    <3> QED BY <3>1, <3>2, <3>3, <3>4, <3>5, <1>0 DEF FreshInv, TypeInv, TypeOK
  <2>4. CASE AcknowledgeLast(b)
    <3>1. /\ pending # None /\ wpc[b] = "ack" /\ pending.backends \subseteq {b}
          /\ pending' = None
          /\ UNCHANGED <<stage, resolved, starters, unread>>
      BY <2>4 DEF AcknowledgeLast, StillPending, SlotCleared
    <3>2. unread[Starter] = {}
      BY <3>1 DEF FreshInv
    <3>3. /\ promises'[b] = ToSet(pending.calls)
          /\ \A a \in Backends : a # b => promises'[a] = promises[a]
      BY <2>4 DEF AcknowledgeLast, TypeInv, TypeOK
    <3>4. NotGathered'
      BY <3>1, <3>3 DEF FreshInv, NotGathered
    <3> QED BY <3>1, <3>2, <3>4 DEF FreshInv
  <2>5. CASE ResolvePromises(b)
    <3>1. /\ UNCHANGED <<pending, Starter, stage, starters, unread>>
          /\ resolved' = resolved \cup promises[b]
      BY <2>5 DEF ResolvePromises, Starter
    <3>2. \A a \in Backends : promises'[a] \subseteq promises[a]
      BY <2>5 DEF ResolvePromises, TypeInv, TypeOK
    <3>3. \A a \in Backends : wpc'[a] = "ack" => wpc[a] = "ack"
      BY <2>5 DEF ResolvePromises, TypeInv, TypeOK
    <3> QED BY <3>1, <3>2, <3>3, <1>0 DEF FreshInv, NotGathered, TypeInv, TypeOK
  <2> QED BY <1>8, <2>1, <2>2, <2>3, <2>4, <2>5 DEF WorkerThread
<1>9. ASSUME NEW b \in Backends, RegisterBackend(b) PROVE FreshInv'
  BY <1>9 DEF RegisterBackend, FreshInv, NotGathered, Starter
<1>10. CASE AllAnswered \/ UNCHANGED vars
  BY <1>10 DEF AllAnswered, vars, FreshInv, NotGathered, Starter
<1> QED BY <1>1, <1>2, <1>3, <1>4, <1>5, <1>6, <1>7, <1>8, <1>9, <1>10 DEF Next, CallingThread

\* When the future of a call that started a refresh is ready, every backend has
\* read its devices after the call was made (audio_device_manager.hpp:154-158).
THEOREM StartersAreFresh == Spec => []StarterIsFresh
<1>1. Init => FreshInv
  BY DEF Init, FreshInv, NotGathered
<1>2. TypeInv /\ FreshInv => StarterIsFresh
  BY DEF FreshInv, StarterIsFresh
<1> QED BY <1>1, <1>2, FreshInductive, TypeCorrect, AckInvariant, PTL DEF Spec

--------------------------------------------------------------------------------
(* Every call is gathered, called back and answered once *)

NoDuplicates(s) == \A i, j \in DOMAIN s : s[i] = s[j] => i = j

\* Calls of a pending refresh.
Gathered == IF pending = None THEN {} ELSE ToSet(pending.calls)

\* The calls a worker completes: complete() runs.
Completing(b) == wpc[b] \in {"complete", "callback"}

\* A call is gathered by the pending refresh, or by one refresh that is being
\* completed, or resolved, and neither before it has had the mutex.
AnswersInv ==
  /\ \A c \in Calls : stage[c] \in {"unmade", "locking", "exiting"} =>
       c \notin Gathered \cup resolved /\ \A b \in Backends : c \notin promises[b]
  /\ \A c \in Calls : stage[c] = "posting" => todo[c] # {}
  /\ Gathered \cap resolved = {}
  /\ \A b \in Backends :
       /\ promises[b] \cap (Gathered \cup resolved) = {}
       /\ \A a \in Backends : a # b => promises[a] \cap promises[b] = {}
       /\ Completing(b) <=> promises[b] # {}

\* The strengthening of CallbacksRunOnce: the callbacks to run are those of the
\* promises to resolve, each once, and the others have not been entered.
OnceInv ==
  /\ pending # None => NoDuplicates(pending.calls)
  /\ \A b \in Backends : NoDuplicates(callbacks[b]) /\ ToSet(callbacks[b]) \subseteq promises[b]
  /\ \A c \in Calls : stage[c] \in {"unmade", "locking"} => c \notin calledBack
  /\ CallbacksRunOnce

\* The inductive step of the answers.
LEMMA AnswersInductive == TypeInv /\ AckInv /\ AnswersInv /\ [Next]_vars => AnswersInv'
<1> SUFFICES ASSUME TypeInv, AckInv, AnswersInv, [Next]_vars PROVE AnswersInv'
  OBVIOUS
<1> USE DEF callVars, workerVars, history
<1>0. pending # None => pending.calls \in Seq(Calls) /\ pending.calls # <<>> /\ Gathered # {}
  <2>1. ASSUME pending # None PROVE pending.calls \in Seq(Calls) /\ pending.calls # <<>>
    BY <2>1 DEF TypeInv, TypeOK, Pending
  <2> QED BY <2>1, ElementsOfList DEF Gathered
<1>a. ASSUME NEW c \in Calls, NEW x, Invoke(c, x) PROVE AnswersInv'
  BY <1>a DEF Invoke, AnswersInv, Gathered, Completing, TypeInv, TypeOK
<1>1. ASSUME NEW c \in Calls, Call(c) PROVE AnswersInv'
  BY <1>1, <1>a DEF Call
<1>2. ASSUME NEW c \in Calls, EarlyExit(c) \/ EarlyExitReturns(c) PROVE AnswersInv'
  <2>1. UNCHANGED <<pending, Gathered, wpc, promises, todo>>
    BY <1>2 DEF EarlyExit, EarlyExitReturns, Gathered
  <2>2. CASE EarlyExit(c)
    BY <2>1, <2>2 DEF EarlyExit, AnswersInv, Completing, TypeInv, TypeOK
  <2>3. CASE EarlyExitReturns(c)
    <3>1. c \notin Gathered /\ \A b \in Backends : c \notin promises[b]
      BY <2>3 DEF EarlyExitReturns, AnswersInv
    <3>2. /\ stage[c] = "exiting" /\ stage'[c] = "returned" /\ resolved' = resolved \cup {c}
          /\ \A d \in Calls : d # c => stage'[d] = stage[d]
      BY <2>3 DEF EarlyExitReturns, Answered, TypeInv, TypeOK
    <3> QED BY <2>1, <3>1, <3>2 DEF AnswersInv, Completing
  <2> QED BY <1>2, <2>2, <2>3
<1>3. ASSUME NEW c \in Calls, StartRefresh(c) PROVE AnswersInv'
  <2>1. pending' # None
    BY <1>3, RefreshIsSome, <<c>> \in Seq(Calls) DEF StartRefresh, AllBackends, TypeInv, TypeOK
  <2>2. Gathered = {} /\ Gathered' = {c}
    BY <1>3, <2>1 DEF StartRefresh, AllBackends, Gathered, ToSet
  <2>3. /\ stage[c] = "locking" /\ stage'[c] = "posting" /\ todo'[c] # {}
        /\ \A d \in Calls : d # c => stage'[d] = stage[d] /\ todo'[d] = todo[d]
        /\ UNCHANGED <<wpc, promises, resolved>>
    BY <1>3 DEF StartRefresh, TypeInv, TypeOK
  <2> QED BY <2>2, <2>3 DEF AnswersInv, Completing
<1>4. ASSUME NEW c \in Calls, JoinRefresh(c) PROVE AnswersInv'
  <2>1. /\ pending # None
        /\ pending' = [backends |-> pending.backends, calls |-> Append(pending.calls, c)]
        /\ UNCHANGED <<wpc, promises, resolved>>
    BY <1>4 DEF JoinRefresh
  <2>2. pending' # None
    BY <2>1, <1>0, ElementsOfAppend, RefreshIsSome DEF TypeInv, TypeOK, Pending
  <2>3. Gathered' = Gathered \cup {c}
    BY <2>1, <2>2, <1>0, ElementsOfAppend DEF Gathered
  <2>4. /\ stage[c] = "locking" /\ stage'[c] = "returned"
        /\ \A d \in Calls : d # c => stage'[d] = stage[d] /\ todo'[d] = todo[d]
    BY <1>4 DEF JoinRefresh, NothingToRequest, TypeInv, TypeOK
  <2> QED BY <2>1, <2>3, <2>4 DEF AnswersInv, Completing
<1>5. ASSUME NEW c \in Calls, NEW b \in Backends, RequestRefresh(c, b) PROVE AnswersInv'
  <2>1. UNCHANGED <<pending, Gathered, wpc, promises, resolved>>
    BY <1>5 DEF RequestRefresh, Gathered
  <2>2. /\ stage[c] = "posting" /\ stage'[c] \in {"posting", "returned"}
        /\ stage'[c] = "posting" => todo'[c] # {}
        /\ \A d \in Calls : d # c => stage'[d] = stage[d] /\ todo'[d] = todo[d]
    BY <1>5 DEF RequestRefresh, TypeInv, TypeOK
  <2> QED BY <2>1, <2>2 DEF AnswersInv, Completing
<1>6. ASSUME NEW c \in Calls, NEW d \in Calls, EarlyExitCallbackCalls(c, d) PROVE AnswersInv'
  BY <1>6, <1>a DEF EarlyExitCallbackCalls
<1>7. ASSUME NEW b \in Backends, NEW c \in Calls, CallbackCalls(b, c) PROVE AnswersInv'
  BY <1>7, <1>a DEF CallbackCalls
<1>8. ASSUME NEW b \in Backends, WorkerThread(b) PROVE AnswersInv'
  <2>1. CASE TakeRequest(b) \/ HandleRefresh(b) \/ CallBack(b) \/ CallbackReturns(b)
    <3>1. UNCHANGED <<pending, Gathered, stage, todo, promises, resolved>>
      BY <2>1 DEF TakeRequest, HandleRefresh, CallBack, CallbackReturns, Gathered
    <3>2. \A a \in Backends : Completing(a)' <=> Completing(a)
      BY <2>1 DEF TakeRequest, HandleRefresh, CallBack, CallbackReturns, Completing, TypeInv, TypeOK
    <3> QED BY <3>1, <3>2 DEF AnswersInv
  <2>2. CASE Acknowledge(b)
    <3>1. UNCHANGED <<stage, todo, promises, resolved>>
      BY <2>2 DEF Acknowledge
    <3>2. pending # None => pending' # None /\ pending'.calls = pending.calls
      BY <2>2, <1>0, RefreshIsSome DEF Acknowledge, StillPending, TypeInv, TypeOK, Pending
    <3>3. Gathered' = Gathered
      BY <2>2, <3>2 DEF Acknowledge, Gathered
    <3>4. \A a \in Backends : Completing(a)' <=> Completing(a)
      BY <2>2 DEF Acknowledge, Completing, TypeInv, TypeOK
    <3> QED BY <3>1, <3>3, <3>4 DEF AnswersInv
  <2>3. CASE AcknowledgeLast(b)
    <3>1. /\ pending # None /\ ~Completing(b) /\ Gathered' = {}
          /\ UNCHANGED <<stage, todo, resolved>>
      BY <2>3 DEF AcknowledgeLast, SlotCleared, Completing, Gathered
    <3>2. promises[b] = {} /\ promises'[b] = Gathered /\ Completing(b)'
      BY <2>3, <3>1 DEF AcknowledgeLast, AnswersInv, Gathered, Completing, TypeInv, TypeOK
    <3>3. \A a \in Backends : a # b => promises'[a] = promises[a] /\ (Completing(a)' <=> Completing(a))
      BY <2>3 DEF AcknowledgeLast, Completing, TypeInv, TypeOK
    <3> QED BY <3>1, <3>2, <3>3, <1>0 DEF AnswersInv
  <2>4. CASE ResolvePromises(b)
    <3>1. UNCHANGED <<pending, Gathered, stage, todo>> /\ resolved' = resolved \cup promises[b]
      BY <2>4 DEF ResolvePromises, Gathered
    <3>2. promises'[b] = {} /\ ~Completing(b)'
      BY <2>4 DEF ResolvePromises, Completing, TypeInv, TypeOK
    <3>3. \A a \in Backends : a # b => promises'[a] = promises[a] /\ (Completing(a)' <=> Completing(a))
      BY <2>4 DEF ResolvePromises, Completing, TypeInv, TypeOK
    <3> QED BY <3>1, <3>2, <3>3 DEF AnswersInv
  <2> QED BY <1>8, <2>1, <2>2, <2>3, <2>4 DEF WorkerThread
<1>9. ASSUME NEW b \in Backends, RegisterBackend(b) PROVE AnswersInv'
  BY <1>9 DEF RegisterBackend, AnswersInv, Gathered, Completing
<1>10. CASE AllAnswered \/ UNCHANGED vars
  BY <1>10 DEF AllAnswered, vars, AnswersInv, Gathered, Completing
<1> QED BY <1>1, <1>2, <1>3, <1>4, <1>5, <1>6, <1>7, <1>8, <1>9, <1>10 DEF Next, CallingThread

\* The head of a list without duplicates is not in its tail.
LEMMA TailHasNoDuplicates ==
  ASSUME NEW S, NEW s \in Seq(S), s # <<>>, NoDuplicates(s)
  PROVE  NoDuplicates(Tail(s)) /\ Head(s) \notin ToSet(Tail(s))
<1>1. 1 \in DOMAIN s /\ s[1] = Head(s)
  OBVIOUS
<1>2. \A i \in DOMAIN Tail(s) : i \in Nat /\ i # 0 /\ i + 1 \in DOMAIN s /\ Tail(s)[i] = s[i + 1]
  OBVIOUS
<1>3. NoDuplicates(Tail(s))
  BY <1>2 DEF NoDuplicates
<1>4. ASSUME NEW i \in DOMAIN Tail(s), Tail(s)[i] = Head(s) PROVE FALSE
  <2>1. i + 1 = 1 BY <1>1, <1>2, <1>4 DEF NoDuplicates
  <2> QED BY <2>1, <1>2
<1> QED BY <1>3, <1>4 DEF ToSet

\* Appending what is not in the list adds no duplicate.
LEMMA AppendedHasNoDuplicates ==
  ASSUME NEW S, NEW s \in Seq(S), NEW e \in S, NoDuplicates(s), e \notin ToSet(s)
  PROVE  NoDuplicates(Append(s, e))
<1>1. /\ \A i \in DOMAIN s : Append(s, e)[i] = s[i] /\ s[i] # e
      /\ Append(s, e)[Len(s) + 1] = e
      /\ \A i \in DOMAIN Append(s, e) : i = Len(s) + 1 \/ i \in DOMAIN s
  BY DEF ToSet
<1> QED BY <1>1 DEF NoDuplicates

\* The inductive step of the callbacks, on top of the answers.
LEMMA OnceInductive == TypeInv /\ AnswersInv /\ OnceInv /\ [Next]_vars => OnceInv'
<1> SUFFICES ASSUME TypeInv, AnswersInv, OnceInv, [Next]_vars PROVE OnceInv'
  OBVIOUS
<1> USE DEF callVars, workerVars, history
<1>0. pending # None => pending.calls \in Seq(Calls) /\ Gathered = ToSet(pending.calls)
  BY DEF Gathered, TypeInv, TypeOK, Pending
<1>a. ASSUME NEW c \in Calls, NEW x, Invoke(c, x) PROVE OnceInv'
  BY <1>a DEF Invoke, OnceInv, CallbacksRunOnce, TypeInv, TypeOK
<1>1. ASSUME NEW c \in Calls, Call(c) PROVE OnceInv'
  BY <1>1, <1>a DEF Call
<1>2. ASSUME NEW c \in Calls, EarlyExit(c) \/ EarlyExitReturns(c) PROVE OnceInv'
  <2>1. UNCHANGED <<pending, callbacks, promises>> /\ calledBack' \subseteq calledBack \cup {c}
    BY <1>2 DEF EarlyExit, EarlyExitReturns
  <2>2. /\ stage[c] \in {"locking", "exiting"} /\ stage'[c] \notin {"unmade", "locking"}
        /\ \A d \in Calls : d # c => stage'[d] = stage[d]
    BY <1>2 DEF EarlyExit, EarlyExitReturns, TypeInv, TypeOK
  <2>3. c \notin Gathered /\ \A b \in Backends : c \notin ToSet(callbacks[b])
    BY <2>2 DEF AnswersInv, OnceInv
  <2>4. CallbacksRunOnce'
    BY <2>1, <2>3, <1>0 DEF OnceInv, CallbacksRunOnce
  <2> QED BY <2>1, <2>2, <2>4 DEF OnceInv
<1>3. ASSUME NEW c \in Calls, StartRefresh(c) PROVE OnceInv'
  <2>1. pending'.calls = <<c>> /\ NoDuplicates(<<c>>) /\ ToSet(<<c>>) = {c}
    BY <1>3 DEF StartRefresh, NoDuplicates, ToSet
  <2>2. /\ stage[c] = "locking" /\ stage'[c] = "posting"
        /\ \A d \in Calls : d # c => stage'[d] = stage[d]
        /\ UNCHANGED <<callbacks, promises, calledBack>>
    BY <1>3 DEF StartRefresh, TypeInv, TypeOK
  <2> QED BY <2>1, <2>2 DEF OnceInv, CallbacksRunOnce
<1>4. ASSUME NEW c \in Calls, JoinRefresh(c) PROVE OnceInv'
  <2>1. pending # None /\ pending'.calls = Append(pending.calls, c)
    BY <1>4 DEF JoinRefresh
  <2>2. /\ stage[c] = "locking" /\ stage'[c] \notin {"unmade", "locking"}
        /\ \A d \in Calls : d # c => stage'[d] = stage[d]
        /\ UNCHANGED <<callbacks, promises, calledBack>>
    BY <1>4 DEF JoinRefresh, TypeInv, TypeOK
  <2>3. c \notin ToSet(pending.calls) /\ c \notin calledBack
    BY <2>1, <2>2, <1>0 DEF AnswersInv, OnceInv
  <2>4. NoDuplicates(pending'.calls) /\ ToSet(pending'.calls) = ToSet(pending.calls) \cup {c}
    BY <2>1, <2>3, <1>0, AppendedHasNoDuplicates, ElementsOfAppend DEF OnceInv
  <2> QED BY <2>1, <2>2, <2>3, <2>4 DEF OnceInv, CallbacksRunOnce
<1>5. ASSUME NEW c \in Calls, NEW b \in Backends, RequestRefresh(c, b) PROVE OnceInv'
  BY <1>5 DEF RequestRefresh, OnceInv, CallbacksRunOnce, TypeInv, TypeOK
<1>6. ASSUME NEW c \in Calls, NEW d \in Calls, EarlyExitCallbackCalls(c, d) PROVE OnceInv'
  BY <1>6, <1>a DEF EarlyExitCallbackCalls
<1>7. ASSUME NEW b \in Backends, NEW c \in Calls, CallbackCalls(b, c) PROVE OnceInv'
  BY <1>7, <1>a DEF CallbackCalls
<1>8. ASSUME NEW b \in Backends, WorkerThread(b) PROVE OnceInv'
  <2>1. CASE TakeRequest(b) \/ HandleRefresh(b) \/ CallbackReturns(b)
    BY <2>1 DEF TakeRequest, HandleRefresh, CallbackReturns, OnceInv, CallbacksRunOnce
  <2>2. CASE Acknowledge(b)
    <3>1. UNCHANGED <<stage, callbacks, promises, calledBack>>
      BY <2>2 DEF Acknowledge
    <3>2. pending' # None => pending # None /\ pending'.calls = pending.calls
      BY <2>2 DEF Acknowledge
    <3> QED BY <3>1, <3>2 DEF OnceInv, CallbacksRunOnce
  <2>3. CASE AcknowledgeLast(b)
    <3>1. /\ pending # None /\ pending' = None
          /\ UNCHANGED <<stage, calledBack>>
      BY <2>3 DEF AcknowledgeLast, SlotCleared
    <3>2. /\ callbacks'[b] = pending.calls /\ promises'[b] = ToSet(pending.calls)
          /\ \A a \in Backends : a # b => callbacks'[a] = callbacks[a] /\ promises'[a] = promises[a]
      BY <2>3 DEF AcknowledgeLast, TypeInv, TypeOK
    <3> QED BY <3>1, <3>2 DEF OnceInv, CallbacksRunOnce
  <2>4. CASE CallBack(b)
    <3>1. /\ UNCHANGED <<stage, pending, promises>>
          /\ calledBack' = calledBack \cup {Head(callbacks[b])}
          /\ callbacks'[b] = Tail(callbacks[b])
          /\ \A a \in Backends : a # b => callbacks'[a] = callbacks[a]
      BY <2>4 DEF CallBack, TypeInv, TypeOK
    <3>2. /\ NoDuplicates(Tail(callbacks[b]))
          /\ Head(callbacks[b]) \notin ToSet(Tail(callbacks[b]))
          /\ ToSet(callbacks[b]) = {Head(callbacks[b])} \cup ToSet(Tail(callbacks[b]))
      BY <2>4, TailHasNoDuplicates, ElementsOfTail DEF CallBack, OnceInv, TypeInv, TypeOK
    <3>3. Head(callbacks[b]) \in promises[b]
      BY <3>2 DEF OnceInv
    <3>4. /\ pending # None => Head(callbacks[b]) \notin ToSet(pending.calls)
          /\ \A a \in Backends : a # b => Head(callbacks[b]) \notin ToSet(callbacks[a])
      BY <3>3, <1>0 DEF AnswersInv, OnceInv
    <3>5. CallbacksRunOnce'
      BY <3>1, <3>2, <3>4 DEF OnceInv, CallbacksRunOnce
    <3>6. \A c \in Calls : stage'[c] \in {"unmade", "locking"} => c \notin calledBack'
      BY <3>1, <3>3 DEF AnswersInv, OnceInv
    <3> QED BY <3>1, <3>2, <3>5, <3>6 DEF OnceInv
  <2>5. CASE ResolvePromises(b)
    <3>1. /\ UNCHANGED <<stage, pending, callbacks, calledBack>>
          /\ callbacks[b] = <<>>
          /\ \A a \in Backends : a # b => promises'[a] = promises[a]
      BY <2>5 DEF ResolvePromises, CallbacksDone, TypeInv, TypeOK
    <3>2. ToSet(callbacks[b]) = {}
      BY <3>1, ElementsOfList DEF TypeInv, TypeOK
    <3> QED BY <3>1, <3>2 DEF OnceInv, CallbacksRunOnce
  <2> QED BY <1>8, <2>1, <2>2, <2>3, <2>4, <2>5 DEF WorkerThread
<1>9. ASSUME NEW b \in Backends, RegisterBackend(b) PROVE OnceInv'
  BY <1>9 DEF RegisterBackend, OnceInv, CallbacksRunOnce
<1>10. CASE AllAnswered \/ UNCHANGED vars
  BY <1>10 DEF AllAnswered, vars, OnceInv, CallbacksRunOnce
<1> QED BY <1>1, <1>2, <1>3, <1>4, <1>5, <1>6, <1>7, <1>8, <1>9, <1>10 DEF Next, CallingThread

\* Initially nobody waits and nothing has been called.
LEMMA AnswersInitially == Init => AnswersInv /\ OnceInv
<1>1. NoDuplicates(<<>>) /\ ToSet(<<>>) = {}
  BY DEF NoDuplicates, ToSet
<1> QED BY <1>1 DEF Init, AnswersInv, OnceInv, CallbacksRunOnce, Gathered, Completing

\* A callback that has been entered is in no list any more: none is run twice
\* (audio_device_manager.hpp:203-227).
THEOREM CallbacksRunOnlyOnce == Spec => []CallbacksRunOnce
<1>1. OnceInv => CallbacksRunOnce
  BY DEF OnceInv
<1>2. Spec => []AnswersInv
  BY AnswersInitially, AnswersInductive, TypeCorrect, AckInvariant, PTL DEF Spec
<1> QED BY <1>1, <1>2, AnswersInitially, OnceInductive, TypeCorrect, PTL DEF Spec
--------------------------------------------------------------------------------
(* Every step is one of Refresh, or leaves it alone *)

\* While there are calls that were not made, the next one is one of them.
LEMMA NextCallIsACall == Made # Calls => NextCall \in Calls
<1>1. Made # Calls => \E c \in Calls : c \notin Made
  BY DEF Made
<1> QED BY <1>1 DEF NextCall

LEMMA StepsOfRefresh == [ManagerNext]_allVars => [Next]_vars
<1> SUFFICES ASSUME [ManagerNext]_allVars PROVE [Next]_vars
  OBVIOUS
<1> USE DEF refreshVars
<1>1. ASSUME Program PROVE Next
  BY <1>1, NextCallIsACall DEF Program, Next
<1>2. ASSUME CallbackStep PROVE Next
  BY <1>2, NextCallIsACall DEF CallbackStep, Next
<1>3. ASSUME NEW c \in Calls, CallStep(c) PROVE Next
  BY <1>3 DEF CallStep, Next
<1>4. ASSUME NEW b \in Backends, WorkerStep(b) PROVE Next
  BY <1>4 DEF WorkerStep, Next
<1>5. ASSUME SubscriberCalls PROVE Next
  BY <1>5, NextCallIsACall DEF SubscriberCalls, Next
<1>6. CASE UseAfterDestruction \/ SchedulerThread \/ Destroy \/ OwnerThread \/ Finished \/ UNCHANGED allVars
  BY <1>6 DEF UseAfterDestruction, SchedulerThread, CallReturns, GetReturns, Destroy, OwnerThread,
              DestroyMembers, DestroyBackends, Finished, allVars
<1> QED BY <1>1, <1>2, <1>3, <1>4, <1>5, <1>6 DEF ManagerNext

\* The manager with its destructor implements refresh_async() as Refresh specifies it
\* (audio_device_manager.hpp:24-32, 159-227).
THEOREM ManagerImplementsRefresh == ManagerSpec => Init /\ [][Next]_vars
<1>1. ManagerInit => Init
  BY DEF ManagerInit
<1> QED BY <1>1, StepsOfRefresh, PTL DEF ManagerSpec

\* Everything shown of Refresh above.
RefreshInv == TypeInv /\ AckInv /\ FreshInv /\ AnswersInv /\ OnceInv

LEMMA RefreshInvariant == ManagerSpec => []RefreshInv
<1>1. ManagerInit => RefreshInv
  <2>1. Init => TypeInv
    BY ElementsOfList DEF Init, TypeInv, TypeOK
  <2>2. Init => AckInv
    BY DEF Init, AckInv, OnlyStarterRequests, Silent
  <2>3. Init => FreshInv
    BY DEF Init, FreshInv, NotGathered
  <2> QED BY <2>1, <2>2, <2>3, AnswersInitially DEF ManagerInit, RefreshInv
<1>2. RefreshInv /\ [ManagerNext]_allVars => RefreshInv'
  BY StepsOfRefresh, TypeInductive, AckInductive, FreshInductive, AnswersInductive, OnceInductive
     DEF RefreshInv
<1> QED BY <1>1, <1>2, PTL DEF ManagerSpec

\* A manager that may be destroyed on the way does not confuse acknowledgements, and
\* the call that starts a refresh gets fresh reports, for any number of backends and
\* calls (audio_device_manager.hpp:159-227).
THEOREM AcksStayApart == ManagerSpec => []AcksAreNotConfused
<1>1. RefreshInv => AcksAreNotConfused
  BY DEF RefreshInv, AckInv, AcksAreNotConfused, AckDue, Silent, Starter
<1> QED BY <1>1, RefreshInvariant, PTL

THEOREM StartersStayFresh == ManagerSpec => []StarterIsFresh
<1>1. RefreshInv => StarterIsFresh
  BY DEF RefreshInv, TypeInv, FreshInv, StarterIsFresh
<1> QED BY <1>1, RefreshInvariant, PTL

\* No callback is called twice, nor with the future ready before it has been called
\* (audio_device_manager.hpp:210-226), also when the manager is destroyed meanwhile.
THEOREM CallbacksStillRunOnce == ManagerSpec => []CallbacksRunOnce
<1>1. RefreshInv => CallbacksRunOnce
  BY DEF RefreshInv, OnceInv
<1> QED BY <1>1, RefreshInvariant, PTL

--------------------------------------------------------------------------------
(* Nobody's answer is forgotten: the safety half of EveryCallIsAnswered *)

\* A call that has had the mutex is gathered, promised by who completes it, or resolved,
\* and what it has still to request it is about to.
HandInv ==
  /\ \A c \in Calls : stage[c] \in {"posting", "returned"} =>
       c \in Gathered \cup resolved \/ \E b \in Backends : c \in promises[b]
  /\ \A c \in Calls : todo[c] # {} => stage[c] = "posting"

\* The inductive step, on top of the answers.
LEMMA HandInductive == TypeInv /\ AnswersInv /\ HandInv /\ [Next]_vars => HandInv'
<1> SUFFICES ASSUME TypeInv, AnswersInv, HandInv, [Next]_vars PROVE HandInv'
  OBVIOUS
<1> USE DEF callVars, workerVars, history
<1>0. pending # None => pending.calls \in Seq(Calls) /\ Gathered = ToSet(pending.calls)
  BY DEF Gathered, TypeInv, TypeOK, Pending
<1>a. ASSUME NEW c \in Calls, NEW x, Invoke(c, x) PROVE HandInv'
  BY <1>a DEF Invoke, HandInv, Gathered, TypeInv, TypeOK
<1>1. ASSUME NEW c \in Calls, Call(c) PROVE HandInv'
  BY <1>1, <1>a DEF Call
<1>2. ASSUME NEW c \in Calls, EarlyExit(c) \/ EarlyExitReturns(c) PROVE HandInv'
  <2>1. UNCHANGED <<Gathered, promises, todo>> /\ resolved \subseteq resolved'
    BY <1>2 DEF EarlyExit, EarlyExitReturns, Gathered, Answered
  <2>2. /\ stage[c] \in {"locking", "exiting"}
        /\ \A d \in Calls : d # c => stage'[d] = stage[d]
        /\ stage'[c] = "exiting" \/ (stage'[c] = "returned" /\ c \in resolved')
    BY <1>2 DEF EarlyExit, EarlyExitReturns, Answered, TypeInv, TypeOK
  <2> QED BY <2>1, <2>2 DEF HandInv
<1>3. ASSUME NEW c \in Calls, StartRefresh(c) PROVE HandInv'
  <2>1. pending' # None
    BY <1>3, RefreshIsSome, <<c>> \in Seq(Calls) DEF StartRefresh, AllBackends, TypeInv, TypeOK
  <2>2. Gathered = {} /\ Gathered' = {c}
    BY <1>3, <2>1 DEF StartRefresh, AllBackends, Gathered, ToSet
  <2>3. /\ stage'[c] = "posting"
        /\ \A d \in Calls : d # c => stage'[d] = stage[d] /\ todo'[d] = todo[d]
        /\ UNCHANGED <<promises, resolved>>
    BY <1>3 DEF StartRefresh, TypeInv, TypeOK
  <2> QED BY <2>2, <2>3 DEF HandInv
<1>4. ASSUME NEW c \in Calls, JoinRefresh(c) PROVE HandInv'
  <2>1. /\ pending # None
        /\ pending' = [backends |-> pending.backends, calls |-> Append(pending.calls, c)]
        /\ UNCHANGED <<promises, resolved>>
    BY <1>4 DEF JoinRefresh
  <2>2. pending' # None
    BY <2>1, <1>0, ElementsOfAppend, RefreshIsSome DEF TypeInv, TypeOK, Pending
  <2>3. Gathered' = Gathered \cup {c}
    BY <2>1, <2>2, <1>0, ElementsOfAppend DEF Gathered
  <2>4. /\ todo'[c] = {}
        /\ \A d \in Calls : d # c => stage'[d] = stage[d] /\ todo'[d] = todo[d]
    BY <1>4 DEF JoinRefresh, NothingToRequest, TypeInv, TypeOK
  <2> QED BY <2>1, <2>3, <2>4 DEF HandInv
<1>5. ASSUME NEW c \in Calls, NEW b \in Backends, RequestRefresh(c, b) PROVE HandInv'
  <2>1. UNCHANGED <<Gathered, promises, resolved>>
    BY <1>5 DEF RequestRefresh, Gathered
  <2>2. /\ stage[c] = "posting" /\ (todo'[c] # {} => stage'[c] = "posting")
        /\ \A d \in Calls : d # c => stage'[d] = stage[d] /\ todo'[d] = todo[d]
    BY <1>5 DEF RequestRefresh, TypeInv, TypeOK
  <2> QED BY <2>1, <2>2 DEF HandInv
<1>6. ASSUME NEW c \in Calls, NEW d \in Calls, EarlyExitCallbackCalls(c, d) PROVE HandInv'
  BY <1>6, <1>a DEF EarlyExitCallbackCalls
<1>7. ASSUME NEW b \in Backends, NEW c \in Calls, CallbackCalls(b, c) PROVE HandInv'
  BY <1>7, <1>a DEF CallbackCalls
<1>8. ASSUME NEW b \in Backends, WorkerThread(b) PROVE HandInv'
  <2>1. UNCHANGED <<stage, todo>>
    BY <1>8 DEF WorkerThread, TakeRequest, HandleRefresh, Acknowledge, AcknowledgeLast, CallBack,
                CallbackReturns, ResolvePromises
  <2>2. CASE TakeRequest(b) \/ HandleRefresh(b) \/ CallBack(b) \/ CallbackReturns(b)
    <3>1. UNCHANGED <<Gathered, promises, resolved>>
      BY <2>2 DEF TakeRequest, HandleRefresh, CallBack, CallbackReturns, Gathered
    <3> QED BY <2>1, <3>1 DEF HandInv
  <2>3. CASE Acknowledge(b)
    <3>1. pending # None => pending' # None /\ pending'.calls = pending.calls
      BY <2>3, <1>0, RefreshIsSome DEF Acknowledge, StillPending, TypeInv, TypeOK, Pending
    <3>2. Gathered' = Gathered /\ UNCHANGED <<promises, resolved>>
      BY <2>3, <3>1 DEF Acknowledge, Gathered
    <3> QED BY <2>1, <3>2 DEF HandInv
  <2>4. CASE AcknowledgeLast(b)
    <3>1. promises[b] = {} /\ promises'[b] = Gathered /\ resolved' = resolved
      BY <2>4, <1>0 DEF AcknowledgeLast, AnswersInv, Completing, TypeInv, TypeOK
    <3>2. \A a \in Backends : a # b => promises'[a] = promises[a]
      BY <2>4 DEF AcknowledgeLast, TypeInv, TypeOK
    <3> QED BY <2>1, <3>1, <3>2 DEF HandInv
  <2>5. CASE ResolvePromises(b)
    <3>1. Gathered' = Gathered /\ resolved' = resolved \cup promises[b]
      BY <2>5 DEF ResolvePromises, Gathered
    <3>2. \A a \in Backends : a # b => promises'[a] = promises[a]
      BY <2>5 DEF ResolvePromises, TypeInv, TypeOK
    <3> QED BY <2>1, <3>1, <3>2 DEF HandInv
  <2> QED BY <1>8, <2>2, <2>3, <2>4, <2>5 DEF WorkerThread
<1>9. ASSUME NEW b \in Backends, RegisterBackend(b) PROVE HandInv'
  BY <1>9 DEF RegisterBackend, HandInv, Gathered
<1>10. CASE AllAnswered \/ UNCHANGED vars
  BY <1>10 DEF AllAnswered, vars, HandInv, Gathered
<1> QED BY <1>1, <1>2, <1>3, <1>4, <1>5, <1>6, <1>7, <1>8, <1>9, <1>10 DEF Next, CallingThread

\* A request for a refresh of b is about to be sent, queued or being handled.
RequestUnderWay(b) ==
  \/ \E c \in Calls : stage[c] = "posting" /\ b \in todo[c]
  \/ queue[b] # <<>> \/ wpc[b] \in {"handle", "ack"}

\* Whoever has to answer call c next: its own thread, each backend the pending refresh
\* that has gathered it still waits for, or the worker that completes its refresh.
InHand(c) ==
  \/ stage[c] \in {"locking", "exiting"}
  \/ /\ c \in Gathered /\ pending.backends # {}
     /\ \A b \in pending.backends : RequestUnderWay(b)
  \/ \E b \in Backends : c \in promises[b] /\ Completing(b)

EveryCallIsInHand == \A c \in Made \ resolved : InHand(c)

\* No call is forgotten: until its future is ready somebody has it to answer, and of a
\* pending refresh there is always a backend that will acknowledge it
\* (audio_device_manager.hpp:159-227).  It may be the destruction that keeps them from it.
THEOREM CallsAreInHand == ManagerSpec => []EveryCallIsInHand
<1>1. ManagerInit => HandInv
  BY DEF ManagerInit, Init, HandInv
<1>2. RefreshInv /\ HandInv /\ [ManagerNext]_allVars => HandInv'
  BY StepsOfRefresh, HandInductive DEF RefreshInv
<1>3. RefreshInv /\ HandInv => EveryCallIsInHand
  <2> SUFFICES ASSUME RefreshInv, HandInv, NEW c \in Made, c \notin resolved PROVE InHand(c)
    BY DEF EveryCallIsInHand
  <2>1. c \in Calls /\ stage[c] \in {"locking", "exiting", "posting", "returned"}
    BY DEF Made, RefreshInv, TypeInv, TypeOK
  <2>2. CASE c \in Gathered
    <3>1. pending # None /\ Starter \in Calls
      BY <2>2, ElementsOfList DEF Gathered, RefreshInv, Starter, TypeInv, TypeOK, Pending
    <3>2. ASSUME NEW b \in pending.backends PROVE RequestUnderWay(b)
      <4>1. b \in Backends
        BY <3>1 DEF RefreshInv, TypeInv, TypeOK, Pending
      <4>2. AckDue(b, Starter)
        BY <3>1, <4>1 DEF RefreshInv, AckInv
      <4> QED BY <3>1, <4>2 DEF AckDue, HandInv, RequestUnderWay
    <3> QED BY <2>2, <3>1, <3>2 DEF RefreshInv, AckInv, InHand
  <2>3. CASE \E b \in Backends : c \in promises[b]
    BY <2>3 DEF RefreshInv, AnswersInv, InHand
  <2> QED BY <2>1, <2>2, <2>3 DEF HandInv, InHand
<1> QED BY <1>1, <1>2, <1>3, RefreshInvariant, PTL DEF ManagerSpec

--------------------------------------------------------------------------------
(* Types *)

\* The destructor breaks the promises of the calls that are gathered, and nobody
\* gathers or answers one of them afterwards.
AbandonedAreGathered == abandoned = IF MembersThere THEN {} ELSE Gathered

\* Without its members the manager has nobody who would change pending_refresh.
LEMMA PendingStays ==
  ASSUME ~MembersThere, [ManagerNext]_allVars PROVE pending' = pending /\ ~MembersThere'
<1> USE DEF managerVars, refreshVars, vars
<1>1. ~Program /\ ~SubscriberCalls /\ ~Destroy /\ ~DestroyMembers /\ \A c \in Calls : ~CallStep(c)
  BY DEF Program, SubscriberCalls, Destroy, DestroyMembers, CallStep, MembersThere
<1>2. ASSUME NEW b \in Backends, WorkerStep(b) PROVE pending' = pending /\ ~MembersThere'
  BY <1>2 DEF WorkerStep, WorkerThread, TakeRequest, HandleRefresh, Acknowledge, AcknowledgeLast,
              CallBack, CallbackReturns, ResolvePromises, MembersThere
<1>3. ASSUME CallbackStep PROVE pending' = pending /\ ~MembersThere'
  BY <1>3 DEF CallbackStep, CallbackCalls, EarlyExitCallbackCalls, Invoke, MembersThere
<1>4. ASSUME UseAfterDestruction \/ SchedulerThread \/ DestroyBackends \/ Finished \/ UNCHANGED allVars
      PROVE  pending' = pending /\ ~MembersThere'
  BY <1>4 DEF UseAfterDestruction, SchedulerThread, CallReturns, GetReturns, DestroyBackends,
              Finished, allVars, MembersThere
<1> QED BY <1>1, <1>2, <1>3, <1>4 DEF ManagerNext, OwnerThread

\* Only DestroyMembers takes the members away, and only there are promises abandoned.
LEMMA AbandonedStays ==
  ASSUME [ManagerNext]_allVars, ~DestroyMembers
  PROVE  abandoned' = abandoned /\ (MembersThere => MembersThere')
<1> USE DEF managerVars, MembersThere
<1>1. ASSUME Program \/ CallbackStep \/ UseAfterDestruction \/ SchedulerThread
             \/ SubscriberCalls \/ Destroy
      PROVE  abandoned' = abandoned /\ (MembersThere => MembersThere')
  BY <1>1 DEF Program, CallbackStep, UseAfterDestruction, SchedulerThread, CallReturns, GetReturns,
              SubscriberCalls, Destroy
<1>2. ASSUME DestroyBackends \/ Finished \/ UNCHANGED allVars
      PROVE  abandoned' = abandoned /\ (MembersThere => MembersThere')
  BY <1>2 DEF DestroyBackends, Finished, allVars
<1>3. \A c \in Calls : CallStep(c) => abandoned' = abandoned /\ (MembersThere => MembersThere')
  BY DEF CallStep
<1>4. \A b \in Backends : WorkerStep(b) => abandoned' = abandoned /\ (MembersThere => MembersThere')
  BY DEF WorkerStep
<1> QED BY <1>1, <1>2, <1>3, <1>4 DEF ManagerNext, OwnerThread

\* The variables of the manager keep their types, and no promise is both broken by the
\* destruction of pending_refresh and resolved.
THEOREM ManagerTypeCorrect == ManagerSpec => []ManagerTypeOK
<1> DEFINE SmallTypes == /\ phase \in {"alive", "joining", "draining", "destroyed"}
                         /\ spc \in {"free", "call", "get"}
                         /\ scall \in Calls \cup {None}
                         /\ broken \in BOOLEAN /\ waited \in BOOLEAN
<1>1. ManagerInit => SmallTypes /\ AbandonedAreGathered
  BY DEF ManagerInit, AbandonedAreGathered, MembersThere
<1>2. SmallTypes /\ [ManagerNext]_allVars => SmallTypes'
  <2> SUFFICES ASSUME SmallTypes, [ManagerNext]_allVars PROVE SmallTypes'
    OBVIOUS
  <2> USE DEF managerVars
  <2>1. CASE Program \/ CallbackStep \/ UseAfterDestruction
    BY <2>1 DEF Program, CallbackStep, UseAfterDestruction
  <2>2. CASE SchedulerThread \/ Destroy \/ OwnerThread
    BY <2>2 DEF SchedulerThread, CallReturns, GetReturns, Destroy, OwnerThread, DestroyMembers,
                DestroyBackends
  <2>3. CASE SubscriberCalls
    BY <2>3, NextCallIsACall DEF SubscriberCalls
  <2>4. ASSUME NEW c \in Calls, CallStep(c) PROVE SmallTypes'
    BY <2>4 DEF CallStep
  <2>5. ASSUME NEW b \in Backends, WorkerStep(b) PROVE SmallTypes'
    BY <2>5 DEF WorkerStep
  <2>6. CASE Finished \/ UNCHANGED allVars
    BY <2>6 DEF Finished, allVars
  <2> QED BY <2>1, <2>2, <2>3, <2>4, <2>5, <2>6 DEF ManagerNext
<1>3. RefreshInv /\ AbandonedAreGathered /\ [ManagerNext]_allVars => AbandonedAreGathered'
  <2> SUFFICES ASSUME AbandonedAreGathered, [ManagerNext]_allVars PROVE AbandonedAreGathered'
    OBVIOUS
  <2>1. CASE DestroyMembers
    BY <2>1 DEF DestroyMembers, AbandonedAreGathered, MembersThere, Gathered, refreshVars, vars
  <2>2. CASE ~DestroyMembers /\ MembersThere
    BY <2>2, AbandonedStays DEF AbandonedAreGathered
  <2>3. CASE ~DestroyMembers /\ ~MembersThere
    BY <2>3, AbandonedStays, PendingStays DEF AbandonedAreGathered, Gathered
  <2> QED BY <2>1, <2>2, <2>3
<1>4. RefreshInv /\ SmallTypes /\ AbandonedAreGathered => ManagerTypeOK
  <2>1. RefreshInv => Gathered \subseteq Calls /\ Gathered \cap resolved = {}
    BY ElementsOfList DEF RefreshInv, AnswersInv, TypeInv, TypeOK, Pending, Gathered
  <2> QED BY <2>1 DEF ManagerTypeOK, AbandonedAreGathered
<1> QED BY <1>1, <1>2, <1>3, <1>4, RefreshInvariant, PTL DEF ManagerSpec

--------------------------------------------------------------------------------
(* Destruction *)

\* No call is on its way, no request queued and no worker busy with one.
Quiet ==
  /\ \A c \in Calls : stage[c] \in {"unmade", "returned"}
  /\ \A b \in Backends : queue[b] = <<>> /\ wpc[b] = "idle"

\* When every call that was made is answered nothing is going on.
LEMMA AnsweredIsQuiet == RefreshInv /\ Made \subseteq resolved => Quiet
<1> SUFFICES ASSUME RefreshInv, Made \subseteq resolved PROVE Quiet
  OBVIOUS
<1>1. pending = None
  <2> SUFFICES ASSUME pending # None PROVE FALSE
    OBVIOUS
  <2>1. Starter \in Calls
    BY ElementsOfList DEF RefreshInv, Starter, TypeInv, TypeOK, Pending
  <2>2. Starter \in Made /\ Starter \notin resolved
    BY <2>1 DEF RefreshInv, AckInv, FreshInv, Made
  <2> QED BY <2>2
<1>2. ASSUME NEW c \in Calls PROVE stage[c] \in {"unmade", "returned"}
  <2>1. stage[c] \notin {"locking", "exiting"}
    BY DEF RefreshInv, AnswersInv, Made
  <2>2. stage[c] # "posting"
    BY <1>1 DEF RefreshInv, AnswersInv, AckInv, OnlyStarterRequests
  <2> QED BY <2>1, <2>2 DEF RefreshInv, TypeInv, TypeOK
<1>3. ASSUME NEW b \in Backends PROVE queue[b] = <<>> /\ wpc[b] = "idle"
  <2>1. Silent(b)
    BY <1>1 DEF RefreshInv, AckInv
  <2>2. promises[b] = {}
    <3> SUFFICES ASSUME NEW c \in promises[b] PROVE FALSE
      OBVIOUS
    <3>1. c \in Calls BY DEF RefreshInv, TypeInv, TypeOK
    <3> QED BY <3>1 DEF RefreshInv, AnswersInv, Made
  <2> QED BY <2>1, <2>2 DEF RefreshInv, AnswersInv, Completing, Silent, TypeInv, TypeOK
<1> QED BY <1>2, <1>3 DEF Quiet

\* The inductive invariant: nothing is broken while the members are there, and
\* once the destructor has begun with every call answered nothing happens any more.
SafeInv ==
  /\ phase = "alive" => waited
  /\ broken => ~MembersThere
  /\ phase # "alive" /\ waited => Quiet /\ ~broken

\* A program that waits for its calls before it destroys the manager has no member
\* used after its destruction, however the threads are scheduled, unless a subscriber
\* calls meanwhile (audio_device_manager.hpp:24-32, 306).
THEOREM WaitingIsSafe == ManagerSpec => []MembersOutliveUse
<1>1. ManagerInit => SafeInv
  BY DEF ManagerInit, SafeInv
<1>2. RefreshInv /\ SafeInv /\ [ManagerNext]_allVars => SafeInv'
  <2> SUFFICES ASSUME RefreshInv, SafeInv, [ManagerNext]_allVars PROVE SafeInv'
    OBVIOUS
  <2> USE DEF managerVars, refreshVars
  <2>1. CASE Program
    BY <2>1 DEF Program, SafeInv, MembersThere
  <2>2. CASE CallbackStep
    BY <2>2 DEF CallbackStep, CallbackCalls, EarlyExitCallbackCalls, SafeInv, Quiet, MembersThere
  <2>3. ASSUME NEW c \in Calls, CallStep(c) PROVE SafeInv'
    BY <2>3 DEF CallStep, CallingThread, EarlyExit, EarlyExitReturns, StartRefresh, JoinRefresh,
                RequestRefresh, SafeInv, Quiet, MembersThere
  <2>4. ASSUME NEW b \in Backends, WorkerStep(b) PROVE SafeInv'
    BY <2>4 DEF WorkerStep, WorkerThread, TakeRequest, HandleRefresh, Acknowledge, AcknowledgeLast,
                CallBack, CallbackReturns, ResolvePromises, SafeInv, Quiet, MembersThere
  <2>5. CASE SubscriberCalls
    BY <2>5 DEF SubscriberCalls, SafeInv, MembersThere
  <2>6. CASE UseAfterDestruction
    BY <2>6 DEF UseAfterDestruction, SafeInv, Quiet, MembersThere
  <2>7. CASE Destroy
    BY <2>7, AnsweredIsQuiet DEF Destroy, SafeInv, Quiet, MembersThere, vars, callVars, workerVars
  <2>8. CASE SchedulerThread \/ OwnerThread \/ Finished \/ UNCHANGED allVars
    BY <2>8 DEF SchedulerThread, CallReturns, GetReturns, OwnerThread, DestroyMembers, DestroyBackends,
                Finished, allVars, SafeInv, Quiet, MembersThere, vars, callVars, workerVars
  <2> QED BY <2>1, <2>2, <2>3, <2>4, <2>5, <2>6, <2>7, <2>8 DEF ManagerNext
<1>3. SafeInv => MembersOutliveUse
  BY DEF SafeInv, MembersOutliveUse, MembersThere
<1> QED BY <1>1, <1>2, <1>3, RefreshInvariant, PTL DEF ManagerSpec
================================================================================

--------------------------- MODULE ListenersProofs --------------------------
(***************************************************************************)
(* The safety properties of Listeners, for any number of threads and       *)
(* slates.                                                                 *)
(***************************************************************************)
EXTENDS Listeners, TLAPS

\* The mutex, the map and the stop call agree: only a stop call waits for a
\* thread or has interfaces left to signal, and it holds the mutex; a thread in
\* the map was started for that interface; a thread in the wallet has the mutex.
Agreement ==
    /\ joining # None \/ toStop # {} => lock = "cli"
    /\ \A i \in toStop : listeners[i] # None
    /\ \A i \in Interface : listeners[i] \in Threads =>
            Is(listeners[i], i) /\ Pc(listeners[i]) # "unused"
    /\ \A t \in Threads : Pc(t) = "inside" => lock = t

\* A thread runs the code of its interface, and has a slate while it handles one.
Flow ==
    \A t \in Threads :
        /\ Alive(t) => threads[t].iface \in Interface
        /\ Pc(t) \in GrinboxPc => Is(t, "Grinbox")
        /\ Pc(t) \in KeybasePc => Is(t, "Keybase")
        /\ Pc(t) \in SlatePc => threads[t].cur \in Slates
        /\ Pc(t) = "inside" => threads[t].cur \notin NoInputs
        /\ Pc(t) = "replying" => threads[t].cur \in received \cup NoInputs

\* A grinbox thread with a connection has a sender until it is stopped.
SenderKept ==
    \A t \in Threads :
        Is(t, "Grinbox") /\ Pc(t) \in SlatePc \cup {"online"} /\ ~threads[t].running =>
            \A i \in Interface : listeners[i] # t

IInv ==
    /\ TypeOK /\ Agreement /\ Flow /\ SenderKept
    /\ StoppedIsQuiet /\ RecordedIsAnswered /\ GrinboxSurvives

-----------------------------------------------------------------------------
(* A thread with some of its fields replaced is a thread.                  *)

LEMMA PcTyped == ASSUME NEW r \in Thread, NEW p \in ThreadPc
                 PROVE  [r EXCEPT !.pc = p] \in Thread
BY DEF Thread

LEMMA CurTyped == ASSUME NEW r \in Thread, NEW p \in ThreadPc, NEW m \in Slates \cup {None}
                  PROVE  [r EXCEPT !.pc = p, !.cur = m] \in Thread
BY DEF Thread

LEMMA RunningTyped == ASSUME NEW r \in Thread, NEW p \in ThreadPc, NEW b \in BOOLEAN
                      PROVE  /\ [r EXCEPT !.pc = p, !.running = b] \in Thread
                             /\ [r EXCEPT !.pc = p, !.running = b, !.closing = FALSE] \in Thread
BY DEF Thread

LEMMA StoppedTyped == ASSUME NEW r \in Thread, NEW b \in BOOLEAN
                      PROVE  [r EXCEPT !.running = FALSE, !.closing = r.closing \/ b] \in Thread
BY DEF Thread

LEMMA StartedTyped == ASSUME NEW r \in Thread, NEW p \in ThreadPc, NEW i \in Interface
                      PROVE  [r EXCEPT !.iface = i, !.pc = p] \in Thread
BY DEF Thread

LEMMA BatchTyped == ASSUME NEW r \in Thread, NEW p \in ThreadPc,
                           NEW m \in Slates \cup {None}, NEW b \in SUBSET Slates
                    PROVE  /\ [r EXCEPT !.pc = p, !.subscribed = TRUE, !.batch = b] \in Thread
                           /\ [r EXCEPT !.pc = p, !.cur = m, !.batch = r.batch \ {m}] \in Thread
BY DEF Thread

LEMMA BecomeTyped ==
    ASSUME TypeOK, NEW t \in Threads, NEW r \in Thread, Become(t, r)
    PROVE  threads' \in [Threads -> Thread]
BY DEF TypeOK, Become

LEMMA ListenersInit == ASSUME Init PROVE IInv
BY ListenersAssumption, SMT
   DEF Init, IInv, TypeOK, Agreement, Flow, SenderKept, StoppedIsQuiet,
       RecordedIsAnswered, GrinboxSurvives, Thread, ThreadPc, Unused, Pc, Is, Alive, None,
       Interface, Ended, GrinboxPc, KeybasePc, SlatePc, Slates

-----------------------------------------------------------------------------
(* The types.                                                              *)

LEMMA ThreadsTyped == ASSUME IInv, Next PROVE threads' \in [Threads -> Thread]
<1> USE DEF IInv
<1>1. \A t \in Threads : threads[t] \in Thread
  BY DEF TypeOK
<1>2. \A pc \in {"connect", "online", "returned", "backoff", "begin", "poll", "fetch", "next",
                 "sleep", "handling", "inside", "replying", "done", "panicked"} : pc \in ThreadPc
  BY DEF ThreadPc, Ended, GrinboxPc, KeybasePc, SlatePc
<1>3. ASSUME NEW t \in Threads, NEW pc \in ThreadPc, Goto(t, pc)
      PROVE  threads' \in [Threads -> Thread]
  BY <1>1, <1>3, PcTyped, BecomeTyped DEF Goto
<1>4. ASSUME NEW i \in Interface, StartListener(i) PROVE threads' \in [Threads -> Thread]
  <2> DEFINE first == IF i = "Grinbox" THEN "connect" ELSE "begin"
  <2>1. PICK t \in Threads : Become(t, [threads[t] EXCEPT !.iface = i, !.pc = first])
    BY <1>4 DEF StartListener
  <2>2. first \in ThreadPc
    BY <1>2
  <2> HIDE DEF first
  <2>3. [threads[t] EXCEPT !.iface = i, !.pc = first] \in Thread
    BY <1>1, <2>2, StartedTyped
  <2> QED BY <2>1, <2>3, BecomeTyped
<1>5. ASSUME NEW i \in Interface, SignalStop(i) PROVE threads' \in [Threads -> Thread]
  <2> DEFINE t == listeners[i]
             online == i = "Grinbox" /\ threads[t].running /\ Pc(t) \in SlatePc \cup {"online"}
             stopped == [threads[t] EXCEPT !.running = FALSE, !.closing = threads[t].closing \/ online]
  <2>1. t \in Threads
    BY <1>5 DEF TypeOK, Agreement, SignalStop
  <2>2. Become(t, stopped)
    BY <1>5 DEF SignalStop
  <2>3. stopped \in Thread
    <3>1. online \in BOOLEAN
      OBVIOUS
    <3> HIDE DEF online
    <3> QED BY <1>1, <2>1, <3>1, StoppedTyped
  <2> HIDE DEF t, stopped
  <2> QED BY <2>1, <2>2, <2>3, BecomeTyped
<1>6. ASSUME NEW t \in Threads, HandleSlate(t) \/ ReceiveFails(t) \/ ReplySent(t)
      PROVE  threads' \in [Threads -> Thread]
  <2>1. Resume(t) \in ThreadPc
    BY <1>2 DEF Resume
  <2>2. [threads[t] EXCEPT !.pc = Resume(t), !.cur = None] \in Thread
    BY <1>1, <2>1, CurTyped
  <2> QED BY <1>6, <2>2, BecomeTyped DEF HandleSlate, ReceiveFails, ReplySent
<1>7. ASSUME NEW t \in Threads, Connect(t) \/ Begin(t) PROVE threads' \in [Threads -> Thread]
  <2>1. /\ [threads[t] EXCEPT !.pc = "poll", !.running = TRUE] \in Thread
        /\ [threads[t] EXCEPT !.pc = "online", !.running = TRUE, !.closing = FALSE] \in Thread
    BY <1>1, <1>2, RunningTyped
  <2> QED BY <1>7, <2>1, BecomeTyped DEF Connect, Begin
<1>8. ASSUME NEW t \in Threads, Deliver(t) PROVE threads' \in [Threads -> Thread]
  <2>1. PICK m \in Slates : Become(t, [threads[t] EXCEPT !.pc = "handling", !.cur = m])
    BY <1>8 DEF Deliver, Slates
  <2>2. [threads[t] EXCEPT !.pc = "handling", !.cur = m] \in Thread
    BY <1>1, <1>2, CurTyped
  <2> QED BY <2>1, <2>2, BecomeTyped
<1>9. ASSUME NEW t \in Threads, Fetch(t) PROVE threads' \in [Threads -> Thread]
  <2> DEFINE unread == inbox \cap KeybaseSlates
  <2>1. unread \in SUBSET Slates
    BY DEF Slates
  <2>2. Become(t, [threads[t] EXCEPT !.pc = "next", !.subscribed = TRUE, !.batch = unread])
    BY <1>9 DEF Fetch
  <2> HIDE DEF unread
  <2>3. [threads[t] EXCEPT !.pc = "next", !.subscribed = TRUE, !.batch = unread] \in Thread
    BY <1>1, <1>2, <2>1, BatchTyped
  <2> QED BY <2>2, <2>3, BecomeTyped
<1>10. ASSUME NEW t \in Threads, NextMessage(t) PROVE threads' \in [Threads -> Thread]
  <2>1. CASE threads[t].batch = {}
    BY <1>2, <1>3, <1>10, <2>1 DEF NextMessage
  <2>2. CASE threads[t].batch # {}
    <3>1. PICK m \in threads[t].batch :
            Become(t, [threads[t] EXCEPT !.pc = IF m \in Junk THEN "panicked" ELSE "handling",
                                         !.cur = m, !.batch = threads[t].batch \ {m}])
      BY <1>10, <2>2 DEF NextMessage
    <3> DEFINE next == IF m \in Junk THEN "panicked" ELSE "handling"
    <3>2. next \in ThreadPc /\ m \in Slates
      BY <1>1, <1>2, <3>1 DEF Thread
    <3>3. Become(t, [threads[t] EXCEPT !.pc = next, !.cur = m, !.batch = threads[t].batch \ {m}])
      BY <3>1
    <3> HIDE DEF next
    <3>4. [threads[t] EXCEPT !.pc = next, !.cur = m, !.batch = threads[t].batch \ {m}] \in Thread
      BY <1>1, <3>2, BatchTyped
    <3> QED BY <3>3, <3>4, BecomeTyped
  <2> QED BY <2>1, <2>2
<1>11. ASSUME NEW t \in Threads,
              \/ Acquire(t) \/ EchoSlate(t) \/ ReceiveSlate(t) \/ ReplyFails(t)
              \/ ConnectFails(t) \/ Disconnect(t) \/ AfterConnection(t) \/ Reconnect(t)
              \/ Poll(t) \/ FetchFails(t) \/ Wake(t)
       PROVE  threads' \in [Threads -> Thread]
  BY <1>2, <1>3, <1>11 DEF Acquire, EchoSlate, ReceiveSlate, ReplyFails, ConnectFails, Disconnect,
       AfterConnection, Reconnect, Poll, FetchFails, Wake
<1>12. ASSUME UNCHANGED threads PROVE threads' \in [Threads -> Thread]
  BY <1>12 DEF TypeOK
<1> QED BY <1>4, <1>5, <1>6, <1>7, <1>8, <1>9, <1>10, <1>11, <1>12
        DEF Next, Cli, Run, OnSlate, GrinboxSubscribe, KeybaseStart, Stop, FinishStop,
            OtherCall, OtherReturns

-----------------------------------------------------------------------------
(* The invariant.                                                          *)

LEMMA StopTyped == ASSUME IInv, NEW S \in SUBSET Interface, Stop(S) PROVE TypeOK'
<1>1. toStop' \subseteq Interface
  BY DEF Stop
<1> QED BY <1>1 DEF IInv, Stop, TypeOK, slates

LEMMA FinishAgrees == ASSUME IInv, FinishStop PROVE Agreement'
<1>1. lock = "cli" /\ (lock' = lock \/ toStop = {})
  BY DEF IInv, FinishStop, Agreement
<1> QED BY <1>1, ListenersAssumption, SMTT(30) DEF IInv, FinishStop, Agreement, Pc, Is, None

LEMMA InvariantKept == ASSUME IInv, Next PROVE IInv'
<1> USE ListenersAssumption
    DEF IInv, TypeOK, Agreement, Flow, SenderKept, StoppedIsQuiet, RecordedIsAnswered,
        GrinboxSurvives, Pc, Is, Alive, Goto, Become, owner, slates, None, Slates, Thread,
        Interface, Ended, GrinboxPc, KeybasePc, SlatePc
<1>1. threads' \in [Threads -> Thread]
  BY ThreadsTyped
<1>2. ASSUME NEW i \in Interface, StartListener(i) PROVE IInv'
  <2>1. PICK t \in Threads :
          /\ Pc(t) = "unused"
          /\ Become(t, [threads[t] EXCEPT !.iface = i,
                            !.pc = IF i = "Grinbox" THEN "connect" ELSE "begin"])
          /\ listeners' = [listeners EXCEPT ![i] = t]
    BY <1>2 DEF StartListener
  <2>2. /\ lock = None /\ listeners[i] = None
        /\ UNCHANGED <<lock, toStop, joining, slates>>
    BY <1>2 DEF StartListener
  <2>3. TypeOK'
    BY <1>1, <2>1, <2>2
  <2>4. Agreement'
    <3>1. threads'[t].iface = i /\ threads'[t].pc \notin {"inside", "unused"}
      BY <2>1
    <3>2. \A u \in Threads \ {t} : threads'[u] = threads[u]
      BY <2>1
    <3>3. (\A j \in Interface : listeners[j] \in Threads =>
              Is(listeners[j], j) /\ Pc(listeners[j]) # "unused")'
      <4> SUFFICES ASSUME NEW j \in Interface, listeners'[j] \in Threads
                   PROVE  /\ threads'[listeners'[j]].iface = j
                          /\ threads'[listeners'[j]].pc # "unused"
        OBVIOUS
      <4>1. CASE j = i
        BY <2>1, <3>1, <4>1
      <4>2. CASE j # i
        <5>1. /\ listeners'[j] = listeners[j] /\ threads[listeners[j]].iface = j
              /\ threads[listeners[j]].pc # "unused"
          BY <2>1, <4>2
        <5> QED BY <2>1, <3>2, <5>1
      <4> QED BY <4>1, <4>2
    <3> QED BY <2>1, <2>2, <3>1, <3>2, <3>3
  <2>5. (Flow /\ SenderKept)'
    BY <2>1, <2>2
  <2>6. (StoppedIsQuiet /\ GrinboxSurvives)'
    BY <2>1, <2>2
  <2>7. RecordedIsAnswered'
    BY <2>1, <2>2
  <2> QED BY <2>3, <2>4, <2>5, <2>6, <2>7
<1>3. ASSUME NEW S \in SUBSET Interface, Stop(S) PROVE IInv'
  <2>1. TypeOK'
    BY <1>3, StopTyped
  <2>2. Agreement'
    BY <1>1, <1>3, SMTT(60) DEF Stop
  <2>3. Flow'
    BY <1>1, <1>3, SMTT(60) DEF Stop
  <2>4. (SenderKept /\ GrinboxSurvives)'
    BY <1>1, <1>3, SMTT(60) DEF Stop
  <2>5. StoppedIsQuiet'
    BY <1>1, <1>3, SMTT(60) DEF Stop
  <2>6. RecordedIsAnswered'
    BY <1>1, <1>3, SMTT(60) DEF Stop
  <2> QED BY <2>1, <2>2, <2>3, <2>4, <2>5, <2>6
<1>4. ASSUME NEW i \in Interface, SignalStop(i) PROVE IInv'
  <2>1. TypeOK'
    BY <1>1, <1>4, SMTT(60) DEF SignalStop
  <2>2. Agreement'
    BY <1>1, <1>4, SMTT(60) DEF SignalStop
  <2>3. Flow'
    BY <1>1, <1>4, SMTT(60) DEF SignalStop
  <2>4. (SenderKept /\ GrinboxSurvives)'
    BY <1>1, <1>4, SMTT(60) DEF SignalStop
  <2>5. StoppedIsQuiet'
    BY <1>1, <1>4, SMTT(60) DEF SignalStop
  <2>6. RecordedIsAnswered'
    BY <1>1, <1>4, SMTT(60) DEF SignalStop
  <2> QED BY <2>1, <2>2, <2>3, <2>4, <2>5, <2>6
<1>5. ASSUME FinishStop PROVE IInv'
  <2>1. TypeOK'
    BY <1>1, <1>5, SMTT(60) DEF FinishStop, Joined
  <2>2. Agreement'
    BY <1>5, FinishAgrees
  <2>3. Flow'
    BY <1>1, <1>5, SMTT(60) DEF FinishStop, Joined
  <2>4. (SenderKept /\ GrinboxSurvives)'
    BY <1>1, <1>5, SMTT(60) DEF FinishStop, Joined
  <2>5. StoppedIsQuiet'
    BY <1>1, <1>5, SMTT(60) DEF FinishStop, Joined
  <2>6. RecordedIsAnswered'
    BY <1>1, <1>5, SMTT(60) DEF FinishStop, Joined
  <2> QED BY <2>1, <2>2, <2>3, <2>4, <2>5, <2>6
<1>6. ASSUME OtherCall \/ OtherReturns PROVE IInv'
  BY <1>1, <1>6, SMTT(60) DEF OtherCall, OtherReturns
<1>7. ASSUME NEW t \in Threads, Acquire(t) PROVE IInv'
  BY <1>1, <1>7, SMTT(60) DEF Acquire, Available
<1>8. ASSUME NEW t \in Threads, ReceiveSlate(t) PROVE IInv'
  BY <1>1, <1>8, SMTT(60) DEF ReceiveSlate
<1>9. ASSUME NEW t \in Threads, EchoSlate(t) PROVE IInv'
  BY <1>1, <1>9, SMTT(60) DEF EchoSlate
<1>10. ASSUME NEW t \in Threads, ReceiveFails(t) PROVE IInv'
  BY <1>1, <1>10, SMTT(60) DEF ReceiveFails, Resume
<1>11. ASSUME NEW t \in Threads, HandleSlate(t) PROVE IInv'
  BY <1>1, <1>11, SMTT(60) DEF HandleSlate, Resume
<1>12. ASSUME NEW t \in Threads, ReplySent(t) PROVE IInv'
  BY <1>1, <1>12, SMTT(60) DEF ReplySent, Resume
<1>13. ASSUME NEW t \in Threads, ReplyFails(t) PROVE IInv'
  BY <1>1, <1>13, SMTT(60) DEF ReplyFails
<1>14. ASSUME NEW t \in Threads, Connect(t) PROVE IInv'
  BY <1>1, <1>14, SMTT(60) DEF Connect
<1>15. ASSUME NEW t \in Threads, ConnectFails(t) PROVE IInv'
  BY <1>1, <1>15, SMTT(60) DEF ConnectFails
<1>16. ASSUME NEW t \in Threads, Deliver(t) PROVE IInv'
  BY <1>1, <1>16, SMTT(60) DEF Deliver
<1>17. ASSUME NEW t \in Threads, Disconnect(t) PROVE IInv'
  BY <1>1, <1>17, SMTT(60) DEF Disconnect
<1>18. ASSUME NEW t \in Threads, AfterConnection(t) PROVE IInv'
  BY <1>1, <1>18, SMTT(60) DEF AfterConnection
<1>19. ASSUME NEW t \in Threads, Reconnect(t) PROVE IInv'
  BY <1>1, <1>19, SMTT(60) DEF Reconnect
<1>20. ASSUME NEW t \in Threads, Begin(t) PROVE IInv'
  BY <1>1, <1>20, SMTT(60) DEF Begin
<1>21. ASSUME NEW t \in Threads, Poll(t) PROVE IInv'
  BY <1>1, <1>21, SMTT(60) DEF Poll
<1>22. ASSUME NEW t \in Threads, Fetch(t) PROVE IInv'
  BY <1>1, <1>22, SMTT(60) DEF Fetch
<1>23. ASSUME NEW t \in Threads, FetchFails(t) PROVE IInv'
  BY <1>1, <1>23, SMTT(60) DEF FetchFails
<1>24. ASSUME NEW t \in Threads, NextMessage(t) PROVE IInv'
  <2>1. CASE threads[t].batch = {}
    BY <1>1, <1>24, <2>1, SMTT(60) DEF NextMessage
  <2>2. CASE threads[t].batch # {}
    <3>1. PICK m \in threads[t].batch :
            Become(t, [threads[t] EXCEPT !.pc = IF m \in Junk THEN "panicked" ELSE "handling",
                                         !.cur = m, !.batch = threads[t].batch \ {m}])
      BY <1>24, <2>2 DEF NextMessage
    <3>2. /\ Pc(t) = "next" /\ Is(t, "Keybase") /\ m \in Slates
          /\ UNCHANGED <<owner, slates>>
      BY <1>24, <3>1 DEF NextMessage
    <3>3. TypeOK'
      BY <1>1, <3>2
    <3>4. (Agreement /\ Flow)'
      BY <1>1, <3>1, <3>2, SMTT(60)
    <3>5. (SenderKept /\ GrinboxSurvives)'
      BY <1>1, <3>1, <3>2, SMTT(60)
    <3>6. StoppedIsQuiet'
      BY <1>1, <3>1, <3>2, SMTT(60)
    <3>7. RecordedIsAnswered'
      BY <1>1, <3>1, <3>2, SMTT(60)
    <3> QED BY <3>3, <3>4, <3>5, <3>6, <3>7
  <2> QED BY <2>1, <2>2
<1>25. ASSUME NEW t \in Threads, Wake(t) PROVE IInv'
  BY <1>1, <1>25, SMTT(60) DEF Wake
<1> HIDE DEF IInv, TypeOK, Agreement, Flow, SenderKept, StoppedIsQuiet, RecordedIsAnswered,
             GrinboxSurvives, Become, Thread, Slates
<1> QED BY <1>2, <1>3, <1>4, <1>5, <1>6, <1>7, <1>8, <1>9, <1>10, <1>11, <1>12, <1>13,
           <1>14, <1>15, <1>16, <1>17, <1>18, <1>19, <1>20, <1>21, <1>22, <1>23, <1>24, <1>25
        DEF Next, Cli, Run, OnSlate, GrinboxSubscribe, KeybaseStart

-----------------------------------------------------------------------------
(* The theorems.                                                           *)

\* IInv is inductive.
THEOREM IInvHolds == Spec => []IInv
<1>1. Init => IInv
  BY ListenersInit
<1>2. IInv /\ [Next]_vars => IInv'
  <2>1. CASE Next
    BY <2>1, InvariantKept
  <2>2. CASE UNCHANGED vars
    BY <2>2 DEF vars, owner, slates, IInv, TypeOK, Agreement, Flow, SenderKept, StoppedIsQuiet,
       RecordedIsAnswered, GrinboxSurvives, Pc, Is, Alive
  <2> QED BY <2>1, <2>2
<1> QED BY <1>1, <1>2, PTL DEF Spec

\* The records keep their shapes, and a request with inputs is answered only when
\* receive_tx has recorded it (broker/types.rs).
THEOREM ListenersTyped == Spec => []TypeOK
BY IInvHolds, PTL DEF IInv

\* A listener that stop_listener removed is stopped (owner.rs, listener.rs): of the
\* threads that still run, each is the one its interface maps to or the one being
\* joined, for any number of starts and stops.
THEOREM StoppedListenersAreQuiet == Spec => []StoppedIsQuiet
BY IInvHolds, PTL DEF IInv

\* The container mutex serialises what the listeners do to the wallet: a thread
\* inside a call has the mutex, is in the map, and no stop call waits meanwhile.
THEOREM CallsDoNotOverlap == Spec => []OneCallAtATime
<1>1. IInv => OneCallAtATime
  BY ListenersAssumption DEF IInv, Agreement, TypeOK, StoppedIsQuiet, OneCallAtATime,
     Pc, Alive, Ended, None
<1> QED BY <1>1, IInvHolds, PTL

\* receive_tx commits before it has finished and before the answer is sent (tx.rs,
\* broker/types.rs): a request recorded in the wallet is answered, or the call
\* failed after its commit, or its thread died answering it.
THEOREM RecordedRequestsAreAnswered == Spec => []RecordedIsAnswered
BY IInvHolds, PTL DEF IInv

\* A grinbox listener the map names never died of a failed answer (grinbox.rs,
\* post_slate): inner is emptied by a stop only.
THEOREM GrinboxListenersSurvive == Spec => []GrinboxSurvives
BY IInvHolds, PTL DEF IInv
=============================================================================

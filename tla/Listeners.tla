----------------------------- MODULE Listeners ------------------------------
(***************************************************************************)
(* The Grinbox and Keybase listeners: one thread each, started and stopped *)
(* from the command line, delivering slates to the wallet and sending the  *)
(* answers back.  All of them, the command line and the HTTP workers share *)
(* one lock, the container mutex: a wallet call holds it for the whole     *)
(* call, and stop_listener holds it while it waits for the thread to end.  *)
(*                                                                         *)
(* The HTTP listeners are left out: stopping one waits for nothing, and    *)
(* their workers are among the "other" holders of the lock.  What a slate  *)
(* does to the wallet is WalletLedger's; here a call has an answer to send *)
(* (a receive) or has none (a finalize, or any error).  A request without  *)
(* inputs is sent back as it came, without any call.                       *)
(***************************************************************************)
EXTENDS Naturals

CONSTANTS
    Threads,        \* bound: threads a process may spawn
    GrinboxSlates,  \* slates waiting for the wallet at the grinbox relay
    KeybaseSlates,  \* messages waiting in the keybase channels
    Junk,           \* those of KeybaseSlates that do not parse as a slate
    NoInputs        \* those that are requests without inputs

ASSUME ListenersAssumption ==
    /\ GrinboxSlates \cap KeybaseSlates = {}
    /\ Junk \subseteq KeybaseSlates
    /\ NoInputs \subseteq (GrinboxSlates \cup KeybaseSlates) \ Junk
    /\ {"none", "cli", "other"} \cap Threads = {}

VARIABLES
    lock,       \* who holds the container mutex
    listeners,  \* container.listeners: the thread of each interface
    toStop,     \* the interfaces the running stop call has yet to signal
    joining,    \* the thread that call is waiting for
    threads,
    inbox,      \* what the relay and keybase have not handed over yet
    received,   \* requests the wallet has recorded (receive_tx committed)
    failed,     \* history: those of them whose receive_tx failed after that
    answered    \* requests whose answer was sent

owner == <<lock, listeners, toStop, joining>>
slates == <<inbox, received, failed, answered>>
vars == <<owner, threads, slates>>

-----------------------------------------------------------------------------
None == "none"
Interface == {"Grinbox", "Keybase"}
Slates == GrinboxSlates \cup KeybaseSlates

Ended == {"done", "panicked"}
GrinboxPc == {"connect", "online", "returned", "backoff"}
KeybasePc == {"begin", "poll", "fetch", "next", "sleep"}
SlatePc == {"handling", "inside", "replying"}
ThreadPc == {"unused"} \cup Ended \cup GrinboxPc \cup KeybasePc \cup SlatePc

Thread ==
    [iface : Interface \cup {None},
     pc : ThreadPc,
     running : BOOLEAN,     \* inner is Some(sender); the stop signal is false
     closing : BOOLEAN,     \* a close was queued on the connection
     subscribed : BOOLEAN,
     batch : SUBSET Slates,
     cur : Slates \cup {None}]

Unused == [iface |-> None, pc |-> "unused", running |-> FALSE, closing |-> FALSE,
           subscribed |-> FALSE, batch |-> {}, cur |-> None]

Pc(t) == threads[t].pc
Is(t, iface) == threads[t].iface = iface
Alive(t) == Pc(t) \notin {"unused"} \cup Ended
Become(t, thread) == threads' = [threads EXCEPT ![t] = thread]
Goto(t, pc) == Become(t, [threads[t] EXCEPT !.pc = pc])

Init ==
    /\ lock = None
    /\ listeners = [i \in Interface |-> None]
    /\ toStop = {} /\ joining = None
    /\ threads = [t \in Threads |-> Unused]
    /\ inbox = Slates
    /\ received = {} /\ failed = {} /\ answered = {}

-----------------------------------------------------------------------------
(* The owner of the listeners: one thread, the command line.               *)

\* start_listener: refused while the interface is in the map.
StartListener(i) ==
    /\ lock = None
    /\ listeners[i] = None
    /\ \E t \in Threads :
        /\ Pc(t) = "unused"
        /\ Become(t, [threads[t] EXCEPT !.iface = i,
                            !.pc = IF i = "Grinbox" THEN "connect" ELSE "begin"])
        /\ listeners' = [listeners EXCEPT ![i] = t]
    /\ UNCHANGED <<lock, toStop, joining, slates>>

\* stop_listener (one interface) and stop_listeners (all of them).
Stop(S) ==
    /\ lock = None
    /\ lock' = "cli"
    /\ toStop' = {i \in S : listeners[i] # None}
    /\ toStop' # {}
    /\ UNCHANGED <<listeners, joining, threads, slates>>

\* Signal the thread, in the state it happens to be in.  A grinbox thread is
\* told through the sender of its last connection; closing one that is over
\* has no effect.
SignalStop(i) ==
    LET t == listeners[i]
    IN  /\ lock = "cli" /\ joining = None /\ i \in toStop
        /\ Become(t, [threads[t] EXCEPT
                !.running = FALSE,
                !.closing = @ \/ /\ i = "Grinbox" /\ threads[t].running
                                 /\ Pc(t) \in SlatePc \cup {"online"}])
        /\ listeners' = [listeners EXCEPT ![i] = None]
        /\ toStop' = toStop \ {i}
        /\ joining' = t
        /\ UNCHANGED <<lock, slates>>

\* Mutant: the call does not wait for the thread.
JoinedAtOnce == TRUE
Joined == Pc(joining) \in Ended

\* join returns, with an error when the thread panicked; it is ignored.
FinishStop ==
    /\ joining # None
    /\ Joined
    /\ joining' = None
    /\ lock' = IF toStop = {} THEN None ELSE lock
    /\ UNCHANGED <<listeners, toStop, threads, slates>>

\* A command or an HTTP request: one wallet call.
OtherCall == lock = None /\ lock' = "other" /\ UNCHANGED <<listeners, toStop, joining, threads, slates>>
OtherReturns == lock = "other" /\ lock' = None /\ UNCHANGED <<listeners, toStop, joining, threads, slates>>

-----------------------------------------------------------------------------
(* A slate in the hands of a listener: Controller::on_slate.               *)

\* Where the thread goes on after the slate.
Resume(t) == IF Is(t, "Grinbox") THEN "online" ELSE "next"

\* Mutant: the mutex is not waited for.
AvailableUnlocked == TRUE
Available == lock = None

Acquire(t) ==
    /\ Pc(t) = "handling" /\ threads[t].cur \notin NoInputs /\ Available
    /\ lock' = t
    /\ Goto(t, "inside")
    /\ UNCHANGED <<listeners, toStop, joining, slates>>

\* process_incoming_slate does nothing with a request that has no inputs; it goes
\* back to its sender.
EchoSlate(t) ==
    /\ Pc(t) = "handling" /\ threads[t].cur \in NoInputs
    /\ Goto(t, "replying")
    /\ UNCHANGED <<owner, slates>>

\* Mutants: the slate is answered but not recorded; the mutex is kept.
ReceiveUnrecorded(t) ==
    /\ Pc(t) = "inside"
    /\ lock' = None
    /\ Goto(t, "replying")
    /\ UNCHANGED <<listeners, toStop, joining, slates>>
ReceiveLocked(t) ==
    /\ Pc(t) = "inside"
    /\ received' = received \cup {threads[t].cur}
    /\ Goto(t, "replying")
    /\ UNCHANGED <<owner, inbox, failed, answered>>

\* receive_tx recorded the slate; the lock is released before the answer.
ReceiveSlate(t) ==
    /\ Pc(t) = "inside"
    /\ received' = received \cup {threads[t].cur}
    /\ lock' = None
    /\ Goto(t, "replying")
    /\ UNCHANGED <<listeners, toStop, joining, inbox, failed, answered>>

\* receive_tx recorded the slate and then fails (the signature, the fees, the
\* stored excess): the error is only displayed, and the record stays.
ReceiveFails(t) ==
    /\ Pc(t) = "inside"
    /\ received' = received \cup {threads[t].cur}
    /\ failed' = failed \cup {threads[t].cur}
    /\ lock' = None
    /\ Become(t, [threads[t] EXCEPT !.pc = Resume(t), !.cur = None])
    /\ UNCHANGED <<listeners, toStop, joining, inbox, answered>>

\* finalize_tx, or an error of either call before anything is recorded, which is
\* only displayed.
HandleSlate(t) ==
    /\ Pc(t) = "inside"
    /\ lock' = None
    /\ Become(t, [threads[t] EXCEPT !.pc = Resume(t), !.cur = None])
    /\ UNCHANGED <<listeners, toStop, joining, slates>>

ReplySent(t) ==
    /\ Pc(t) = "replying"
    /\ Is(t, "Grinbox") => threads[t].running
    /\ answered' = answered \cup {threads[t].cur}
    /\ Become(t, [threads[t] EXCEPT !.pc = Resume(t), !.cur = None])
    /\ UNCHANGED <<owner, inbox, received, failed>>

\* Mutants: the error is swallowed and the thread goes on; an answer may fail
\* on a grinbox listener that was not stopped.
ReplyFailsQuietly(t) ==
    /\ Pc(t) = "replying"
    /\ Is(t, "Grinbox") => ~threads[t].running
    /\ Become(t, [threads[t] EXCEPT !.pc = Resume(t), !.cur = None])
    /\ UNCHANGED <<owner, slates>>

ReplyFailsAnyTime(t) ==
    /\ Pc(t) = "replying"
    /\ Goto(t, "panicked")
    /\ UNCHANGED <<owner, slates>>

\* post_slate refuses once the grinbox listener was stopped; keybase may fail to
\* send at any time.  Either way expect() ends the thread.
ReplyFails(t) ==
    /\ Pc(t) = "replying"
    /\ Is(t, "Grinbox") => ~threads[t].running
    /\ Goto(t, "panicked")
    /\ UNCHANGED <<owner, slates>>

OnSlate(t) ==
    \/ EchoSlate(t)
    \/ ReceiveSlate(t) \/ ReceiveFails(t) \/ HandleSlate(t)
    \/ ReplySent(t) \/ ReplyFails(t)

-----------------------------------------------------------------------------
(* GrinboxBroker::subscribe.                                               *)

\* connect() hands its sender to the broker before the connection is up.
Connect(t) ==
    /\ Pc(t) = "connect"
    /\ Become(t, [threads[t] EXCEPT !.pc = "online", !.running = TRUE, !.closing = FALSE])
    /\ UNCHANGED <<owner, slates>>

\* The address does not resolve: no sender.
ConnectFails(t) ==
    /\ Pc(t) = "connect"
    /\ Goto(t, "returned")
    /\ UNCHANGED <<owner, slates>>

Deliver(t) ==
    /\ Pc(t) = "online"
    /\ \E m \in inbox \cap GrinboxSlates :
        /\ inbox' = inbox \ {m}
        /\ Become(t, [threads[t] EXCEPT !.pc = "handling", !.cur = m])
    /\ UNCHANGED <<owner, received, failed, answered>>

\* The connection is refused, lost, or closed by us.
Disconnect(t) ==
    /\ Pc(t) = "online"
    /\ Goto(t, "returned")
    /\ UNCHANGED <<owner, slates>>

\* The loop takes an empty inner for a stop, and a full one for a lost
\* connection.
AfterConnection(t) ==
    /\ Pc(t) = "returned"
    /\ Goto(t, IF threads[t].running THEN "backoff" ELSE "done")
    /\ UNCHANGED <<owner, slates>>

Reconnect(t) ==
    /\ Pc(t) = "backoff"
    /\ Goto(t, "connect")
    /\ UNCHANGED <<owner, slates>>

GrinboxSubscribe(t) ==
    Connect(t) \/ ConnectFails(t) \/ AfterConnection(t) \/ Reconnect(t)

-----------------------------------------------------------------------------
(* KeybaseSubscriber::start.                                               *)

\* The thread itself clears the stop signal.
Begin(t) ==
    /\ Pc(t) = "begin"
    /\ Become(t, [threads[t] EXCEPT !.pc = "poll", !.running = TRUE])
    /\ UNCHANGED <<owner, slates>>

\* Mutant: the stop signal is looked at only before the first poll.
PollUnchecked(t) ==
    /\ Pc(t) = "poll"
    /\ Goto(t, "fetch")
    /\ UNCHANGED <<owner, slates>>

Poll(t) ==
    /\ Pc(t) = "poll"
    /\ Goto(t, IF threads[t].running THEN "fetch" ELSE "done")
    /\ UNCHANGED <<owner, slates>>

\* get_unread marks the messages of the channels it reads as read.
Fetch(t) ==
    /\ Pc(t) = "fetch"
    /\ Become(t, [threads[t] EXCEPT !.pc = "next", !.subscribed = TRUE,
                                    !.batch = inbox \cap KeybaseSlates])
    /\ inbox' = inbox \ KeybaseSlates
    /\ UNCHANGED <<owner, received, failed, answered>>

\* An error in a later channel discards what the earlier ones gave.  An error
\* before the first success ends the thread.
FetchFails(t) ==
    /\ Pc(t) = "fetch"
    /\ \E lost \in SUBSET (inbox \cap KeybaseSlates) : inbox' = inbox \ lost
    /\ Goto(t, IF threads[t].subscribed THEN "sleep" ELSE "done")
    /\ UNCHANGED <<owner, received, failed, answered>>

\* The next message of the batch, in no order; one that is no slate ends the
\* thread with the rest of the batch.
NextMessage(t) ==
    /\ Pc(t) = "next"
    /\ IF threads[t].batch = {} THEN Goto(t, "sleep")
       ELSE \E m \in threads[t].batch :
                Become(t, [threads[t] EXCEPT
                    !.pc = IF m \in Junk THEN "panicked" ELSE "handling",
                    !.cur = m, !.batch = @ \ {m}])
    /\ UNCHANGED <<owner, slates>>

Wake(t) ==
    /\ Pc(t) = "sleep"
    /\ Goto(t, "poll")
    /\ UNCHANGED <<owner, slates>>

KeybaseStart(t) ==
    Begin(t) \/ Poll(t) \/ Fetch(t) \/ FetchFails(t) \/ NextMessage(t) \/ Wake(t)

-----------------------------------------------------------------------------
Cli ==
    \/ \E i \in Interface : StartListener(i) \/ Stop({i}) \/ SignalStop(i)
    \/ Stop(Interface) \/ FinishStop

Run(t) == OnSlate(t) \/ GrinboxSubscribe(t) \/ KeybaseStart(t)

Next ==
    \/ Cli \/ OtherCall \/ OtherReturns
    \/ \E t \in Threads : Run(t) \/ Acquire(t) \/ Deliver(t) \/ Disconnect(t)

\* A thread runs on, the mutex is not kept from one waiter for ever, a queued
\* close ends its connection, a call returns.  Nobody has to start or stop a
\* listener, the relay to deliver, nor a connection to break.
Fairness ==
    /\ \A t \in Threads :
        /\ WF_vars(Run(t))
        /\ SF_vars(Acquire(t))
        /\ WF_vars(threads[t].closing /\ Disconnect(t))
    /\ WF_vars(OtherReturns)
    /\ WF_vars(FinishStop) /\ \A i \in Interface : WF_vars(SignalStop(i))

Spec == Init /\ [][Next]_vars
FairSpec == Spec /\ Fairness

-----------------------------------------------------------------------------
(* Properties.                                                             *)

\* The shapes of the records; a request that has inputs is answered only when the
\* wallet has recorded it.
TypeOK ==
    /\ lock \in Threads \cup {None, "cli", "other"}
    /\ listeners \in [Interface -> Threads \cup {None}]
    /\ toStop \subseteq Interface
    /\ joining \in Threads \cup {None}
    /\ threads \in [Threads -> Thread]
    /\ inbox \subseteq Slates
    /\ received \subseteq Slates /\ failed \subseteq received
    /\ answered \subseteq received \cup NoInputs

\* A listener that is not in the map is stopped: the only thread that may still
\* run is the one a stop call is waiting for.  So an interface never has two
\* threads answering for one address, whatever is started and stopped, and no
\* slate enters the wallet after stop_listener has returned.
StoppedIsQuiet ==
    \A t \in Threads : Alive(t) => listeners[threads[t].iface] = t \/ joining = t

\* Two wallet calls never overlap, and none runs during a stop: a thread inside
\* the wallet holds the mutex and is a listener the map still names.
OneCallAtATime ==
    \A t \in Threads : Pc(t) = "inside" =>
        /\ lock = t /\ joining = None
        /\ listeners[threads[t].iface] = t

\* A request the wallet has recorded is answered, but for two cases: the call
\* itself failed after its commit, or the listener died on sending the answer.
\* The output is then in the wallet and the sender, who has no answer, cannot
\* send the slate again (it is already received).
RecordedIsAnswered ==
    \A m \in received \ (answered \cup failed) :
        \E t \in Threads : threads[t].cur = m /\ Pc(t) \in {"replying", "panicked"}

\* A grinbox listener dies of a failed answer only when it was stopped.
GrinboxSurvives ==
    \A t \in Threads : Is(t, "Grinbox") /\ Pc(t) = "panicked" =>
        \A i \in Interface : listeners[i] # t

\* A slate that arrived gets its turn at the wallet, as long as its listener is
\* not being stopped.
LockServed ==
    \A t \in Threads : Pc(t) = "handling" ~> Pc(t) # "handling" \/ lock = "cli"

\* A stop call ends, but for two cases: the thread waits for the mutex the call
\* holds, with a slate that needs it, or it has set its flag again after the stop
\* cleared it (a keybase thread that had not begun, a grinbox thread between two
\* connections).
StuckStop ==
    /\ joining # None
    /\ \/ Pc(joining) = "handling" /\ threads[joining].cur \notin NoInputs
       \/ threads[joining].running
StopReturnsUnlessStuck == (lock = "cli") ~> (lock # "cli" \/ StuckStop)

\* "Stop all running listeners": a stop call ends.
StopReturns == (lock = "cli") ~> (lock # "cli")
=============================================================================

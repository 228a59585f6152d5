---------------------------- MODULE SendPipeline ----------------------------
(***************************************************************************)
(* The send path of one Session (ServerCore/Session.cpp).                  *)
(*                                                                         *)
(* Any thread may call Session::Send: the IOCP workers, the game logic     *)
(* thread, the Redis subscriber.  The single _sendEvent (an OVERLAPPED     *)
(* with its owner reference and its pinned buffers) has no lock of its     *)
(* own: the flag _sendRegistered is what keeps two threads, or a thread    *)
(* and the kernel, from using it at once.  The thread whose exchange turns *)
(* the flag on runs RegisterSend; a completion either passes the duty on   *)
(* (queue not empty) or turns the flag off.                                *)
(*                                                                         *)
(* Each action is one critical section or one statement another thread can *)
(* interleave with; pc[t] says which statement of which function thread t  *)
(* runs next.                                                              *)
(***************************************************************************)
EXTENDS Naturals, Sequences, FiniteSets

CONSTANTS
  Threads,             \* threads that call Send or take completions
  MaxSends             \* bound: number of Send calls in a behaviour

ASSUME SendAssumption == MaxSends \in Nat

VARIABLES
  accepted,            \* Send calls made so far; buffer n is the n-th accepted
  sendQueue,           \* _sendQueue
  sendRegistered,      \* _sendRegistered
  connecting,          \* ProcessConnect has yet to look at how ConnectEx ended
  connected,           \* _connected
  evOwner,             \* _sendEvent.owner is not null
  evBuffers,           \* _sendEvent.sendBuffers
  inflight,            \* WSASend calls the kernel has not completed: their buffers
  pc,                  \* next statement of each thread
  wire,                \* history: buffers handed to the socket, in order
  lost,                \* history: buffers of sends that failed at once
  stalled,             \* history: a failed send turned the flag off over a
                       \* queue that was not empty, and no Send came since
  early                \* history: a RegisterSend found the session not yet
                       \* connected and left the flag on

link == <<connecting, connected, early>>
vars == <<accepted, sendQueue, sendRegistered, link, evOwner, evBuffers,
          inflight, pc, wire, lost, stalled>>

\* Statements in which a thread holds the duty to use _sendEvent.
Holding == {"register", "prepare", "drain", "issue", "error", "release",
            "unregister", "sent", "closing", "settle"}
Labels == Holding \cup {"idle"}

Buffers == 1..MaxSends

Init ==
  /\ accepted = 0
  /\ sendQueue = <<>>
  /\ sendRegistered = FALSE
  /\ connecting = TRUE /\ connected = FALSE /\ early = FALSE
  /\ evOwner = FALSE
  /\ evBuffers = <<>>
  /\ inflight = <<>>
  /\ pc = [t \in Threads |-> "idle"]
  /\ wire = <<>>
  /\ lost = {}
  /\ stalled = FALSE

Goto(t, from, to) == pc[t] = from /\ pc' = [pc EXCEPT ![t] = to]

-----------------------------------------------------------------------------
(* Session::Send *)

\* Variant: the flag is set, but the old value is not consulted.
SendIgnoringFlag(t) ==
  /\ accepted < MaxSends
  /\ Goto(t, "idle", "register")
  /\ accepted' = accepted + 1
  /\ sendQueue' = Append(sendQueue, accepted')
  /\ sendRegistered' = TRUE
  /\ stalled' = FALSE
  /\ UNCHANGED <<link, evOwner, evBuffers, inflight, wire, lost>>

\* Push and exchange under the lock; the thread that turned the flag on goes
\* to RegisterSend after the unlock, every other caller is done.
Send(t) ==
  /\ accepted < MaxSends
  /\ Goto(t, "idle", IF sendRegistered THEN "idle" ELSE "register")
  /\ accepted' = accepted + 1
  /\ sendQueue' = Append(sendQueue, accepted')
  /\ sendRegistered' = TRUE
  /\ stalled' = FALSE
  /\ UNCHANGED <<link, evOwner, evBuffers, inflight, wire, lost>>

-----------------------------------------------------------------------------
(* Session::RegisterSend *)

\* if (IsConnected() == false) return: the flag stays on, for good if the
\* connection is yet to come.
CheckConnected(t) ==
  /\ Goto(t, "register", IF connected THEN "prepare" ELSE "idle")
  /\ early' = (early \/ connecting)
  /\ UNCHANGED <<accepted, sendQueue, sendRegistered, connecting, connected,
                 evOwner, evBuffers, inflight, wire, lost, stalled>>

\* _sendEvent.Init(); _sendEvent.owner = shared_from_this()
PrepareEvent(t) ==
  /\ Goto(t, "prepare", "drain")
  /\ evOwner' = TRUE
  /\ UNCHANGED <<accepted, sendQueue, sendRegistered, link, evBuffers,
                 inflight, wire, lost, stalled>>

\* The whole queue moves to the event, under the lock.
DrainQueue(t) ==
  /\ Goto(t, "drain", "issue")
  /\ evBuffers' = evBuffers \o sendQueue
  /\ sendQueue' = <<>>
  /\ UNCHANGED <<accepted, sendRegistered, link, evOwner, inflight, wire,
                 lost, stalled>>

\* WSASend succeeds or pends: a completion will come for it.
IssueSend(t) ==
  /\ Goto(t, "issue", "idle")
  /\ inflight' = Append(inflight, evBuffers)
  /\ wire' = wire \o evBuffers
  /\ UNCHANGED <<accepted, sendQueue, sendRegistered, link, evOwner,
                 evBuffers, lost, stalled>>

\* WSASend fails at once: no completion will come.
IssueFails(t) ==
  /\ Goto(t, "issue", "error")
  /\ UNCHANGED <<accepted, sendQueue, sendRegistered, link, evOwner,
                 evBuffers, inflight, wire, lost, stalled>>

\* HandleError: the three reset codes disconnect, any other only logs.
HandleError(t) ==
  /\ Goto(t, "error", "release")
  /\ connected' \in {connected, FALSE}
  /\ UNCHANGED <<accepted, sendQueue, sendRegistered, connecting, early, evOwner,
                 evBuffers, inflight, wire, lost, stalled>>

\* owner = nullptr; sendBuffers.clear()
ReleaseFailed(t) ==
  /\ Goto(t, "release", "unregister")
  /\ evOwner' = FALSE
  /\ evBuffers' = <<>>
  /\ lost' = lost \cup {evBuffers[i] : i \in 1..Len(evBuffers)}
  /\ UNCHANGED <<accepted, sendQueue, sendRegistered, link, inflight,
                 wire, stalled>>

\* _sendRegistered.store(false), outside the lock and without a look at the queue.
Unregister(t) ==
  /\ Goto(t, "unregister", "idle")
  /\ sendRegistered' = FALSE
  /\ stalled' = (sendQueue # <<>>)
  /\ UNCHANGED <<accepted, sendQueue, link, evOwner, evBuffers, inflight,
                 wire, lost>>

-----------------------------------------------------------------------------
(* IocpCore::Dispatch, Session::ProcessSend *)

\* A worker dequeues the completion of the oldest send; a failed or aborted
\* one reports 0 bytes.
Dispatch(t) ==
  /\ inflight # <<>>
  /\ \/ Goto(t, "idle", "sent")
     \/ Goto(t, "idle", "closing")
  /\ inflight' = Tail(inflight)
  /\ UNCHANGED <<accepted, sendQueue, sendRegistered, link, evOwner,
                 evBuffers, wire, lost, stalled>>

\* Variant: the buffers of the completed send stay in the event.
ReleaseSentKeepingBuffers(t) ==
  /\ evOwner' = FALSE
  /\ \/ Goto(t, "sent", "settle") /\ UNCHANGED connected
     \/ Goto(t, "closing", "idle") /\ connected' = FALSE
  /\ UNCHANGED <<accepted, sendQueue, sendRegistered, connecting, early,
                 evBuffers, inflight, wire, lost, stalled>>

\* owner = nullptr; sendBuffers.clear(); 0 bytes: Disconnect, the flag stays on.
ReleaseSent(t) ==
  /\ evOwner' = FALSE
  /\ evBuffers' = <<>>
  /\ \/ Goto(t, "sent", "settle") /\ UNCHANGED connected
     \/ Goto(t, "closing", "idle") /\ connected' = FALSE
  /\ UNCHANGED <<accepted, sendQueue, sendRegistered, connecting, early,
                 inflight, wire, lost, stalled>>

\* Variant: the flag is turned off in both branches.
SettleAlwaysClearing(t) ==
  /\ Goto(t, "settle", IF sendQueue = <<>> THEN "idle" ELSE "register")
  /\ sendRegistered' = FALSE
  /\ UNCHANGED <<accepted, sendQueue, link, evOwner, evBuffers, inflight,
                 wire, lost, stalled>>

\* Variant: the flag is turned off without a look at the queue.
SettleIgnoringQueue(t) ==
  /\ Goto(t, "settle", "idle")
  /\ sendRegistered' = FALSE
  /\ UNCHANGED <<accepted, sendQueue, link, evOwner, evBuffers, inflight,
                 wire, lost, stalled>>

\* Variant: nobody registers the send of what was queued meanwhile.
SettleWithoutRegister(t) ==
  /\ Goto(t, "settle", "idle")
  /\ sendRegistered' = (sendQueue # <<>>)
  /\ UNCHANGED <<accepted, sendQueue, link, evOwner, evBuffers, inflight,
                 wire, lost, stalled>>

\* Under the lock: empty queue, flag off; else this thread registers again.
Settle(t) ==
  /\ Goto(t, "settle", IF sendQueue = <<>> THEN "idle" ELSE "register")
  /\ sendRegistered' = (sendQueue # <<>>)
  /\ UNCHANGED <<accepted, sendQueue, link, evOwner, evBuffers, inflight,
                 wire, lost, stalled>>

-----------------------------------------------------------------------------
(* Session::ProcessConnect, Session::Disconnect *)

\* The connection is there, or ConnectEx has failed.  A session of a client is
\* sent to only after this; a link to the chat server may be sent to before, when
\* TryReconnect replaces _session between IsConnected and Send.
ProcessConnect(t) ==
  /\ pc[t] = "idle"
  /\ connecting
  /\ connecting' = FALSE
  /\ connected' \in BOOLEAN
  /\ UNCHANGED <<accepted, sendQueue, sendRegistered, early, evOwner, evBuffers,
                 inflight, pc, wire, lost, stalled>>

\* Reached from the receive path or from another call.
Disconnect(t) ==
  /\ pc[t] = "idle"
  /\ connected
  /\ connected' = FALSE
  /\ UNCHANGED <<accepted, sendQueue, sendRegistered, connecting, early, evOwner,
                 evBuffers, inflight, pc, wire, lost, stalled>>

-----------------------------------------------------------------------------

RegisterSend(t) ==
  \/ CheckConnected(t)
  \/ PrepareEvent(t)
  \/ DrainQueue(t)
  \/ IssueSend(t)
  \/ IssueFails(t)
  \/ HandleError(t)
  \/ ReleaseFailed(t)
  \/ Unregister(t)

ProcessSend(t) == ReleaseSent(t) \/ Settle(t)

Next ==
  \E t \in Threads :
    \/ Send(t)
    \/ RegisterSend(t)
    \/ Dispatch(t)
    \/ ProcessSend(t)
    \/ ProcessConnect(t)
    \/ Disconnect(t)

\* A thread inside a call keeps running; the kernel completes every send and
\* the workers, which poll the completion port in a loop, take it.
Fairness ==
  /\ \A t \in Threads : WF_vars(RegisterSend(t) \/ ProcessSend(t))
  /\ WF_vars(\E t \in Threads : Dispatch(t))

Spec == Init /\ [][Next]_vars /\ Fairness

-----------------------------------------------------------------------------
(* Properties *)

\* The values of the variables; checked as a part of Ownership.
TypeOK ==
  /\ accepted \in 0..MaxSends
  /\ sendQueue \in Seq(Buffers)
  /\ sendRegistered \in BOOLEAN
  /\ connecting \in BOOLEAN /\ connected \in BOOLEAN /\ early \in BOOLEAN
  /\ evOwner \in BOOLEAN
  /\ evBuffers \in Seq(Buffers)
  /\ inflight \in Seq(Seq(Buffers) \ {<<>>})
  /\ pc \in [Threads -> Labels]
  /\ wire \in Seq(Buffers)
  /\ lost \subseteq Buffers
  /\ stalled \in BOOLEAN

\* One user of _sendEvent at a time: no two threads between the exchange and
\* the end of their duty, no thread there while the kernel owns the OVERLAPPED,
\* and never two WSASend calls outstanding on it.
SingleFlight ==
  /\ \A t, u \in Threads : pc[t] \in Holding /\ pc[u] \in Holding => t = u
  /\ (\E t \in Threads : pc[t] \in Holding) => inflight = <<>>
  /\ Len(inflight) <= 1

\* While the kernel reads the buffers of a send, the event still references
\* exactly these buffers, and the session (Dispatch dereferences owner).
BuffersPinned ==
  inflight # <<>> => evOwner /\ evBuffers = Head(inflight)

\* No WSASend without a buffer: its completion would report 0 bytes, which
\* ProcessSend takes for a closed connection.
NoEmptySend ==
  \A t \in Threads : pc[t] = "issue" => evBuffers # <<>>

\* Where the duty is, and what the event then holds: the inductive invariant
\* behind the properties above.  The flag is on exactly while somebody, a thread
\* or the kernel, has the duty, except after a RegisterSend without a connection,
\* where it stays on.
Ownership ==
  /\ TypeOK
  /\ SingleFlight
  /\ BuffersPinned
  /\ inflight # <<>> => sendRegistered
  /\ \A t \in Threads : pc[t] \in Holding => sendRegistered
  /\ \A t \in Threads : pc[t] \in {"register", "prepare", "drain"} => sendQueue # <<>>
  /\ \A t \in Threads : pc[t] \in {"issue", "error", "release"} => evBuffers # <<>>
  /\ \A t \in Threads : pc[t] \in {"drain", "issue", "error", "release"} => evOwner
  /\ \A t \in Threads :
       pc[t] \in {"register", "prepare", "drain", "unregister", "settle"} => evBuffers = <<>>
  /\ (\A t \in Threads : pc[t] = "idle") /\ inflight = <<>> => evBuffers = <<>>
  /\ stalled => ~sendRegistered

\* A buffer sits in the queue with the flag off, so that nobody is on the way
\* to send it, only after a send failed at once without a disconnect; the
\* next Send then takes it along.
NoLostWakeup ==
  sendQueue # <<>> /\ ~sendRegistered => stalled

\* Drained and not yet handed over or given up.
Unsent ==
  IF \E t \in Threads : pc[t] \in {"issue", "error", "release"}
  THEN evBuffers ELSE <<>>

Channel == INSTANCE SendChannel WITH pending <- Unsent \o sendQueue

\* The threads, the flag and the completions together implement a lossy FIFO.
ImplementsChannel == Channel!Spec

\* An accepted buffer reaches the socket unless the session closes, a send fails
\* at once, or one was tried before the connection was there.
EverySendSettles ==
  \A b \in Buffers :
    accepted >= b ~> \/ \E i \in 1..Len(wire) : wire[i] = b
                     \/ b \in lost
                     \/ ~connected /\ ~connecting
                     \/ early
                     \/ stalled
=============================================================================

------------------------- MODULE ApplicationMessenger -------------------------
(***************************************************************************)
(* Messages for the main thread (xbmc/ApplicationMessenger.cpp).  Any thread *)
(* may send one and may wait until it has been handled.  The main thread     *)
(* takes them out of two queues once per pass of its loop; a message that    *)
(* opens a modal dialog is handled by a loop of its own, which takes          *)
(* messages again, so that messages are handled while others still are: the  *)
(* main thread is a stack.  TMSG_QUIT stops the program (Application.cpp,     *)
(* Stop), from whichever depth.                                               *)
(*                                                                         *)
(* What runs under the messenger's lock is one step.  The graphics lock is   *)
(* modelled, as other threads hold it when they send; the main thread takes  *)
(* and leaves it within a step.                                              *)
(***************************************************************************)
EXTENDS Integers, Sequences, FiniteSets, SequencesExt

CONSTANTS Threads,     (* all threads but the main thread                        *)
          JoinedAt,    (* where CApplication::Stop waits for a thread to end      *)
          Drawing,     (* the threads that may hold the graphics lock when they send *)
          Messages     (* the messages a thread may send as its first, second...  *)

(* What a message asks for: a short action, a dialog, sent either way          *)
(* (TMSG_GUI_DO_MODAL, TMSG_DIALOG_DOMODAL), or the end of the program.        *)
Kinds == {"action", "modal", "window", "quit"}

(* Stop waits for the jobs and the alarm clock before it sets m_bStop, for the   *)
(* scanners after that and before Cleanup, for the player and the scripts at the  *)
(* end; for other threads it does not wait.                                      *)
Joins == {"join", "cleanup", "unload"}

ASSUME MessengerAssumption ==
  /\ IsFiniteSet(Threads) /\ "main" \notin Threads
  /\ JoinedAt \in [Threads -> Joins \cup {"never"}]
  /\ Drawing \subseteq Threads /\ IsFiniteSet(Messages)
  /\ Messages \subseteq [from : Threads \cup {"main"}, n : Nat \ {0}, kind : Kinds, wait : BOOLEAN]
  /\ \A m \in Messages : m.kind = "quit" => ~m.wait

VARIABLES m_vecMessages, m_vecWindowMessages, m_bStop,
          stack,       (* what the main thread is at: loops, and messages it handles *)
          m_active,    (* the messages whose dialog is open                       *)
          waitEvent,   (* the messages whose event is set                         *)
          pc,          (* of a thread: "run", "queued", "wait", "end"            *)
          msg,         (* the message a thread waits for                          *)
          graphics,    (* the thread that holds the graphics lock                 *)
          restore,     (* those that have to take it again after their wait       *)
          sent,        (* how many messages a thread has sent                     *)
          handled, dropped, abandoned   (* history: what has become of messages   *)

queues == <<m_vecMessages, m_vecWindowMessages>>
main == <<m_bStop, stack, m_active>>
fate == <<handled, dropped, abandoned>>
threads == <<pc, msg, graphics, restore, sent>>
vars == <<queues, main, waitEvent, threads, fate>>

NoMessage == [from |-> "nobody", n |-> 0, kind |-> "none", wait |-> FALSE]
NoThread == "none"

Frame(at, m) == [at |-> at, msg |-> m]
MainLoop == <<Frame("window", NoMessage)>>
Top == stack[Len(stack)]
Below == Front(stack)
At(place) == stack # << >> /\ Top.at = place

Init ==
  /\ m_vecMessages = << >> /\ m_vecWindowMessages = << >> /\ m_bStop = FALSE
  /\ stack = MainLoop /\ m_active = {}
  /\ waitEvent = {} /\ pc = [t \in Threads |-> "run"] /\ msg = [t \in Threads |-> NoMessage]
  /\ graphics = NoThread /\ restore = {}
  /\ sent = [t \in Threads \cup {"main"} |-> 0]
  /\ handled = {} /\ dropped = {} /\ abandoned = {}
-----------------------------------------------------------------------------
(* The other threads                                                        *)

\* Mutated form: the message is put in front.
EnqueueFirst(m) ==
  IF m.kind = "window"
  THEN m_vecWindowMessages' = <<m>> \o m_vecWindowMessages /\ UNCHANGED m_vecMessages
  ELSE m_vecMessages' = <<m>> \o m_vecMessages /\ UNCHANGED m_vecWindowMessages

Enqueue(m) ==
  IF m.kind = "window"
  THEN m_vecWindowMessages' = Append(m_vecWindowMessages, m) /\ UNCHANGED m_vecMessages
  ELSE m_vecMessages' = Append(m_vecMessages, m) /\ UNCHANGED m_vecWindowMessages

\* SendMessage, by a thread that holds the graphics lock or does not: nothing is
\* queued any more once m_bStop is set.
SendMessage(t, m) ==
  /\ pc[t] = "run" /\ m.from = t /\ m.n = sent[t] + 1
  /\ sent' = [sent EXCEPT ![t] = @ + 1]
  /\ graphics' = graphics \/ (t \in Drawing /\ graphics = NoThread /\ graphics' = t)
  /\ IF m_bStop THEN dropped' = dropped \cup {m} /\ UNCHANGED <<queues, pc, msg>>
     ELSE /\ Enqueue(m)
          /\ IF m.wait THEN pc' = [pc EXCEPT ![t] = "queued"] /\ msg' = [msg EXCEPT ![t] = m]
             ELSE UNCHANGED <<pc, msg>>
          /\ UNCHANGED dropped
  /\ UNCHANGED <<main, waitEvent, restore, handled, abandoned>>

\* The sender leaves the graphics lock and waits.
Wait(t) ==
  /\ pc[t] = "queued"
  /\ pc' = [pc EXCEPT ![t] = "wait"]
  /\ graphics' = IF graphics = t THEN NoThread ELSE graphics
  /\ restore' = IF graphics = t THEN restore \cup {t} ELSE restore
  /\ UNCHANGED <<queues, main, waitEvent, msg, sent, fate>>

\* The wait is over; the graphics lock is taken again if it was left.
Return(t) ==
  /\ pc[t] = "wait" /\ msg[t] \in waitEvent
  /\ IF t \in restore THEN graphics = NoThread /\ graphics' = t ELSE UNCHANGED graphics
  /\ restore' = restore \ {t}
  /\ pc' = [pc EXCEPT ![t] = "run"] /\ msg' = [msg EXCEPT ![t] = NoMessage]
  /\ waitEvent' = waitEvent \ {msg[t]}
  /\ UNCHANGED <<queues, main, sent, fate>>

LeaveGraphics(t) ==
  /\ pc[t] = "run" /\ graphics = t
  /\ graphics' = NoThread
  /\ UNCHANGED <<queues, main, waitEvent, pc, msg, restore, sent, fate>>

\* A thread that Stop waits for finishes when it may.
End(t) ==
  /\ pc[t] = "run" /\ graphics # t /\ At(JoinedAt[t])
  /\ pc' = [pc EXCEPT ![t] = "end"]
  /\ UNCHANGED <<queues, main, waitEvent, msg, graphics, restore, sent, fate>>
-----------------------------------------------------------------------------
(* The main thread                                                          *)

\* The message has been handled: its sender is woken.
Done(m, rest) ==
  /\ stack' = rest
  /\ handled' = handled \cup {m}
  /\ waitEvent' = IF m.from # "main" /\ m.wait THEN waitEvent \cup {m} ELSE waitEvent

\* ProcessWindowMessages, first in a pass: the next message, or on to the others.
ProcessWindowMessages ==
  /\ At("window")
  /\ IF m_vecWindowMessages = << >>
     THEN stack' = Append(Below, Frame("message", Top.msg)) /\ UNCHANGED m_vecWindowMessages
     ELSE /\ m_vecWindowMessages' = Tail(m_vecWindowMessages)
          /\ stack' = Append(stack, Frame("handle", Head(m_vecWindowMessages)))
  /\ UNCHANGED <<m_vecMessages, m_bStop, m_active, waitEvent, threads, fate>>

\* Mutated form: the message is removed when it has been handled.
ProcessWithoutPop ==
  /\ At("message")
  /\ IF m_vecMessages = << >>
     THEN stack' = Append(Below, Frame("render", Top.msg))
     ELSE stack' = Append(stack, Frame("handle", Head(m_vecMessages)))
  /\ UNCHANGED <<queues, m_bStop, m_active, waitEvent, threads, fate>>

\* Mutated form: the sender is woken before the message is handled.
ProcessAndWake ==
  /\ At("message")
  /\ IF m_vecMessages = << >>
     THEN stack' = Append(Below, Frame("render", Top.msg)) /\ UNCHANGED <<m_vecMessages, waitEvent>>
     ELSE /\ m_vecMessages' = Tail(m_vecMessages)
          /\ stack' = Append(stack, Frame("handle", Head(m_vecMessages)))
          /\ waitEvent' = waitEvent \cup {m \in {Head(m_vecMessages)} : m.wait}
  /\ UNCHANGED <<m_vecWindowMessages, m_bStop, m_active, threads, fate>>

\* ProcessMessages: the next message, or the pass goes on to its end.
ProcessMessages ==
  /\ At("message")
  /\ IF m_vecMessages = << >>
     THEN stack' = Append(Below, Frame("render", Top.msg)) /\ UNCHANGED m_vecMessages
     ELSE /\ m_vecMessages' = Tail(m_vecMessages)
          /\ stack' = Append(stack, Frame("handle", Head(m_vecMessages)))
  /\ UNCHANGED <<m_vecWindowMessages, m_bStop, m_active, waitEvent, threads, fate>>

\* ProcessMessage of what takes no time.
Act ==
  /\ At("handle") /\ Top.msg.kind = "action"
  /\ Done(Top.msg, Below)
  /\ UNCHANGED <<queues, m_bStop, m_active, threads, dropped, abandoned>>

\* DoModal: the dialog is opened and runs a loop, unless the program stops.
DoModal ==
  /\ At("handle") /\ Top.msg.kind \in {"modal", "window"} /\ graphics = NoThread
  /\ m_active' = m_active \cup {Top.msg}
  /\ IF m_bStop THEN Done(Top.msg, Below)
     ELSE stack' = Append(Below, Frame("window", Top.msg)) /\ UNCHANGED <<waitEvent, handled>>
  /\ UNCHANGED <<queues, m_bStop, threads, dropped, abandoned>>

\* Mutated form: the loop of a dialog ends only when the dialog is closed.
RenderUntilClosed ==
  /\ At("render") /\ (m_bStop \/ graphics = NoThread)
  /\ \/ /\ Top.msg \in m_active \/ (~m_bStop /\ Top.msg = NoMessage)
        /\ stack' = Append(Below, Frame("window", Top.msg))
        /\ UNCHANGED <<handled, waitEvent>>
     \/ /\ Top.msg \notin m_active /\ Top.msg # NoMessage
        /\ Done(Top.msg, Below)
     \/ /\ m_bStop /\ Top.msg = NoMessage
        /\ stack' = << >>
        /\ UNCHANGED <<handled, waitEvent>>
  /\ UNCHANGED <<queues, m_bStop, m_active, threads, dropped, abandoned>>

\* The end of a pass: a frame is drawn, and the loop goes on or ends.
Render ==
  /\ At("render") /\ (m_bStop \/ graphics = NoThread)
  /\ \/ /\ ~m_bStop /\ (Top.msg = NoMessage \/ Top.msg \in m_active)
        /\ stack' = Append(Below, Frame("window", Top.msg))
        /\ UNCHANGED <<handled, waitEvent>>
     \/ /\ m_bStop \/ Top.msg \notin m_active
        /\ Top.msg # NoMessage
        /\ Done(Top.msg, Below)
     \/ /\ m_bStop /\ Top.msg = NoMessage
        /\ stack' = << >>
        /\ UNCHANGED <<handled, waitEvent>>
  /\ UNCHANGED <<queues, m_bStop, m_active, threads, dropped, abandoned>>

\* SendMessage of the main thread itself, from the end of a pass or from within what
\* it handles: one it would wait for is handled on the spot, stopped or not.
SendHere(m) ==
  /\ At("render") \/ At("handle")
  /\ m.from = "main" /\ m.n = sent["main"] + 1
  /\ sent' = [sent EXCEPT !["main"] = @ + 1]
  /\ \/ m.wait /\ stack' = Append(stack, Frame("handle", m)) /\ UNCHANGED <<queues, dropped>>
     \/ ~m.wait /\ ~m_bStop /\ Enqueue(m) /\ UNCHANGED <<stack, dropped>>
     \/ ~m.wait /\ m_bStop /\ dropped' = dropped \cup {m} /\ UNCHANGED <<queues, stack>>
  /\ UNCHANGED <<m_bStop, m_active, waitEvent, pc, msg, graphics, restore, handled, abandoned>>

\* The user closes a dialog; there is no input any more once m_bStop is set.
Close(m) ==
  /\ ~m_bStop
  /\ m_active' = m_active \ {m}
  /\ UNCHANGED <<queues, m_bStop, stack, waitEvent, threads, fate>>

\* What is handled, or the drawing or the input of a loop, throws.  The main loop
\* catches it, whatever the depth, and goes on unless the program stops; or it has
\* caught too many in a row and the program ends.  Stop catches its own.
Throw ==
  /\ At("render") \/ (At("handle") /\ Top.msg.kind # "quit")
  /\ abandoned' = abandoned \cup {stack[i].msg : i \in 2 .. Len(stack)}
  /\ stack' \in IF m_bStop THEN {<< >>} ELSE {MainLoop, << >>}
  /\ UNCHANGED <<queues, m_bStop, m_active, waitEvent, threads, handled, dropped>>
-----------------------------------------------------------------------------
(* CApplication::Stop                                                       *)

\* The threads that Stop waits for where it is have ended.
JoinedHere == \A t \in Threads : JoinedAt[t] = Top.at => pc[t] = "end"

\* CancelJobs waits for the workers, and StopThread for the alarm clock.
Stop ==
  /\ At("handle") /\ Top.msg.kind = "quit"
  /\ stack' = Append(Below, Frame("join", Top.msg))
  /\ UNCHANGED <<queues, m_bStop, m_active, waitEvent, threads, fate>>

\* From here on nothing is queued; StopScanning waits for the scanners.
SetStop ==
  /\ At("join") /\ JoinedHere
  /\ m_bStop' = TRUE
  /\ stack' = Append(Below, Frame("cleanup", Top.msg))
  /\ UNCHANGED <<queues, m_active, waitEvent, threads, fate>>

Queued == Range(m_vecMessages) \cup Range(m_vecWindowMessages)

\* Mutated form: those who wait are not woken.
CleanupSilent ==
  /\ At("cleanup") /\ JoinedHere
  /\ m_vecMessages' = << >> /\ m_vecWindowMessages' = << >>
  /\ dropped' = dropped \cup Queued
  /\ stack' = Append(Below, Frame("unload", Top.msg))
  /\ UNCHANGED <<m_bStop, m_active, waitEvent, threads, handled, abandoned>>

\* Cleanup: what is queued is dropped, and those who wait for it are woken.
Cleanup ==
  /\ At("cleanup") /\ JoinedHere
  /\ m_vecMessages' = << >> /\ m_vecWindowMessages' = << >>
  /\ dropped' = dropped \cup Queued
  /\ stack' = Append(Below, Frame("unload", Top.msg))
  /\ waitEvent' = waitEvent \cup {m \in Queued : m.wait}
  /\ UNCHANGED <<m_bStop, m_active, threads, handled, abandoned>>

\* The player and the scripts have ended: Stop returns.
Unload ==
  /\ At("unload") /\ JoinedHere
  /\ Done(Top.msg, Below)
  /\ UNCHANGED <<queues, m_bStop, m_active, threads, dropped, abandoned>>

MainThread ==
  \/ ProcessWindowMessages \/ ProcessMessages \/ Act \/ DoModal \/ Render
  \/ Stop \/ SetStop \/ Cleanup \/ Unload

Next ==
  \/ \E t \in Threads : Wait(t) \/ Return(t) \/ LeaveGraphics(t) \/ End(t)
  \/ \E t \in Threads, m \in Messages : SendMessage(t, m)
  \/ \E m \in Messages : SendHere(m)
  \/ \E m \in m_active : Close(m)
  \/ MainThread \/ Throw

Spec == Init /\ [][Next]_vars

\* The main thread and the others run, and the user answers every dialog.
FairSpec ==
  /\ Spec
  /\ WF_vars(MainThread) /\ WF_vars(\E m \in m_active : Close(m))
  /\ \A t \in Threads : WF_vars(Wait(t) \/ Return(t) \/ LeaveGraphics(t) \/ End(t))
-----------------------------------------------------------------------------
(* Properties *)

OnStack == {stack[i].msg : i \in 1 .. Len(stack)} \ {NoMessage}
Sent == {m \in Messages : m \in Queued \cup OnStack \cup handled \cup dropped \cup abandoned}

\* "first remove the message from the queue, else the message could be processed
\* more then once" (ApplicationMessenger.cpp:175): every message that was sent is in
\* one place, once, however deep the main thread is.
EachOnce ==
  /\ IsInjective(m_vecMessages) /\ IsInjective(m_vecWindowMessages)
  /\ \A i, k \in 1 .. Len(stack) : stack[i].msg = stack[k].msg => i = k
  /\ Queued \cap OnStack = {}
  /\ (Queued \cup OnStack) \cap (handled \cup dropped \cup abandoned) = {}
  /\ handled \cap (dropped \cup abandoned) = {} /\ dropped \cap abandoned = {}
  /\ \A t \in Threads \cup {"main"} : Cardinality({m \in Sent : m.from = t}) = sent[t]

\* A thread that waits has its message in a queue or in the hands of the main
\* thread, or has been woken; and it is woken only when the message was handled,
\* or dropped at the end of the program.
WaitersAreKnown ==
  \A t \in Threads : pc[t] \in {"queued", "wait"} =>
    IF msg[t] \in waitEvent THEN msg[t] \in handled \/ (msg[t] \in dropped /\ m_bStop)
    ELSE msg[t] \in Queued \cup OnStack \cup abandoned

\* Two messages of a thread are taken in the order in which it has sent them,
\* if they are of the same queue.
InOrder ==
  [][\A m, n \in Queued : (m.from = n.from /\ m.n < n.n /\ (m.kind = "window" <=> n.kind = "window"))
       => ~(n \notin Queued' /\ m \in Queued')]_vars

\* Stop waits for a thread that waits for the main thread.
Stuck ==
  \E t \in Threads :
    At(JoinedAt[t]) /\ pc[t] \in {"queued", "wait"} /\ msg[t] \in Queued \cup OnStack \cup abandoned

\* The program has ended by an exception, and nobody has told it to stop.
Died == stack = << >> /\ ~m_bStop

\* A thread that waits is woken in the end.  Excepted are the cases in which the code
\* leaves it waiting: its message was on the stack when another one threw; Stop waits
\* for it, or for a thread like it, while its message is queued or below on the
\* stack; or the program has ended by an exception.
WaitEnds ==
  \A t \in Threads : pc[t] = "wait" ~> (pc[t] # "wait" \/ msg[t] \in abandoned \/ Stuck \/ Died)

\* The program ends when it is told to, unless Stop waits for such a thread.
ProgramEnds == At("join") ~> (stack = << >> \/ Stuck)

\* "Cancel all remaining jobs, preparing for shutdown" (JobManager.h:193): the
\* program ends when it is told to.
QuitEnds == At("join") ~> stack = << >>
=============================================================================
